----------------------------- MODULE SEkeyProofs -----------------------------
(***************************************************************************)
(* Theorems about the update files of SEkey, for every value of its        *)
(* constants with Exclusive: the calls on the share do not overlap.        *)
(*                                                                         *)
(* The first sections are lemmas about sequences, about the execution of   *)
(* statements, records and files, and about what each operation does to    *)
(* the tables.  What every state satisfies follows: Base and Flow, then    *)
(* NumberInv for the numbers of the records.                               *)
(***************************************************************************)
EXTENDS SEkey, WellFoundedInduction, FiniteSetTheorems, TLAPS

-----------------------------------------------------------------------------
(* Sequences, and inductions on their length.                              *)

\* A set of numbers that is not empty has a least one.
LEMMA LeastNumber ==
  ASSUME NEW T \in SUBSET Nat, T # {}
  PROVE  \E m \in T : \A n \in T : m <= n
<1> DEFINE R == OpToRel(<, Nat)
<1>1. IsWellFoundedOn(R, Nat)
  BY NatLessThanWellFounded
<1>2. PICK m \in T : \A n \in T : ~(<<n, m>> \in R)
  <2> HIDE DEF R
  <2> QED BY <1>1, WFMin
<1>3. \A n \in T : ~(n < m)
  BY <1>2 DEF OpToRel
<1> QED BY <1>3

IsSeq(q) == \E S : q \in Seq(S)

LEMMA SeqFacts ==
  ASSUME NEW q, IsSeq(q)
  PROVE  /\ Len(q) \in Nat /\ DOMAIN q = 1..Len(q) /\ q = [i \in 1..Len(q) |-> q[i]]
         /\ q = <<>> <=> Len(q) = 0
BY DEF IsSeq

LEMMA SeqIndexed ==
  ASSUME NEW n \in Nat, NEW q, q = [i \in 1..n |-> q[i]]
  PROVE  IsSeq(q) /\ Len(q) = n
<1> DEFINE S == {q[i] : i \in 1..n}
<1>1. q \in [1..n -> S]
  OBVIOUS
<1>2. q \in Seq(S)
  <2> HIDE DEF S
  <2> QED BY <1>1
<1>3. Len(q) = n
  <2> HIDE DEF S
  <2> QED BY <1>1
<1> QED BY <1>2, <1>3 DEF IsSeq

LEMMA NoneAndOneSeq ==
  IsSeq(<<>>) /\ \A x : IsSeq(<<x>>)
<1>1. \A x : <<x>> \in Seq({x})
  OBVIOUS
<1>2. <<>> \in Seq({})
  OBVIOUS
<1> QED BY <1>1, <1>2 DEF IsSeq

LEMMA ConcatSeq ==
  ASSUME NEW p, NEW q, IsSeq(p), IsSeq(q)
  PROVE  /\ IsSeq(p \o q) /\ Len(p \o q) = Len(p) + Len(q)
         /\ \A i \in 1..Len(p) : (p \o q)[i] = p[i]
         /\ \A i \in 1..Len(q) : (p \o q)[Len(p) + i] = q[i]
<1>1. PICK S : p \in Seq(S)
  BY DEF IsSeq
<1>2. PICK U : q \in Seq(U)
  BY DEF IsSeq
<1>3. p \in Seq(S \cup U) /\ q \in Seq(S \cup U)
  BY <1>1, <1>2
<1>4. p \o q \in Seq(S \cup U)
  BY <1>3
<1> QED BY <1>3, <1>4 DEF IsSeq

LEMMA AppendSeq ==
  ASSUME NEW p, NEW x, IsSeq(p)
  PROVE  /\ IsSeq(Append(p, x)) /\ Append(p, x) = p \o <<x>>
         /\ Len(Append(p, x)) = Len(p) + 1 /\ Append(p, x)[Len(p) + 1] = x
         /\ \A i \in 1..Len(p) : Append(p, x)[i] = p[i]
<1>1. PICK S : p \in Seq(S)
  BY DEF IsSeq
<1>2. p \in Seq(S \cup {x})
  BY <1>1
<1>3. Append(p, x) \in Seq(S \cup {x})
  BY <1>2
<1> QED BY <1>2, <1>3 DEF IsSeq

LEMMA TailSeq ==
  ASSUME NEW q, IsSeq(q), q # <<>>
  PROVE  /\ IsSeq(Tail(q)) /\ q = <<Head(q)>> \o Tail(q) /\ Len(Tail(q)) = Len(q) - 1
         /\ Head(q) = q[1] /\ Len(q) \in Nat \ {0}
         /\ \A i \in 1..(Len(q) - 1) : Tail(q)[i] = q[i + 1]
<1>1. PICK S : q \in Seq(S)
  BY DEF IsSeq
<1>2. Tail(q) \in Seq(S)
  BY <1>1
<1> QED BY <1>1, <1>2 DEF IsSeq

LEMMA ConcatAssoc ==
  ASSUME NEW p, NEW q, NEW r, IsSeq(p), IsSeq(q), IsSeq(r)
  PROVE  (p \o q) \o r = p \o (q \o r)
<1>1. PICK S : p \in Seq(S)
  BY DEF IsSeq
<1>2. PICK U : q \in Seq(U)
  BY DEF IsSeq
<1>3. PICK V : r \in Seq(V)
  BY DEF IsSeq
<1> DEFINE W == S \cup U \cup V
<1>4. p \in Seq(W) /\ q \in Seq(W) /\ r \in Seq(W)
  BY <1>1, <1>2, <1>3
<1> HIDE DEF W
<1> QED BY <1>4

\* The beginnings of a sequence.
LEMMA Beginnings ==
  ASSUME NEW q, IsSeq(q)
  PROVE  /\ SubSeq(q, 1, 0) = <<>> /\ SubSeq(q, 1, Len(q)) = q
         /\ \A n \in 0..Len(q) : IsSeq(SubSeq(q, 1, n)) /\ Len(SubSeq(q, 1, n)) = n
         /\ \A n \in 1..Len(q) : SubSeq(q, 1, n) = Append(SubSeq(q, 1, n - 1), q[n])
<1>1. PICK S : q \in Seq(S)
  BY DEF IsSeq
<1>2. \A n \in 0..Len(q) : SubSeq(q, 1, n) \in Seq(S) /\ Len(SubSeq(q, 1, n)) = n
  BY <1>1
<1>3. ASSUME NEW n \in 1..Len(q)
      PROVE  SubSeq(q, 1, n) = Append(SubSeq(q, 1, n - 1), q[n])
  BY <1>1
<1>4. SubSeq(q, 1, 0) = <<>> /\ SubSeq(q, 1, Len(q)) = q
  BY <1>1
<1> QED BY <1>2, <1>3, <1>4 DEF IsSeq

-----------------------------------------------------------------------------
(* Records one after the other.                                            *)

IsRun(f, d, u, q) == f = [i \in 0..Len(q) |-> IF i = 0 THEN d ELSE Apply(f[i - 1], u, q[i])]

\* There is such a function: otherwise there would be a shortest beginning of the
\* records without one.
LEMMA RunExists ==
  ASSUME NEW d, NEW u, NEW q, IsSeq(q)
  PROVE  \E f : IsRun(f, d, u, q)
<1> DEFINE IsPart(f, n) == f = [i \in 0..n |-> IF i = 0 THEN d ELSE Apply(f[i - 1], u, q[i])]
           T == {n \in 0..Len(q) : ~\E f : IsPart(f, n)}
<1>0. Len(q) \in Nat
  BY SeqFacts
<1>1. CASE T = {}
  <2>1. Len(q) \in 0..Len(q)
    BY <1>0
  <2> QED BY <1>1, <2>1 DEF IsRun
<1>2. CASE T # {}
  <2>1. T \in SUBSET Nat
    BY <1>0
  <2>2. PICK n \in T : \A m \in T : n <= m
    <3> HIDE DEF T
    <3> QED BY <1>2, <2>1, LeastNumber
  <2>3. n \in 0..Len(q) /\ ~\E f : IsPart(f, n)
    OBVIOUS
  <2>4. n # 0
    <3>1. IsPart([i \in 0..0 |-> d], 0)
      OBVIOUS
    <3> QED BY <2>3, <3>1
  <2>5. n - 1 \in 0..Len(q) /\ ~(n <= n - 1)
    BY <1>0, <2>3, <2>4
  <2>6. PICK g : IsPart(g, n - 1)
    BY <2>2, <2>5
  <2> DEFINE h == [i \in 0..n |-> IF i = n THEN Apply(g[n - 1], u, q[n]) ELSE g[i]]
  <2>7. \A i \in 0..n : h[i] = IF i = 0 THEN d ELSE Apply(h[i - 1], u, q[i])
    <3> TAKE i \in 0..n
    <3> HIDE DEF h
    <3>1. \A j \in 0..(n - 1) : g[j] = IF j = 0 THEN d ELSE Apply(g[j - 1], u, q[j])
      BY <2>6
    <3>2. \A j \in 0..(n - 1) : h[j] = g[j]
      BY <2>3, <1>0 DEF h
    <3>3. h[n] = Apply(g[n - 1], u, q[n])
      BY <2>3, <1>0 DEF h
    <3>4. CASE i = n
      <4>1. n - 1 \in 0..(n - 1) /\ i # 0
        BY <1>0, <2>3, <2>4, <3>4
      <4> QED BY <3>2, <3>3, <3>4, <4>1
    <3>5. CASE i # n
      <4>1. i \in 0..(n - 1) /\ (i # 0 => i - 1 \in 0..(n - 1))
        BY <1>0, <2>3, <3>5
      <4> QED BY <3>1, <3>2, <4>1
    <3> QED BY <3>4, <3>5
  <2>8. h = [i \in 0..n |-> h[i]]
    OBVIOUS
  <2> HIDE DEF h
  <2>9. IsPart(h, n)
    BY <2>7, <2>8
  <2> QED BY <2>3, <2>9
<1> QED BY <1>1, <1>2

\* Two runs agree as far as their records do.
LEMMA RunsAgree ==
  ASSUME NEW d, NEW u, NEW q, NEW p, NEW f, NEW g, IsRun(f, d, u, q), IsRun(g, d, u, p),
         Len(q) \in Nat, Len(p) \in Nat, Len(q) <= Len(p),
         \A i \in 1..Len(q) : p[i] = q[i]
  PROVE  \A i \in 0..Len(q) : g[i] = f[i]
<1> DEFINE T == {i \in 0..Len(q) : g[i] # f[i]}
<1>1. CASE T = {}
  BY <1>1
<1>2. CASE T # {}
  <2>1. PICK n \in T : \A m \in T : n <= m
    <3>1. T \in SUBSET Nat
      OBVIOUS
    <3> HIDE DEF T
    <3> QED BY <1>2, <3>1, LeastNumber
  <2>2. n \in 0..Len(q) /\ g[n] # f[n] /\ n \in 0..Len(p)
    OBVIOUS
  <2>3. f[n] = IF n = 0 THEN d ELSE Apply(f[n - 1], u, q[n])
    BY <2>2 DEF IsRun
  <2>4. g[n] = IF n = 0 THEN d ELSE Apply(g[n - 1], u, p[n])
    BY <2>2 DEF IsRun
  <2>5. n # 0 /\ n \in 1..Len(q) /\ n - 1 \in 0..Len(q) /\ ~(n <= n - 1)
    BY <2>2, <2>3, <2>4
  <2>6. g[n - 1] = f[n - 1]
    BY <2>1, <2>5
  <2> QED BY <2>2, <2>3, <2>4, <2>5, <2>6
<1> QED BY <1>1, <1>2

LEMMA PerformedIsRun ==
  ASSUME NEW d, NEW u, NEW q, IsSeq(q)
  PROVE  \E f : IsRun(f, d, u, q) /\ Performed(d, u, q) = f[Len(q)]
<1> DEFINE g == CHOOSE f : IsRun(f, d, u, q)
<1>1. IsRun(g, d, u, q)
  BY RunExists
<1>2. Performed(d, u, q) = g[Len(q)]
  BY DEF Performed, IsRun
<1> QED BY <1>1, <1>2

LEMMA PerformedNone ==
  ASSUME NEW d, NEW u
  PROVE  Performed(d, u, <<>>) = d
<1>1. PICK f : IsRun(f, d, u, <<>>) /\ Performed(d, u, <<>>) = f[Len(<<>>)]
  BY PerformedIsRun, NoneAndOneSeq
<1> QED BY <1>1 DEF IsRun

LEMMA PerformedAppend ==
  ASSUME NEW d, NEW u, NEW q, NEW r, IsSeq(q)
  PROVE  Performed(d, u, Append(q, r)) = Apply(Performed(d, u, q), u, r)
<1> DEFINE p == Append(q, r)
<1>1. PICK f : IsRun(f, d, u, q) /\ Performed(d, u, q) = f[Len(q)]
  BY PerformedIsRun
<1>0. IsSeq(p)
  BY AppendSeq
<1>2. PICK g : IsRun(g, d, u, p) /\ Performed(d, u, p) = g[Len(p)]
  <2> HIDE DEF p
  <2> QED BY <1>0, PerformedIsRun
<1>3. /\ Len(q) \in Nat /\ Len(p) = Len(q) + 1
      /\ \A i \in 1..Len(q) : p[i] = q[i]
      /\ p[Len(q) + 1] = r
  BY AppendSeq, SeqFacts
<1> HIDE DEF p
<1>4. g[Len(q)] = f[Len(q)]
  <2>1. Len(q) \in 0..Len(q) /\ Len(q) <= Len(p) /\ Len(p) \in Nat
    BY <1>3
  <2> QED BY <1>1, <1>2, <1>3, <2>1, RunsAgree
<1>5. g[Len(p)] = Apply(g[Len(q)], u, p[Len(q) + 1])
  BY <1>2, <1>3 DEF IsRun
<1> QED BY <1>1, <1>2, <1>3, <1>4, <1>5 DEF p

LEMMA PerformedOne ==
  ASSUME NEW d, NEW u, NEW r
  PROVE  Performed(d, u, <<r>>) = Apply(d, u, r)
<1> DEFINE none == <<>>
<1>1. <<r>> = Append(none, r)
  OBVIOUS
<1>2. IsSeq(none)
  BY NoneAndOneSeq
<1>3. Performed(d, u, none) = d
  BY PerformedNone
<1> HIDE DEF none
<1>4. Performed(d, u, Append(none, r)) = Apply(Performed(d, u, none), u, r)
  BY <1>2, PerformedAppend
<1> QED BY <1>1, <1>3, <1>4

LEMMA PerformedConcat ==
  ASSUME NEW d, NEW u, NEW p, NEW q, IsSeq(p), IsSeq(q)
  PROVE  Performed(d, u, p \o q) = Performed(Performed(d, u, p), u, q)
<1> DEFINE Part(n) == SubSeq(q, 1, n)
           Holds(n) == Performed(d, u, p \o Part(n)) = Performed(Performed(d, u, p), u, Part(n))
           T == {n \in 0..Len(q) : ~Holds(n)}
<1>0. Len(q) \in Nat
  BY SeqFacts
<1>1. Holds(0)
  <2>1. Part(0) = <<>> /\ p \o <<>> = p
    <3>1. PICK S : p \in Seq(S)
      BY DEF IsSeq
    <3> QED BY <3>1, Beginnings
  <2> QED BY <2>1, PerformedNone
<1>2. ASSUME NEW n \in 1..Len(q), Holds(n - 1)
      PROVE  Holds(n)
  <2>1. Part(n) = Append(Part(n - 1), q[n]) /\ IsSeq(Part(n - 1))
    BY <1>0, Beginnings
  <2>2. p \o Part(n) = Append(p \o Part(n - 1), q[n]) /\ IsSeq(p \o Part(n - 1))
    <3> HIDE DEF Part
    <3>1. IsSeq(<<q[n]>>)
      BY NoneAndOneSeq
    <3>2. IsSeq(p \o Part(n - 1))
      BY <2>1, ConcatSeq
    <3>3. p \o Part(n) = p \o (Part(n - 1) \o <<q[n]>>)
      BY <2>1, AppendSeq
    <3>4. p \o Part(n) = (p \o Part(n - 1)) \o <<q[n]>>
      BY <2>1, <3>1, <3>3, ConcatAssoc, SMTT(40)
    <3> QED BY <3>2, <3>4, AppendSeq
  <2> HIDE DEF Part
  <2>3. Performed(d, u, p \o Part(n)) = Apply(Performed(d, u, p \o Part(n - 1)), u, q[n])
    BY <2>2, PerformedAppend
  <2>4. Performed(Performed(d, u, p), u, Part(n))
          = Apply(Performed(Performed(d, u, p), u, Part(n - 1)), u, q[n])
    BY <2>1, PerformedAppend
  <2> QED BY <1>2, <2>3, <2>4
<1>3. T = {}
  <2> SUFFICES ASSUME T # {} PROVE FALSE
    OBVIOUS
  <2>1. PICK n \in T : \A m \in T : n <= m
    <3>1. T \in SUBSET Nat
      BY <1>0
    <3> HIDE DEF T
    <3> QED BY <3>1, LeastNumber
  <2>2. n # 0
    BY <1>1
  <2>3. n \in 1..Len(q) /\ n - 1 \in 0..Len(q) /\ ~(n <= n - 1)
    BY <1>0, <2>2
  <2>4. Holds(n - 1)
    <3> HIDE DEF Holds
    <3> QED BY <2>1, <2>3
  <2> HIDE DEF Holds
  <2> QED BY <1>2, <2>3, <2>4
<1>4. Holds(Len(q))
  <2> HIDE DEF Holds
  <2> QED BY <1>0, <1>3
<1>5. Part(Len(q)) = q
  BY Beginnings
<1> QED BY <1>4, <1>5

LEMMA PerformedFirst ==
  ASSUME NEW d, NEW u, NEW r, NEW q, IsSeq(q)
  PROVE  Performed(d, u, <<r>> \o q) = Performed(Apply(d, u, r), u, q)
BY PerformedConcat, PerformedOne, NoneAndOneSeq

-----------------------------------------------------------------------------
(* Statements one after the other.                                         *)

Stepped(p, s) ==
  IF p.ok /\ Executes(p.db, s) THEN [db |-> After(p.db, s), ok |-> TRUE]
                               ELSE [db |-> p.db, ok |-> FALSE]

IsExec(f, db, text) ==
  f = [i \in 0..Len(text) |-> IF i = 0 THEN [db |-> db, ok |-> TRUE]
                                       ELSE Stepped(f[i - 1], text[i])]

LEMMA ExecExists ==
  ASSUME NEW db, NEW text, IsSeq(text)
  PROVE  \E f : IsExec(f, db, text)
<1> DEFINE IsPart(f, n) == f = [i \in 0..n |-> IF i = 0 THEN [db |-> db, ok |-> TRUE]
                                                        ELSE Stepped(f[i - 1], text[i])]
           T == {n \in 0..Len(text) : ~\E f : IsPart(f, n)}
<1>0. Len(text) \in Nat
  BY SeqFacts
<1>1. CASE T = {}
  <2>1. Len(text) \in 0..Len(text)
    BY <1>0
  <2> QED BY <1>1, <2>1 DEF IsExec
<1>2. CASE T # {}
  <2>1. T \in SUBSET Nat
    BY <1>0
  <2>2. PICK n \in T : \A m \in T : n <= m
    <3> HIDE DEF T
    <3> QED BY <1>2, <2>1, LeastNumber
  <2>3. n \in 0..Len(text) /\ ~\E f : IsPart(f, n)
    OBVIOUS
  <2>4. n # 0
    <3>1. IsPart([i \in 0..0 |-> [db |-> db, ok |-> TRUE]], 0)
      OBVIOUS
    <3> QED BY <2>3, <3>1
  <2>5. n - 1 \in 0..Len(text) /\ ~(n <= n - 1)
    BY <1>0, <2>3, <2>4
  <2>6. PICK g : IsPart(g, n - 1)
    BY <2>2, <2>5
  <2> DEFINE h == [i \in 0..n |-> IF i = n THEN Stepped(g[n - 1], text[n]) ELSE g[i]]
  <2>7. \A i \in 0..n : h[i] = IF i = 0 THEN [db |-> db, ok |-> TRUE]
                                          ELSE Stepped(h[i - 1], text[i])
    <3> TAKE i \in 0..n
    <3> HIDE DEF h
    <3>1. \A j \in 0..(n - 1) : g[j] = IF j = 0 THEN [db |-> db, ok |-> TRUE]
                                                  ELSE Stepped(g[j - 1], text[j])
      BY <2>6
    <3>2. \A j \in 0..(n - 1) : h[j] = g[j]
      BY <2>3, <1>0 DEF h
    <3>3. h[n] = Stepped(g[n - 1], text[n])
      BY <2>3, <1>0 DEF h
    <3>4. CASE i = n
      <4>1. n - 1 \in 0..(n - 1) /\ i # 0
        BY <1>0, <2>3, <2>4, <3>4
      <4> QED BY <3>2, <3>3, <3>4, <4>1
    <3>5. CASE i # n
      <4>1. i \in 0..(n - 1) /\ (i # 0 => i - 1 \in 0..(n - 1))
        BY <1>0, <2>3, <3>5
      <4> QED BY <3>1, <3>2, <4>1
    <3> QED BY <3>4, <3>5
  <2>8. h = [i \in 0..n |-> h[i]]
    OBVIOUS
  <2> HIDE DEF h
  <2>9. IsPart(h, n)
    BY <2>7, <2>8
  <2> QED BY <2>3, <2>9
<1> QED BY <1>1, <1>2

LEMMA ExecsAgree ==
  ASSUME NEW db, NEW q, NEW p, NEW f, NEW g, IsExec(f, db, q), IsExec(g, db, p),
         Len(q) \in Nat, Len(p) \in Nat, Len(q) <= Len(p),
         \A i \in 1..Len(q) : p[i] = q[i]
  PROVE  \A i \in 0..Len(q) : g[i] = f[i]
<1> DEFINE T == {i \in 0..Len(q) : g[i] # f[i]}
<1>1. CASE T = {}
  BY <1>1
<1>2. CASE T # {}
  <2>1. PICK n \in T : \A m \in T : n <= m
    <3>1. T \in SUBSET Nat
      OBVIOUS
    <3> HIDE DEF T
    <3> QED BY <1>2, <3>1, LeastNumber
  <2>2. n \in 0..Len(q) /\ g[n] # f[n] /\ n \in 0..Len(p)
    OBVIOUS
  <2>3. f[n] = IF n = 0 THEN [db |-> db, ok |-> TRUE] ELSE Stepped(f[n - 1], q[n])
    BY <2>2 DEF IsExec
  <2>4. g[n] = IF n = 0 THEN [db |-> db, ok |-> TRUE] ELSE Stepped(g[n - 1], p[n])
    BY <2>2 DEF IsExec
  <2>5. n # 0 /\ n \in 1..Len(q) /\ n - 1 \in 0..Len(q) /\ ~(n <= n - 1)
    BY <2>2, <2>3, <2>4
  <2>6. g[n - 1] = f[n - 1]
    BY <2>1, <2>5
  <2> QED BY <2>2, <2>3, <2>4, <2>5, <2>6
<1> QED BY <1>1, <1>2

LEMMA StatementsIsExec ==
  ASSUME NEW db, NEW text, IsSeq(text)
  PROVE  \E f : IsExec(f, db, text) /\ Statements(db, text) = f[Len(text)]
<1> DEFINE g == CHOOSE f : IsExec(f, db, text)
<1>1. IsExec(g, db, text)
  BY ExecExists
<1>2. Statements(db, text) = g[Len(text)]
  BY DEF Statements, IsExec, Stepped
<1> QED BY <1>1, <1>2

LEMMA StatementsNone ==
  ASSUME NEW db
  PROVE  Statements(db, <<>>) = [db |-> db, ok |-> TRUE]
<1>1. PICK f : IsExec(f, db, <<>>) /\ Statements(db, <<>>) = f[Len(<<>>)]
  BY StatementsIsExec, NoneAndOneSeq
<1> QED BY <1>1 DEF IsExec

LEMMA StatementsAppend ==
  ASSUME NEW db, NEW q, NEW r, IsSeq(q)
  PROVE  Statements(db, Append(q, r)) = Stepped(Statements(db, q), r)
<1> DEFINE p == Append(q, r)
<1>1. PICK f : IsExec(f, db, q) /\ Statements(db, q) = f[Len(q)]
  BY StatementsIsExec
<1>0. IsSeq(p)
  BY AppendSeq
<1>2. PICK g : IsExec(g, db, p) /\ Statements(db, p) = g[Len(p)]
  <2> HIDE DEF p
  <2> QED BY <1>0, StatementsIsExec
<1>3. /\ Len(q) \in Nat /\ Len(p) = Len(q) + 1
      /\ \A i \in 1..Len(q) : p[i] = q[i]
      /\ p[Len(q) + 1] = r
  BY AppendSeq, SeqFacts
<1> HIDE DEF p
<1>4. g[Len(q)] = f[Len(q)]
  <2>1. Len(q) \in 0..Len(q) /\ Len(q) <= Len(p) /\ Len(p) \in Nat
    BY <1>3
  <2> QED BY <1>1, <1>2, <1>3, <2>1, ExecsAgree
<1>5. g[Len(p)] = Stepped(g[Len(q)], p[Len(q) + 1])
  <2>1. /\ Len(p) \in 0..Len(p) /\ Len(p) # 0 /\ Len(p) - 1 = Len(q)
    BY <1>3
  <2>2. g[Len(p)] = Stepped(g[Len(p) - 1], p[Len(p)])
    BY <1>2, <2>1 DEF IsExec
  <2> QED BY <1>3, <2>1, <2>2
<1> QED BY <1>1, <1>2, <1>3, <1>4, <1>5 DEF p

LEMMA StatementsOne ==
  ASSUME NEW db, NEW a
  PROVE  Statements(db, <<a>>) = Stepped([db |-> db, ok |-> TRUE], a)
<1> DEFINE start == [db |-> db, ok |-> TRUE]
<1>1. <<a>> = Append(<<>>, a)
  OBVIOUS
<1>2. IsSeq(<<>>)
  BY NoneAndOneSeq
<1>3. Statements(db, <<>>) = start
  BY StatementsNone
<1> HIDE DEF start
<1>4. Statements(db, Append(<<>>, a)) = Stepped(Statements(db, <<>>), a)
  BY <1>2, StatementsAppend
<1> QED BY <1>1, <1>3, <1>4 DEF start

LEMMA StatementsTwo ==
  ASSUME NEW db, NEW a, NEW b
  PROVE  Statements(db, <<a, b>>) = Stepped(Stepped([db |-> db, ok |-> TRUE], a), b)
<1> DEFINE x == Stepped([db |-> db, ok |-> TRUE], a)
<1>1. <<a, b>> = Append(<<a>>, b)
  OBVIOUS
<1>2. IsSeq(<<a>>)
  BY NoneAndOneSeq
<1>3. Statements(db, <<a>>) = x
  BY StatementsOne
<1> HIDE DEF x
<1>4. Statements(db, Append(<<a>>, b)) = Stepped(Statements(db, <<a>>), b)
  BY <1>2, StatementsAppend
<1> QED BY <1>1, <1>3, <1>4 DEF x

LEMMA StatementsThree ==
  ASSUME NEW db, NEW a, NEW b, NEW c
  PROVE  Statements(db, <<a, b, c>>) = Stepped(Stepped(Stepped([db |-> db, ok |-> TRUE], a), b), c)
<1> DEFINE x == Stepped(Stepped([db |-> db, ok |-> TRUE], a), b)
<1>1. <<a, b>> = Append(<<a>>, b) /\ <<a, b, c>> = Append(<<a, b>>, c)
  OBVIOUS
<1>2. IsSeq(<<a>>)
  BY NoneAndOneSeq
<1>3. IsSeq(<<a, b>>)
  <2>1. IsSeq(Append(<<a>>, b))
    BY <1>2, AppendSeq
  <2> QED BY <1>1, <2>1
<1>4. Statements(db, <<a, b>>) = x
  BY StatementsTwo
<1> HIDE DEF x
<1>5. Statements(db, Append(<<a, b>>, c)) = Stepped(Statements(db, <<a, b>>), c)
  BY <1>3, StatementsAppend
<1> QED BY <1>1, <1>4, <1>5 DEF x

-----------------------------------------------------------------------------
(* What is true at 0 and passes from each number to the next is true up to n. *)

LEMMA UpTo ==
  ASSUME NEW n \in Nat, NEW T, 0 \in T, \A i \in 1..n : i - 1 \in T => i \in T
  PROVE  \A i \in 0..n : i \in T
<1> DEFINE F == {i \in 0..n : i \notin T}
<1>1. CASE F = {}
  BY <1>1
<1>2. CASE F # {}
  <2>1. PICK m \in F : \A i \in F : m <= i
    <3>1. F \in SUBSET Nat
      OBVIOUS
    <3> HIDE DEF F
    <3> QED BY <1>2, <3>1, LeastNumber
  <2>2. m # 0 /\ m \in 1..n /\ m - 1 \in 0..n /\ ~(m <= m - 1)
    OBVIOUS
  <2>3. m - 1 \in T
    BY <2>1, <2>2
  <2> QED BY <2>1, <2>2, <2>3
<1> QED BY <1>1, <1>2

\* A sequence of the elements of a finite set has each of them once.
LEMMA SetToSeqFacts ==
  ASSUME NEW S, IsFiniteSet(S)
  PROVE  LET q == SetToSeq(S)
         IN  /\ q \in Seq(S) /\ IsSeq(q)
             /\ \A x \in S : \E i \in 1..Len(q) : q[i] = x
             /\ \A i, j \in 1..Len(q) : q[i] = q[j] => i = j
<1> DEFINE n == Cardinality(S)
           q == SetToSeq(S)
<1>1. n \in Nat
  BY FS_CardinalityType
<1>2. \E f \in [1..n -> S] : IsInjective(f)
  <2>1. PICK f : f \in Bijection(1..n, S)
    BY FS_CardinalityType DEF ExistsBijection
  <2> QED BY <2>1 DEF Bijection, Injection, IsInjective
<1>3. q \in [1..n -> S] /\ IsInjective(q)
  BY <1>2 DEF SetToSeq
<1> HIDE DEF n, q
<1>4. q \in Seq(S) /\ Len(q) = n
  BY <1>1, <1>3
<1>5. \A i, j \in 1..n : q[i] = q[j] => i = j
  BY <1>3 DEF IsInjective
<1>6. IsFiniteSet(1..n) /\ Cardinality(1..n) = n
  <2>1. IsFiniteSet(1..n) /\ Cardinality(1..n) = IF 1 > n THEN 0 ELSE n - 1 + 1
    BY <1>1, FS_Interval
  <2> QED BY <1>1, <2>1
<1>7. q \in Injection(1..n, S)
  BY <1>3, <1>5 DEF Injection, IsInjective
<1>8. q \in Surjection(1..n, S)
  <2>1. Cardinality(1..n) = Cardinality(S) <=> q \in Surjection(1..n, S)
    BY <1>6, <1>7, FS_Injection
  <2> QED BY <1>6, <2>1 DEF n
<1>9. \A x \in S : \E i \in 1..n : q[i] = x
  BY <1>8 DEF Surjection
<1> QED BY <1>4, <1>5, <1>9 DEF IsSeq, q

-----------------------------------------------------------------------------
(* Databases, statements, commands, and what records are executed on.      *)

IsDb(db) == db = [users |-> db.users, groups |-> db.groups, member |-> db.member,
                  keys |-> db.keys]

IsStatement(s) == /\ s.do \in {"clear", "insert", "count", "set"}
                  /\ s.do = "set" => s.table \in {"users", "groups", "keys"}

IsText(text) == IsSeq(text) /\ \A i \in 1..Len(text) : IsStatement(text[i])

IsCommand(c) ==
  /\ c.type \in {"SQL_QUERY", "DELETE_USER_FROM_GROUP", "DELETE_USER", "DELETE_GROUP", "KEY_DATA"}
  /\ c.type = "SQL_QUERY" => IsText(c.text)

IsRecords(q) == IsSeq(q) /\ \A i \in 1..Len(q) : q[i].cnt \in Nat /\ IsCommand(q[i].cmd)

IsWork(d) ==
  /\ d = [db |-> d.db, cnt |-> d.cnt, flash |-> d.flash, updkeys |-> d.updkeys, ok |-> d.ok]
  /\ IsDb(d.db) /\ d.ok \in BOOLEAN /\ d.updkeys \in BOOLEAN /\ d.cnt \in Nat

\* A command that leaves a user's own row where it is.
IsMild(c, u) ==
  /\ IsCommand(c)
  /\ c.type = "SQL_QUERY" => \A i \in 1..Len(c.text) : c.text[i].do # "clear"
  /\ c.type = "DELETE_USER" => c.user # u

LEMMA AfterShape ==
  ASSUME NEW db, IsDb(db), NEW s, IsStatement(s)
  PROVE  /\ IsDb(After(db, s))
         /\ s.do # "clear" => DOMAIN db.users \subseteq DOMAIN After(db, s).users
<1>1. CASE s.do = "clear"
  BY <1>1 DEF After, IsDb, NoRows
<1>2. CASE s.do = "insert"
  BY <1>2 DEF After, IsDb, Plus
<1>3. CASE s.do = "count"
  <2>1. After(db, s) = IF s.group \in DOMAIN db.groups
                         THEN [db EXCEPT !.groups[s.group][s.column] = @ + s.step] ELSE db
    BY <1>3 DEF After
  <2> QED BY <2>1 DEF IsDb
<1>4. CASE s.do = "set"
  <2>1. After(db, s) = IF s.id \in DOMAIN db[s.table]
                         THEN [db EXCEPT ![s.table][s.id][s.column] = s.value] ELSE db
    BY <1>4 DEF After
  <2>2. s.table \in {"users", "groups", "keys"}
    BY <1>4 DEF IsStatement
  <2> QED BY <2>1, <2>2 DEF IsDb
<1> QED BY <1>1, <1>2, <1>3, <1>4 DEF IsStatement

\* A state in the middle of a text.
IsMiddle(e) == e = [db |-> e.db, ok |-> e.ok] /\ IsDb(e.db) /\ e.ok \in BOOLEAN

LEMMA SteppedShape ==
  ASSUME NEW p, IsMiddle(p), NEW s, IsStatement(s)
  PROVE  /\ IsMiddle(Stepped(p, s))
         /\ s.do # "clear" => DOMAIN p.db.users \subseteq DOMAIN Stepped(p, s).db.users
<1>1. CASE p.ok /\ Executes(p.db, s)
  <2>1. Stepped(p, s) = [db |-> After(p.db, s), ok |-> TRUE]
    BY <1>1 DEF Stepped
  <2> QED BY <2>1, AfterShape DEF IsMiddle
<1>2. CASE ~(p.ok /\ Executes(p.db, s))
  <2>1. Stepped(p, s) = [db |-> p.db, ok |-> FALSE]
    BY <1>2 DEF Stepped
  <2> QED BY <2>1 DEF IsMiddle
<1> QED BY <1>1, <1>2

LEMMA StatementsShape ==
  ASSUME NEW db, IsDb(db), NEW text, IsText(text)
  PROVE  LET end == Statements(db, text)
         IN  /\ IsMiddle(end)
             /\ (\A i \in 1..Len(text) : text[i].do # "clear")
                  => DOMAIN db.users \subseteq DOMAIN end.db.users
<1>0. Len(text) \in Nat /\ IsSeq(text)
  BY SeqFacts DEF IsText
<1>1. PICK f : IsExec(f, db, text) /\ Statements(db, text) = f[Len(text)]
  BY <1>0, StatementsIsExec
<1> DEFINE Holds(e) == /\ IsMiddle(e)
                       /\ (\A i \in 1..Len(text) : text[i].do # "clear")
                            => DOMAIN db.users \subseteq DOMAIN e.db.users
           T == {i \in 0..Len(text) : Holds(f[i])}
<1>2. 0 \in T
  <2>1. f[0] = [db |-> db, ok |-> TRUE]
    BY <1>0, <1>1 DEF IsExec
  <2>2. Holds(f[0])
    BY <2>1 DEF IsMiddle
  <2> QED BY <1>0, <2>2
<1>3. ASSUME NEW i \in 1..Len(text), i - 1 \in T
      PROVE  i \in T
  <2>1. f[i] = Stepped(f[i - 1], text[i]) /\ i \in 0..Len(text)
    <3>1. i \in 0..Len(text) /\ i # 0
      BY <1>0
    <3> QED BY <1>1, <3>1 DEF IsExec
  <2>2. Holds(f[i - 1])
    BY <1>3
  <2>3. IsStatement(text[i])
    BY DEF IsText
  <2>4. Holds(f[i])
    BY <2>1, <2>2, <2>3, SteppedShape
  <2> QED BY <2>1, <2>4
<1>4. Len(text) \in T
  <2> HIDE DEF T
  <2>1. \A i \in 0..Len(text) : i \in T
    BY <1>0, <1>2, <1>3, UpTo
  <2> QED BY <1>0, <2>1
<1> QED BY <1>1, <1>4

-----------------------------------------------------------------------------
(* What a command does to a device, field by field.                         *)

LEMMA WorkDomain ==
  ASSUME NEW d, IsWork(d)
  PROVE  DOMAIN d = {"db", "cnt", "flash", "updkeys", "ok"} /\ IsDb(d.db)
BY DEF IsWork

LEMMA DbDomain ==
  ASSUME NEW db, IsDb(db)
  PROVE  DOMAIN db = {"users", "groups", "member", "keys"}
BY DEF IsDb

LEMMA DbExcept ==
  ASSUME NEW db, IsDb(db), NEW x
  PROVE  /\ [db EXCEPT !.users = x] = [users |-> x, groups |-> db.groups, member |-> db.member, keys |-> db.keys]
         /\ [db EXCEPT !.groups = x] = [users |-> db.users, groups |-> x, member |-> db.member, keys |-> db.keys]
         /\ [db EXCEPT !.member = x] = [users |-> db.users, groups |-> db.groups, member |-> x, keys |-> db.keys]
         /\ [db EXCEPT !.keys = x] = [users |-> db.users, groups |-> db.groups, member |-> db.member, keys |-> x]
BY DEF IsDb

LEMMA DbFields ==
  ASSUME NEW a, NEW b, NEW c, NEW d, NEW e,
         e = [users |-> a, groups |-> b, member |-> c, keys |-> d]
  PROVE  IsDb(e) /\ e.users = a /\ e.groups = b /\ e.member = c /\ e.keys = d
BY DEF IsDb

LEMMA DbWith ==
  ASSUME NEW db, IsDb(db), NEW x, NEW e
  PROVE  /\ e = [db EXCEPT !.users = x] =>
              IsDb(e) /\ e.users = x /\ e.groups = db.groups /\ e.member = db.member /\ e.keys = db.keys
         /\ e = [db EXCEPT !.groups = x] =>
              IsDb(e) /\ e.users = db.users /\ e.groups = x /\ e.member = db.member /\ e.keys = db.keys
         /\ e = [db EXCEPT !.member = x] =>
              IsDb(e) /\ e.users = db.users /\ e.groups = db.groups /\ e.member = x /\ e.keys = db.keys
         /\ e = [db EXCEPT !.keys = x] =>
              IsDb(e) /\ e.users = db.users /\ e.groups = db.groups /\ e.member = db.member /\ e.keys = x
<1>1. ASSUME e = [db EXCEPT !.users = x]
      PROVE  IsDb(e) /\ e.users = x /\ e.groups = db.groups /\ e.member = db.member /\ e.keys = db.keys
  <2>1. e = [users |-> x, groups |-> db.groups, member |-> db.member, keys |-> db.keys]
    BY <1>1, DbExcept
  <2> QED BY <2>1, DbFields
<1>2. ASSUME e = [db EXCEPT !.groups = x]
      PROVE  IsDb(e) /\ e.users = db.users /\ e.groups = x /\ e.member = db.member /\ e.keys = db.keys
  <2>1. e = [users |-> db.users, groups |-> x, member |-> db.member, keys |-> db.keys]
    BY <1>2, DbExcept
  <2> QED BY <2>1, DbFields
<1>3. ASSUME e = [db EXCEPT !.member = x]
      PROVE  IsDb(e) /\ e.users = db.users /\ e.groups = db.groups /\ e.member = x /\ e.keys = db.keys
  <2>1. e = [users |-> db.users, groups |-> db.groups, member |-> x, keys |-> db.keys]
    BY <1>3, DbExcept
  <2> QED BY <2>1, DbFields
<1>4. ASSUME e = [db EXCEPT !.keys = x]
      PROVE  IsDb(e) /\ e.users = db.users /\ e.groups = db.groups /\ e.member = db.member /\ e.keys = x
  <2>1. e = [users |-> db.users, groups |-> db.groups, member |-> db.member, keys |-> x]
    BY <1>4, DbExcept
  <2> QED BY <2>1, DbFields
<1> QED BY <1>1, <1>2, <1>3, <1>4

LEMMA PerformSQL ==
  ASSUME NEW d, IsWork(d), NEW u, NEW c, IsCommand(c), c.type = "SQL_QUERY"
  PROVE  LET end == Statements(d.db, c.text)
         IN  /\ Perform(d, u, c) = [db |-> end.db, cnt |-> d.cnt, flash |-> d.flash,
                                    updkeys |-> d.updkeys, ok |-> end.ok]
             /\ IsDb(end.db) /\ end.ok \in BOOLEAN
             /\ IsMild(c, u) /\ u \in DOMAIN d.db.users => u \in DOMAIN end.db.users
<1> DEFINE end == Statements(d.db, c.text)
<1>1. Perform(d, u, c) = [d EXCEPT !.db = end.db, !.ok = end.ok]
  BY DEF Perform, usr_sql_exec
<1>2. IsText(c.text) /\ IsDb(d.db)
  BY DEF IsCommand, IsWork
<1>3. /\ IsMiddle(end)
      /\ (\A i \in 1..Len(c.text) : c.text[i].do # "clear")
            => DOMAIN d.db.users \subseteq DOMAIN end.db.users
  BY <1>2, StatementsShape
<1> HIDE DEF end
<1>4. [d EXCEPT !.db = end.db, !.ok = end.ok]
        = [db |-> end.db, cnt |-> d.cnt, flash |-> d.flash, updkeys |-> d.updkeys, ok |-> end.ok]
  <2>1. [d EXCEPT !.db = end.db, !.ok = end.ok]
          = [x \in DOMAIN d |-> IF x = "ok" THEN end.ok ELSE IF x = "db" THEN end.db ELSE d[x]]
    OBVIOUS
  <2> QED BY <2>1, WorkDomain
<1> QED BY <1>1, <1>3, <1>4 DEF IsMiddle, IsMild, end

\* The tables without a group the user leaves, a user, a deleted group.
LeftAlone(db, u, uid, g) == usr_delete_user_from_group([db |-> db, flash |-> {}], u, uid, g).db
NoGroup(db, u, g) == usr_delete_group([db |-> db, flash |-> {}], u, g).db
NoUser(db, u, uid) == usr_delete_user([db |-> db, flash |-> {}], u, uid).db

LEMMA PerformDelFromGroup ==
  ASSUME NEW d, IsWork(d), NEW u, NEW c, c.type = "DELETE_USER_FROM_GROUP"
  PROVE  LET end == LeftAlone(d.db, u, c.user, c.group)
         IN  /\ Perform(d, u, c) = [db |-> end, cnt |-> d.cnt, updkeys |-> d.updkeys, ok |-> d.ok,
                  flash |-> IF c.user = u THEN d.flash \ KeysOf(d.db, c.group) ELSE d.flash]
             /\ IsDb(end)
             /\ u \in DOMAIN d.db.users => u \in DOMAIN end.users
<1>1. Perform(d, u, c) = usr_delete_user_from_group(d, u, c.user, c.group)
  BY DEF Perform
<1>2. CASE c.user = u
  <2> DEFINE g == c.group
             groups == Drop(d.db.groups, {g})
             left == [d.db EXCEPT !.groups = groups,
                           !.member = {m \in @ : m[2] \in DOMAIN groups},
                           !.keys = [k \in {x \in DOMAIN @ : @[x].owner \in DOMAIN groups} |-> @[k]]]
             end == [left EXCEPT !.users = Restrict(@, Known(left, u))]
  <2>1. LeftAlone(d.db, u, c.user, g) = end
    BY <1>2 DEF LeftAlone, usr_delete_user_from_group, usr_leave_group
  <2>2. Perform(d, u, c) = [d EXCEPT !.db = end, !.flash = @ \ KeysOf(d.db, g)]
    BY <1>1, <1>2 DEF usr_delete_user_from_group, usr_leave_group
  <2>3. IsDb(left) /\ left.users = d.db.users
    <3>1. left = [x \in DOMAIN d.db |->
                    IF x = "keys" THEN left.keys ELSE IF x = "member" THEN left.member
                    ELSE IF x = "groups" THEN groups ELSE d.db[x]]
      BY WorkDomain DEF IsDb
    <3> HIDE DEF left
    <3>2. DOMAIN d.db = {"users", "groups", "member", "keys"}
      BY WorkDomain, DbDomain
    <3>3. left.users = d.db.users /\ DOMAIN left = {"users", "groups", "member", "keys"}
      BY <3>1, <3>2
    <3> QED BY <3>1, <3>2, <3>3 DEF IsDb
  <2> HIDE DEF left
  <2>4. IsDb(end) /\ (u \in DOMAIN d.db.users => u \in DOMAIN end.users)
    BY <2>3 DEF IsDb, Restrict, Known
  <2> HIDE DEF end
  <2>5. Perform(d, u, c) = [x \in DOMAIN d |-> IF x = "flash" THEN d.flash \ KeysOf(d.db, g)
                                               ELSE IF x = "db" THEN end ELSE d[x]]
    BY <2>2, WorkDomain
  <2> QED BY <1>2, <2>1, <2>4, <2>5, WorkDomain
<1>3. CASE c.user # u
  <2> DEFINE out == [d.db EXCEPT !.member = @ \ {<<c.user, c.group>>}]
             left == After(out, Count("users_counter", c.group, -1))
             end == [left EXCEPT !.users = Restrict(@, Known(left, u))]
  <2>1. LeftAlone(d.db, u, c.user, c.group) = end
    BY <1>3 DEF LeftAlone, usr_delete_user_from_group
  <2>2. Perform(d, u, c) = [d EXCEPT !.db = end]
    BY <1>1, <1>3 DEF usr_delete_user_from_group
  <2>3. IsDb(out) /\ out.users = d.db.users
    BY DEF IsDb, IsWork
  <2> HIDE DEF out
  <2>4. IsDb(left) /\ (u \in DOMAIN d.db.users => u \in DOMAIN left.users)
    <3>1. IsStatement(Count("users_counter", c.group, -1))
      BY DEF IsStatement, Count
    <3>2. Count("users_counter", c.group, -1).do = "count"
      BY DEF Count
    <3> QED BY <2>3, <3>1, <3>2, AfterShape
  <2> HIDE DEF left
  <2>5. IsDb(end) /\ (u \in DOMAIN d.db.users => u \in DOMAIN end.users)
    BY <2>4 DEF IsDb, Restrict, Known
  <2> HIDE DEF end
  <2> QED BY <1>3, <2>1, <2>2, <2>5 DEF IsWork
<1> QED BY <1>2, <1>3

LEMMA PerformDelGroup ==
  ASSUME NEW d, IsWork(d), NEW u, NEW c, c.type = "DELETE_GROUP"
  PROVE  LET end == NoGroup(d.db, u, c.group)
         IN  /\ Perform(d, u, c) = [db |-> end, cnt |-> d.cnt, updkeys |-> d.updkeys, ok |-> d.ok,
                                    flash |-> d.flash \ KeysOf(d.db, c.group)]
             /\ IsDb(end)
             /\ u \in DOMAIN d.db.users => u \in DOMAIN end.users
<1>1. Perform(d, u, c) = usr_delete_group(d, u, c.group)
  BY DEF Perform
<1> DEFINE g == c.group
           left == [d.db EXCEPT !.groups = Drop(@, {g}), !.member = {m \in @ : m[2] # g},
                                !.keys = Drop(@, KeysOf(d.db, g))]
           end == [left EXCEPT !.users = Restrict(@, Known(left, u))]
<1>2. NoGroup(d.db, u, g) = end
  BY DEF NoGroup, usr_delete_group
<1>3. Perform(d, u, c) = [d EXCEPT !.db = end, !.flash = @ \ KeysOf(d.db, g)]
  BY <1>1 DEF usr_delete_group
<1>4. IsDb(left) /\ left.users = d.db.users
  <2>1. left = [x \in DOMAIN d.db |->
                    IF x = "keys" THEN left.keys ELSE IF x = "member" THEN left.member
                    ELSE IF x = "groups" THEN left.groups ELSE d.db[x]]
    BY WorkDomain DEF IsDb
  <2> HIDE DEF left
  <2>2. DOMAIN d.db = {"users", "groups", "member", "keys"}
    BY WorkDomain, DbDomain
  <2>3. left.users = d.db.users /\ DOMAIN left = {"users", "groups", "member", "keys"}
    BY <2>1, <2>2
  <2> QED BY <2>1, <2>2, <2>3 DEF IsDb
<1> HIDE DEF left
<1>5. IsDb(end) /\ (u \in DOMAIN d.db.users => u \in DOMAIN end.users)
  BY <1>4 DEF IsDb, Restrict, Known
<1> HIDE DEF end
<1>6. Perform(d, u, c) = [x \in DOMAIN d |-> IF x = "flash" THEN d.flash \ KeysOf(d.db, g)
                                             ELSE IF x = "db" THEN end ELSE d[x]]
  BY <1>3, WorkDomain
<1> QED BY <1>2, <1>5, <1>6, WorkDomain

LEMMA PerformDelUser ==
  ASSUME NEW d, IsWork(d), NEW u, NEW c, c.type = "DELETE_USER"
  PROVE  LET end == NoUser(d.db, u, c.user)
         IN  /\ Perform(d, u, c) = [db |-> end, cnt |-> d.cnt, updkeys |-> d.updkeys, ok |-> d.ok,
                  flash |-> IF c.user = u /\ u \in DOMAIN d.db.users THEN {} ELSE d.flash]
             /\ IsDb(end)
             /\ u \in DOMAIN d.db.users /\ c.user # u => u \in DOMAIN end.users
<1>1. Perform(d, u, c) = usr_delete_user(d, u, c.user)
  BY DEF Perform
<1>2. CASE c.user = u
  BY <1>1, <1>2 DEF NoUser, usr_delete_user, IsWork, IsDb, NoRows
<1>3. CASE c.user # u
  <2> DEFINE gs == GroupsOf(d.db, c.user)
             counted == [g \in DOMAIN d.db.groups |->
                           IF g \in gs
                             THEN [d.db.groups[g] EXCEPT !.users_counter = @ - 1]
                             ELSE d.db.groups[g]]
             end == [users |-> Drop(d.db.users, {c.user}), groups |-> counted,
                     member |-> {m \in d.db.member : m[1] # c.user}, keys |-> d.db.keys]
  <2>1. NoUser(d.db, u, c.user)
           = [d.db EXCEPT !.groups = counted, !.member = {m \in @ : m[1] # c.user},
                          !.users = Drop(@, {c.user})]
    BY <1>3 DEF NoUser, usr_delete_user
  <2>2. Perform(d, u, c) = [d EXCEPT !.db.groups = counted,
                       !.db.member = {m \in @ : m[1] # c.user},
                       !.db.users = Drop(@, {c.user})]
    BY <1>1, <1>3 DEF usr_delete_user
  <2> DEFINE db == d.db
             C == [db EXCEPT !.groups = counted]
             D == [C EXCEPT !.member = {m \in @ : m[1] # c.user}]
             E == [D EXCEPT !.users = Drop(@, {c.user})]
             ms == {m \in db.member : m[1] # c.user}
             us == Drop(db.users, {c.user})
  <2>3. NoUser(d.db, u, c.user) = end /\ Perform(d, u, c) = [d EXCEPT !.db = end]
    <3>0. Perform(d, u, c) = [d EXCEPT !.db = end]
      <4> HIDE DEF counted
      <4> QED BY <2>2 DEF IsWork, IsDb
    <3>1. NoUser(d.db, u, c.user) = E
      BY <2>1
    <3>2. IsDb(db)
      BY DEF IsWork
    <3> HIDE DEF counted, db
    <3>3. /\ IsDb(C) /\ C.users = db.users /\ C.groups = counted /\ C.member = db.member
          /\ C.keys = db.keys
      BY <3>2, DbWith
    <3> HIDE DEF C
    <3>4. D = [C EXCEPT !.member = ms]
      BY <3>3
    <3> HIDE DEF D, ms
    <3>5. /\ IsDb(D) /\ D.users = db.users /\ D.groups = counted /\ D.member = ms
          /\ D.keys = db.keys
      BY <3>3, <3>4, DbWith
    <3>6. E = [D EXCEPT !.users = us]
      BY <3>5
    <3> HIDE DEF E, us
    <3>7. E = [users |-> us, groups |-> counted, member |-> ms, keys |-> db.keys]
      BY <3>5, <3>6, DbExcept, ZenonT(60)
    <3>8. E = end
      BY <3>7 DEF us, ms, db
    <3> QED BY <3>0, <3>1, <3>8
  <2>4. IsDb(end) /\ (u \in DOMAIN d.db.users => u \in DOMAIN end.users)
    BY <1>3 DEF IsDb, Drop, Restrict
  <2> HIDE DEF end
  <2> QED BY <1>3, <2>3, <2>4 DEF IsWork
<1> QED BY <1>2, <1>3

LEMMA PerformKeyData ==
  ASSUME NEW d, IsWork(d), NEW u, NEW c, c.type = "KEY_DATA"
  PROVE  LET fits == u \in DOMAIN d.db.users /\ d.updkeys
         IN  Perform(d, u, c) = [db |-> d.db, cnt |-> d.cnt, updkeys |-> d.updkeys,
                ok |-> IF fits THEN d.ok ELSE FALSE,
                flash |-> IF fits THEN d.flash \cup {c.key} ELSE d.flash]
<1>1. Perform(d, u, c) = usr_store_key(d, u, c.key)
  BY DEF Perform
<1> QED BY <1>1 DEF usr_store_key, IsWork

\* The same tables with another count and another flash.
At(d, n, F) == [db |-> d.db, cnt |-> n, flash |-> F, updkeys |-> d.updkeys, ok |-> d.ok]

LEMMA AtFacts ==
  ASSUME NEW d, IsWork(d), NEW n \in Nat, NEW F
  PROVE  /\ IsWork(At(d, n, F)) /\ At(d, d.cnt, d.flash) = d
         /\ At(d, n, F).db = d.db /\ At(d, n, F).ok = d.ok /\ At(d, n, F).updkeys = d.updkeys
         /\ At(d, n, F).cnt = n /\ At(d, n, F).flash = F
BY DEF At, IsWork

LEMMA PerformShape ==
  ASSUME NEW d, IsWork(d), NEW u, NEW c, IsCommand(c)
  PROVE  LET e == Perform(d, u, c)
         IN  /\ IsWork(e) /\ e.cnt = d.cnt /\ e.updkeys = d.updkeys
             /\ IsMild(c, u) /\ u \in DOMAIN d.db.users => u \in DOMAIN e.db.users
<1>0. IsDb(d.db) /\ d.cnt \in Nat /\ d.ok \in BOOLEAN /\ d.updkeys \in BOOLEAN
  BY DEF IsWork
<1>1. CASE c.type = "SQL_QUERY"
  BY <1>0, <1>1, PerformSQL DEF IsWork
<1>2. CASE c.type = "DELETE_USER_FROM_GROUP"
  BY <1>0, <1>2, PerformDelFromGroup DEF IsWork
<1>3. CASE c.type = "DELETE_USER"
  BY <1>0, <1>3, PerformDelUser DEF IsWork, IsMild
<1>4. CASE c.type = "DELETE_GROUP"
  BY <1>0, <1>4, PerformDelGroup DEF IsWork
<1>5. CASE c.type = "KEY_DATA"
  <2> DEFINE fits == u \in DOMAIN d.db.users /\ d.updkeys
  <2>1. CASE fits
    <3>1. Perform(d, u, c) = [db |-> d.db, cnt |-> d.cnt, updkeys |-> d.updkeys, ok |-> d.ok,
                              flash |-> d.flash \cup {c.key}]
      BY <1>5, <2>1, PerformKeyData
    <3> QED BY <1>0, <3>1 DEF IsWork
  <2>2. CASE ~fits
    <3>1. Perform(d, u, c) = [db |-> d.db, cnt |-> d.cnt, updkeys |-> d.updkeys, ok |-> FALSE,
                              flash |-> d.flash]
      BY <1>5, <2>2, PerformKeyData
    <3> QED BY <1>0, <3>1 DEF IsWork
  <2> QED BY <2>1, <2>2
<1> QED BY <1>1, <1>2, <1>3, <1>4, <1>5 DEF IsCommand

\* The tables and the verdict of a command depend on the tables alone, and a key
\* enters the flash, leaves it or stays as it is, whatever else the flash holds.
LEMMA PerformElsewhere ==
  ASSUME NEW d, IsWork(d), NEW u, NEW c, IsCommand(c), NEW n \in Nat, NEW F
  PROVE  LET e == Perform(d, u, c)
             o == Perform(At(d, n, F), u, c)
         IN  /\ o = At(e, n, o.flash)
             /\ F = d.flash => o.flash = e.flash
             /\ \A k : \/ k \in o.flash <=> k \in e.flash
                       \/ (k \in e.flash <=> k \in d.flash) /\ (k \in o.flash <=> k \in F)
<1> DEFINE a == At(d, n, F)
           e == Perform(d, u, c)
           o == Perform(a, u, c)
<1>0. IsWork(a) /\ a.db = d.db /\ a.ok = d.ok /\ a.updkeys = d.updkeys /\ a.cnt = n /\ a.flash = F
  BY AtFacts
<1> HIDE DEF a
<1>1. CASE c.type = "SQL_QUERY"
  <2> DEFINE end == Statements(d.db, c.text)
  <2>1. e = [db |-> end.db, cnt |-> d.cnt, flash |-> d.flash, updkeys |-> d.updkeys, ok |-> end.ok]
    BY <1>1, PerformSQL
  <2>2. o = [db |-> end.db, cnt |-> n, flash |-> F, updkeys |-> d.updkeys, ok |-> end.ok]
    BY <1>0, <1>1, PerformSQL
  <2> HIDE DEF end, e, o
  <2> QED BY <2>1, <2>2 DEF At, e, o, a
<1>2. CASE c.type = "DELETE_USER_FROM_GROUP"
  <2> DEFINE end == LeftAlone(d.db, u, c.user, c.group)
             gone == IF c.user = u THEN KeysOf(d.db, c.group) ELSE {}
  <2>1. e = [db |-> end, cnt |-> d.cnt, flash |-> d.flash \ gone, updkeys |-> d.updkeys, ok |-> d.ok]
    BY <1>2, PerformDelFromGroup
  <2>2. o = [db |-> end, cnt |-> n, flash |-> F \ gone, updkeys |-> d.updkeys, ok |-> d.ok]
    BY <1>0, <1>2, PerformDelFromGroup
  <2> HIDE DEF end, gone, e, o
  <2> QED BY <2>1, <2>2 DEF At, e, o, a
<1>3. CASE c.type = "DELETE_USER"
  <2> DEFINE end == NoUser(d.db, u, c.user)
             all == c.user = u /\ u \in DOMAIN d.db.users
  <2>1. e = [db |-> end, cnt |-> d.cnt, flash |-> IF all THEN {} ELSE d.flash,
             updkeys |-> d.updkeys, ok |-> d.ok]
    BY <1>3, PerformDelUser
  <2>2. o = [db |-> end, cnt |-> n, flash |-> IF all THEN {} ELSE F,
             updkeys |-> d.updkeys, ok |-> d.ok]
    BY <1>0, <1>3, PerformDelUser
  <2> HIDE DEF end, all, e, o
  <2> QED BY <2>1, <2>2 DEF At, e, o, a
<1>4. CASE c.type = "DELETE_GROUP"
  <2> DEFINE end == NoGroup(d.db, u, c.group)
             gone == KeysOf(d.db, c.group)
  <2>1. e = [db |-> end, cnt |-> d.cnt, flash |-> d.flash \ gone, updkeys |-> d.updkeys, ok |-> d.ok]
    BY <1>4, PerformDelGroup
  <2>2. o = [db |-> end, cnt |-> n, flash |-> F \ gone, updkeys |-> d.updkeys, ok |-> d.ok]
    BY <1>0, <1>4, PerformDelGroup
  <2> HIDE DEF end, gone, e, o
  <2> QED BY <2>1, <2>2 DEF At, e, o, a
<1>5. CASE c.type = "KEY_DATA"
  <2> DEFINE fits == u \in DOMAIN d.db.users /\ d.updkeys
  <2>1. CASE fits
    <3>1. e = [db |-> d.db, cnt |-> d.cnt, flash |-> d.flash \cup {c.key}, updkeys |-> d.updkeys,
               ok |-> d.ok]
      BY <1>5, <2>1, PerformKeyData
    <3>2. o = [db |-> d.db, cnt |-> n, flash |-> F \cup {c.key}, updkeys |-> d.updkeys, ok |-> d.ok]
      BY <1>0, <1>5, <2>1, PerformKeyData
    <3> HIDE DEF e, o
    <3> QED BY <3>1, <3>2 DEF At, e, o, a
  <2>2. CASE ~fits
    <3> DEFINE no == FALSE
    <3>1. e = [db |-> d.db, cnt |-> d.cnt, flash |-> d.flash, updkeys |-> d.updkeys, ok |-> no]
      BY <1>5, <2>2, PerformKeyData
    <3>2. o = [db |-> d.db, cnt |-> n, flash |-> F, updkeys |-> d.updkeys, ok |-> no]
      BY <1>0, <1>5, <2>2, PerformKeyData
    <3> HIDE DEF e, o, no
    <3> QED BY <3>1, <3>2 DEF At, e, o, a
  <2> QED BY <2>1, <2>2
<1> QED BY <1>1, <1>2, <1>3, <1>4, <1>5 DEF IsCommand, a

\* A record whose number is 0 or the next one is executed.
LEMMA ApplyForm ==
  ASSUME NEW d, IsWork(d), NEW u, NEW r, r.cnt \in Nat
  PROVE  /\ Apply(d, u, r) = IF ~d.ok \/ (r.cnt # 0 /\ r.cnt <= d.cnt) THEN d
                             ELSE IF r.cnt > d.cnt + 1
                               THEN [db |-> d.db, cnt |-> d.cnt, flash |-> d.flash,
                                     updkeys |-> d.updkeys, ok |-> FALSE]
                             ELSE Perform(At(d, r.cnt, d.flash), u, r.cmd)
         /\ d.ok /\ (r.cnt = 0 \/ r.cnt = d.cnt + 1)
              => Apply(d, u, r) = Perform(At(d, r.cnt, d.flash), u, r.cmd)
<1>1. [d EXCEPT !.cnt = r.cnt] = At(d, r.cnt, d.flash)
  BY DEF IsWork, At
<1>2. [d EXCEPT !.ok = FALSE] = [db |-> d.db, cnt |-> d.cnt, flash |-> d.flash,
                                 updkeys |-> d.updkeys, ok |-> FALSE]
  <2> DEFINE no == FALSE
  <2> HIDE DEF no
  <2>1. [d EXCEPT !.ok = no] = [db |-> d.db, cnt |-> d.cnt, flash |-> d.flash,
                                updkeys |-> d.updkeys, ok |-> no]
    <3>1. [d EXCEPT !.ok = no] = [x \in DOMAIN d |-> IF x = "ok" THEN no ELSE d[x]]
      OBVIOUS
    <3> QED BY <3>1, WorkDomain
  <2> QED BY <2>1 DEF no
<1>3. d.cnt \in Nat
  BY DEF IsWork
<1> QED BY <1>1, <1>2, <1>3 DEF Apply

LEMMA ApplyShape ==
  ASSUME NEW d, IsWork(d), NEW u, NEW r, r.cnt \in Nat, IsCommand(r.cmd)
  PROVE  LET e == Apply(d, u, r)
         IN  /\ IsWork(e) /\ e.updkeys = d.updkeys /\ e.cnt \in {d.cnt, r.cnt}
             /\ e.ok => d.ok
             /\ d.ok /\ r.cnt = 0 => e.cnt = 0
             /\ e.ok /\ r.cnt # 0 => e.cnt >= d.cnt /\ e.cnt >= r.cnt
             /\ IsMild(r.cmd, u) /\ u \in DOMAIN d.db.users => u \in DOMAIN e.db.users
<1> DEFINE a == At(d, r.cnt, d.flash)
           o == Perform(a, u, r.cmd)
           e == Apply(d, u, r)
           bad == [db |-> d.db, cnt |-> d.cnt, flash |-> d.flash, updkeys |-> d.updkeys, ok |-> FALSE]
<1>1. /\ IsWork(o) /\ o.cnt = r.cnt /\ o.updkeys = d.updkeys
      /\ IsMild(r.cmd, u) /\ u \in DOMAIN d.db.users => u \in DOMAIN o.db.users
  BY AtFacts, PerformShape
<1>2. IsWork(bad)
  BY DEF IsWork
<1>3. e = IF ~d.ok \/ (r.cnt # 0 /\ r.cnt <= d.cnt) THEN d
          ELSE IF r.cnt > d.cnt + 1 THEN bad ELSE o
  BY ApplyForm
<1>4. d.cnt \in Nat /\ d.ok \in BOOLEAN
  BY DEF IsWork
<1>5. bad.db = d.db /\ bad.cnt = d.cnt /\ bad.updkeys = d.updkeys /\ bad.ok = FALSE
  OBVIOUS
<1> HIDE DEF a, o, e, bad
<1>6. CASE ~d.ok \/ (r.cnt # 0 /\ r.cnt <= d.cnt)
  BY <1>3, <1>4, <1>6 DEF e
<1>7. CASE d.ok /\ r.cnt > d.cnt + 1
  BY <1>2, <1>3, <1>4, <1>5, <1>7 DEF e
<1>8. CASE d.ok /\ (r.cnt = 0 \/ r.cnt > d.cnt) /\ ~(r.cnt > d.cnt + 1)
  BY <1>1, <1>3, <1>4, <1>8 DEF e
<1> QED BY <1>4, <1>6, <1>7, <1>8

LEMMA ApplyElsewhere ==
  ASSUME NEW d, IsWork(d), NEW u, NEW r, r.cnt \in Nat, IsCommand(r.cmd), NEW F
  PROVE  LET e == Apply(d, u, r)
             o == Apply(At(d, d.cnt, F), u, r)
         IN  /\ o = At(e, e.cnt, o.flash)
             /\ \A k : \/ k \in o.flash <=> k \in e.flash
                       \/ (k \in e.flash <=> k \in d.flash) /\ (k \in o.flash <=> k \in F)
<1> DEFINE a == At(d, d.cnt, F)
           e == Apply(d, u, r)
           o == Apply(a, u, r)
<1>0. d.cnt \in Nat
  BY DEF IsWork
<1>1. IsWork(a) /\ a.db = d.db /\ a.ok = d.ok /\ a.updkeys = d.updkeys /\ a.cnt = d.cnt /\ a.flash = F
  BY <1>0, AtFacts
<1>2. e = IF ~d.ok \/ (r.cnt # 0 /\ r.cnt <= d.cnt) THEN d
          ELSE IF r.cnt > d.cnt + 1
             THEN [db |-> d.db, cnt |-> d.cnt, flash |-> d.flash, updkeys |-> d.updkeys, ok |-> FALSE]
          ELSE Perform(At(d, r.cnt, d.flash), u, r.cmd)
  BY ApplyForm
<1>3. o = IF ~d.ok \/ (r.cnt # 0 /\ r.cnt <= d.cnt) THEN a
          ELSE IF r.cnt > d.cnt + 1
             THEN [db |-> d.db, cnt |-> d.cnt, flash |-> F, updkeys |-> d.updkeys, ok |-> FALSE]
          ELSE Perform(At(a, r.cnt, F), u, r.cmd)
  <2> HIDE DEF a
  <2> QED BY <1>1, ApplyForm
<1>4. CASE ~d.ok \/ (r.cnt # 0 /\ r.cnt <= d.cnt)
  <2>1. e = d /\ o = a /\ a = At(d, d.cnt, F) /\ a.flash = F
    BY <1>1, <1>2, <1>3, <1>4
  <2> HIDE DEF e, o, a
  <2> QED BY <2>1 DEF e, o, a
<1>5. CASE ~(~d.ok \/ (r.cnt # 0 /\ r.cnt <= d.cnt)) /\ r.cnt > d.cnt + 1
  <2> DEFINE no == FALSE
  <2>1. e = [db |-> d.db, cnt |-> d.cnt, flash |-> d.flash, updkeys |-> d.updkeys, ok |-> no]
    BY <1>2, <1>5
  <2>2. o = [db |-> d.db, cnt |-> d.cnt, flash |-> F, updkeys |-> d.updkeys, ok |-> no]
    BY <1>3, <1>5
  <2> HIDE DEF e, o, no
  <2>3. o.flash = F /\ e.flash = d.flash /\ o = At(e, e.cnt, o.flash)
    BY <2>1, <2>2 DEF At
  <2> HIDE DEF e, o
  <2> QED BY <2>3 DEF e, o, a
<1>6. CASE ~(~d.ok \/ (r.cnt # 0 /\ r.cnt <= d.cnt)) /\ ~(r.cnt > d.cnt + 1)
  <2> DEFINE b == At(d, r.cnt, d.flash)
  <2>1. IsWork(b) /\ b.flash = d.flash
    BY AtFacts
  <2>2. At(a, r.cnt, F) = At(b, r.cnt, F)
    BY DEF At
  <2>3. e = Perform(b, u, r.cmd) /\ o = Perform(At(b, r.cnt, F), u, r.cmd)
    BY <1>2, <1>3, <1>6, <2>2
  <2>4. e.cnt = r.cnt
    BY <2>1, <2>3, AtFacts, PerformShape
  <2> HIDE DEF e, o, a, b
  <2> QED BY <2>1, <2>3, <2>4, PerformElsewhere DEF e, o, a
<1> QED BY <1>4, <1>5, <1>6

-----------------------------------------------------------------------------
(* Records one after the other keep what each keeps.                        *)

InSteps(f, d, u, q) ==
  /\ Len(q) \in Nat /\ f[0] = d
  /\ \A i \in 1..Len(q) : f[i] = Apply(f[i - 1], u, q[i]) /\ i - 1 \in 0..Len(q)
  /\ \A i \in 0..Len(q) : IsWork(f[i]) /\ f[i].updkeys = d.updkeys

LEMMA RunShape ==
  ASSUME NEW d, IsWork(d), NEW u, NEW q, IsRecords(q), NEW f, IsRun(f, d, u, q)
  PROVE  InSteps(f, d, u, q)
<1>0. Len(q) \in Nat
  BY SeqFacts DEF IsRecords
<1>1. f[0] = d
  BY <1>0 DEF IsRun
<1>2. \A i \in 1..Len(q) : f[i] = Apply(f[i - 1], u, q[i]) /\ i - 1 \in 0..Len(q)
  <2> TAKE i \in 1..Len(q)
  <2>1. i \in 0..Len(q) /\ i # 0 /\ i - 1 \in 0..Len(q)
    BY <1>0
  <2> QED BY <2>1 DEF IsRun
<1> DEFINE T == {i \in 0..Len(q) : IsWork(f[i]) /\ f[i].updkeys = d.updkeys}
<1>3. 0 \in T
  BY <1>0, <1>1
<1>4. ASSUME NEW i \in 1..Len(q), i - 1 \in T
      PROVE  i \in T
  <2>1. IsWork(f[i - 1]) /\ f[i - 1].updkeys = d.updkeys /\ i \in 0..Len(q)
    BY <1>0, <1>4
  <2>2. q[i].cnt \in Nat /\ IsCommand(q[i].cmd)
    BY DEF IsRecords
  <2>3. IsWork(f[i]) /\ f[i].updkeys = d.updkeys
    BY <1>2, <2>1, <2>2, ApplyShape
  <2> QED BY <2>1, <2>3
<1>5. \A i \in 0..Len(q) : i \in T
  <2> HIDE DEF T
  <2> QED BY <1>0, <1>3, <1>4, UpTo
<1> QED BY <1>0, <1>1, <1>2, <1>5 DEF InSteps

LEMMA PerformedShape ==
  ASSUME NEW d, IsWork(d), NEW u, NEW q, IsRecords(q)
  PROVE  LET e == Performed(d, u, q)
         IN  IsWork(e) /\ e.updkeys = d.updkeys
<1>1. PICK f : IsRun(f, d, u, q) /\ Performed(d, u, q) = f[Len(q)]
  BY PerformedIsRun DEF IsRecords
<1>2. InSteps(f, d, u, q)
  BY <1>1, RunShape
<1>3. Len(q) \in 0..Len(q)
  BY <1>2 DEF InSteps
<1> QED BY <1>1, <1>2, <1>3 DEF InSteps

\* The count of a file: at most the highest number, 0 when the numbers are 0, at
\* least every number when the numbers are not 0 and nothing failed.
LEMMA PerformedCount ==
  ASSUME NEW d, IsWork(d), NEW u, NEW q, IsRecords(q)
  PROVE  LET e == Performed(d, u, q)
         IN  /\ \A n \in Nat : d.cnt <= n /\ (\A i \in 1..Len(q) : q[i].cnt <= n) => e.cnt <= n
             /\ (\A i \in 1..Len(q) : q[i].cnt = 0) /\ q # <<>> /\ e.ok => e.cnt = 0
             /\ (\A i \in 1..Len(q) : q[i].cnt # 0) /\ e.ok =>
                   d.ok /\ \A i \in 1..Len(q) : q[i].cnt <= e.cnt
<1>1. PICK f : IsRun(f, d, u, q) /\ Performed(d, u, q) = f[Len(q)]
  BY PerformedIsRun DEF IsRecords
<1>2. /\ Len(q) \in Nat /\ f[0] = d
      /\ \A i \in 1..Len(q) : f[i] = Apply(f[i - 1], u, q[i]) /\ i - 1 \in 0..Len(q)
      /\ \A i \in 0..Len(q) : IsWork(f[i]) /\ f[i].updkeys = d.updkeys
  <2>1. InSteps(f, d, u, q)
    BY <1>1, RunShape
  <2> QED BY <2>1 DEF InSteps
<1>3. ASSUME NEW i \in 1..Len(q)
      PROVE  /\ q[i].cnt \in Nat /\ f[i].cnt \in {f[i - 1].cnt, q[i].cnt}
             /\ f[i].ok => f[i - 1].ok
             /\ f[i].ok /\ q[i].cnt = 0 => f[i].cnt = 0
             /\ f[i].ok /\ q[i].cnt # 0 => f[i].cnt >= f[i - 1].cnt /\ f[i].cnt >= q[i].cnt
             /\ f[i].cnt \in Nat
  <2>1. q[i].cnt \in Nat /\ IsCommand(q[i].cmd)
    BY DEF IsRecords
  <2>2. IsWork(f[i - 1]) /\ f[i] = Apply(f[i - 1], u, q[i])
    BY <1>2
  <2>3. IsWork(f[i])
    BY <1>2
  <2> QED BY <2>1, <2>2, <2>3, ApplyShape DEF IsWork
<1>4. \A i \in 0..Len(q) : f[i].cnt \in Nat /\ f[i].ok \in BOOLEAN
  BY <1>2 DEF IsWork
<1>5. ASSUME NEW n \in Nat, d.cnt <= n, \A i \in 1..Len(q) : q[i].cnt <= n
      PROVE  f[Len(q)].cnt <= n
  <2> DEFINE T == {i \in 0..Len(q) : f[i].cnt <= n}
  <2>1. 0 \in T
    BY <1>2, <1>5
  <2>2. ASSUME NEW i \in 1..Len(q), i - 1 \in T
        PROVE  i \in T
    <3>1. f[i - 1].cnt <= n /\ q[i].cnt <= n /\ i \in 0..Len(q)
      BY <1>2, <1>5, <2>2
    <3>2. f[i].cnt <= n
      BY <1>3, <3>1
    <3> QED BY <3>1, <3>2
  <2> HIDE DEF T
  <2>3. \A i \in 0..Len(q) : i \in T
    BY <1>2, <2>1, <2>2, UpTo
  <2> QED BY <1>2, <2>3 DEF T
<1>6. ASSUME \A i \in 1..Len(q) : q[i].cnt = 0, q # <<>>, f[Len(q)].ok
      PROVE  f[Len(q)].cnt = 0
  <2>1. Len(q) \in 1..Len(q)
    BY <1>2, <1>6, SeqFacts DEF IsRecords
  <2> QED BY <1>3, <1>6, <2>1
<1>7. ASSUME \A i \in 1..Len(q) : q[i].cnt # 0, f[Len(q)].ok
      PROVE  d.ok /\ \A i \in 1..Len(q) : q[i].cnt <= f[Len(q)].cnt
  <2> DEFINE T == {i \in 0..Len(q) :
                     f[i].ok => d.ok /\ \A j \in 1..Len(q) : j <= i => q[j].cnt <= f[i].cnt}
  <2>1. 0 \in T
    BY <1>2
  <2>2. ASSUME NEW i \in 1..Len(q), i - 1 \in T
        PROVE  i \in T
    <3>1. i \in 0..Len(q) /\ i - 1 \in 0..Len(q)
      BY <1>2
    <3>2. f[i - 1].ok => d.ok /\ \A j \in 1..Len(q) : j <= i - 1 => q[j].cnt <= f[i - 1].cnt
      BY <2>2
    <3>3. ASSUME f[i].ok, NEW j \in 1..Len(q), j <= i
          PROVE  q[j].cnt <= f[i].cnt
      <4>1. f[i - 1].ok /\ f[i].cnt >= f[i - 1].cnt /\ f[i].cnt >= q[i].cnt
        BY <1>3, <1>7, <3>3
      <4>2. CASE j = i
        BY <1>3, <1>4, <3>1, <4>1, <4>2
      <4>3. CASE j # i
        <5>1. j <= i - 1
          BY <1>2, <3>3, <4>3
        <5>2. q[j].cnt <= f[i - 1].cnt
          BY <3>2, <4>1, <5>1
        <5> QED BY <1>3, <1>4, <3>1, <4>1, <5>2
      <4> QED BY <4>2, <4>3
    <3>4. f[i].ok => d.ok
      BY <1>3, <3>2
    <3> QED BY <3>1, <3>3, <3>4
  <2>3. Len(q) \in T
    <3> HIDE DEF T
    <3>1. \A i \in 0..Len(q) : i \in T
      BY <1>2, <2>1, <2>2, UpTo
    <3> QED BY <1>2, <3>1
  <2> QED BY <1>2, <1>7, <2>3
<1> QED BY <1>1, <1>5, <1>6, <1>7

\* Mild records leave the user's own row where it is.
LEMMA PerformedOwnRow ==
  ASSUME NEW d, IsWork(d), NEW u, NEW q, IsRecords(q), u \in DOMAIN d.db.users,
         \A i \in 1..Len(q) : IsMild(q[i].cmd, u)
  PROVE  u \in DOMAIN Performed(d, u, q).db.users
<1>1. PICK f : IsRun(f, d, u, q) /\ Performed(d, u, q) = f[Len(q)]
  BY PerformedIsRun DEF IsRecords
<1>2. /\ Len(q) \in Nat /\ f[0] = d
      /\ \A i \in 1..Len(q) : f[i] = Apply(f[i - 1], u, q[i]) /\ i - 1 \in 0..Len(q)
      /\ \A i \in 0..Len(q) : IsWork(f[i]) /\ f[i].updkeys = d.updkeys
  <2>1. InSteps(f, d, u, q)
    BY <1>1, RunShape
  <2> QED BY <2>1 DEF InSteps
<1> DEFINE T == {i \in 0..Len(q) : u \in DOMAIN f[i].db.users}
<1>3. 0 \in T
  BY <1>2
<1>4. ASSUME NEW i \in 1..Len(q), i - 1 \in T
      PROVE  i \in T
  <2>1. q[i].cnt \in Nat /\ IsCommand(q[i].cmd)
    BY DEF IsRecords
  <2>2. IsWork(f[i - 1]) /\ f[i] = Apply(f[i - 1], u, q[i]) /\ u \in DOMAIN f[i - 1].db.users
    BY <1>2, <1>4
  <2>3. u \in DOMAIN f[i].db.users /\ i \in 0..Len(q)
    BY <1>2, <2>1, <2>2, ApplyShape
  <2> QED BY <2>3
<1>5. Len(q) \in T
  <2> HIDE DEF T
  <2>1. \A i \in 0..Len(q) : i \in T
    BY <1>2, <1>3, <1>4, UpTo
  <2> QED BY <1>2, <2>1
<1> QED BY <1>1, <1>5

\* Records executed from the flash that their beginning left leave what they leave
\* when executed once: the rest of a file, or all of it again.
LEMMA FlashAgain ==
  ASSUME NEW d, IsWork(d), NEW u, NEW p, NEW q, IsRecords(p), IsRecords(q)
  PROVE  Performed(At(d, d.cnt, Performed(d, u, p).flash), u, p \o q) = Performed(d, u, p \o q)
<1> DEFINE r == p \o q
           F == Performed(d, u, p).flash
           a == At(d, d.cnt, F)
<1>1. /\ IsSeq(p) /\ IsSeq(q) /\ IsSeq(r) /\ Len(p) \in Nat /\ Len(q) \in Nat
      /\ Len(r) = Len(p) + Len(q)
      /\ \A i \in 1..Len(p) : r[i] = p[i]
      /\ \A i \in 1..Len(q) : r[Len(p) + i] = q[i]
  BY ConcatSeq, SeqFacts DEF IsRecords
<1>2. IsRecords(r)
  <2> HIDE DEF r
  <2>1. ASSUME NEW i \in 1..Len(r)
        PROVE  (\E j \in 1..Len(p) : r[i] = p[j]) \/ (\E j \in 1..Len(q) : r[i] = q[j])
    <3>1. CASE i <= Len(p)
      BY <1>1, <3>1
    <3>2. CASE ~(i <= Len(p))
      <4>1. i - Len(p) \in 1..Len(q) /\ Len(p) + (i - Len(p)) = i
        BY <1>1, <3>2
      <4> QED BY <1>1, <4>1
    <3> QED BY <3>1, <3>2
  <2> QED BY <1>1, <2>1 DEF IsRecords
<1>3. d.cnt \in Nat
  BY DEF IsWork
<1>4. IsWork(a)
  BY <1>3, AtFacts
<1>5. PICK f : IsRun(f, d, u, r) /\ Performed(d, u, r) = f[Len(r)]
  BY <1>1, PerformedIsRun, ZenonT(60)
<1>6. PICK g : IsRun(g, a, u, r) /\ Performed(a, u, r) = g[Len(r)]
  BY <1>1, PerformedIsRun, ZenonT(60)
<1>7. f[Len(p)].flash = F
  <2>1. PICK h : IsRun(h, d, u, p) /\ Performed(d, u, p) = h[Len(p)]
    BY <1>1, PerformedIsRun
  <2>2. Len(p) <= Len(r) /\ Len(p) \in 0..Len(p) /\ Len(r) \in Nat
    BY <1>1
  <2>3. \A i \in 0..Len(p) : f[i] = h[i]
    <3>1. IsRun(h, d, u, p) /\ IsRun(f, d, u, r) /\ \A i \in 1..Len(p) : r[i] = p[i]
      BY <1>1, <1>5, <2>1
    <3> HIDE DEF r
    <3> QED BY <1>1, <2>2, <3>1, RunsAgree
  <2> QED BY <2>1, <2>2, <2>3
<1> HIDE DEF r, F, a
<1>8. /\ Len(r) \in Nat /\ f[0] = d
      /\ \A i \in 1..Len(r) : f[i] = Apply(f[i - 1], u, r[i]) /\ i - 1 \in 0..Len(r)
      /\ \A i \in 0..Len(r) : IsWork(f[i]) /\ f[i].updkeys = d.updkeys
  <2>1. InSteps(f, d, u, r)
    BY <1>2, <1>5, RunShape
  <2> QED BY <2>1 DEF InSteps
<1>9. /\ g[0] = a
      /\ \A i \in 1..Len(r) : g[i] = Apply(g[i - 1], u, r[i])
  <2>1. InSteps(g, a, u, r)
    BY <1>2, <1>4, <1>6, RunShape
  <2> QED BY <2>1 DEF InSteps
<1> DEFINE Same(i, k) ==
             \/ k \in g[i].flash <=> k \in f[i].flash
             \/ /\ \A m \in 0..Len(r) : m <= i => (k \in f[m].flash <=> k \in d.flash)
                /\ k \in g[i].flash <=> k \in F
           T == {i \in 0..Len(r) : g[i] = At(f[i], f[i].cnt, g[i].flash) /\ \A k : Same(i, k)}
<1>10. 0 \in T
  <2>1. g[0] = At(f[0], f[0].cnt, g[0].flash) /\ g[0].flash = F
    BY <1>3, <1>8, <1>9, AtFacts DEF a
  <2>2. \A k : Same(0, k)
    BY <1>8, <2>1
  <2> HIDE DEF Same
  <2> QED BY <1>8, <2>1, <2>2
<1>11. ASSUME NEW i \in 1..Len(r), i - 1 \in T
       PROVE  i \in T
  <2>1. i \in 0..Len(r) /\ i - 1 \in 0..Len(r)
    BY <1>8
  <2>2. g[i - 1] = At(f[i - 1], f[i - 1].cnt, g[i - 1].flash) /\ \A k : Same(i - 1, k)
    <3> HIDE DEF Same
    <3> QED BY <1>11
  <2>3. r[i].cnt \in Nat /\ IsCommand(r[i].cmd)
    BY <1>2 DEF IsRecords
  <2>4. /\ f[i] = Apply(f[i - 1], u, r[i]) /\ IsWork(f[i - 1])
        /\ g[i] = Apply(At(f[i - 1], f[i - 1].cnt, g[i - 1].flash), u, r[i])
    BY <1>8, <1>9, <2>1, <2>2
  <2>5. /\ g[i] = At(f[i], f[i].cnt, g[i].flash)
        /\ \A k : \/ k \in g[i].flash <=> k \in f[i].flash
                  \/ (k \in f[i].flash <=> k \in f[i - 1].flash)
                     /\ (k \in g[i].flash <=> k \in g[i - 1].flash)
    <3> DEFINE x == f[i - 1]
               G == g[i - 1].flash
               e == Apply(x, u, r[i])
               o == Apply(At(x, x.cnt, G), u, r[i])
    <3>1. /\ o = At(e, e.cnt, o.flash)
          /\ \A k : \/ k \in o.flash <=> k \in e.flash
                    \/ (k \in e.flash <=> k \in x.flash) /\ (k \in o.flash <=> k \in G)
      <4>1. IsWork(x)
        BY <2>4
      <4> HIDE DEF x, G
      <4> QED BY <2>3, <4>1, ApplyElsewhere
    <3> QED BY <2>4, <3>1
  <2>6. ASSUME NEW k PROVE Same(i, k)
    <3>1. CASE k \in g[i].flash <=> k \in f[i].flash
      BY <3>1
    <3>2. CASE /\ k \in f[i].flash <=> k \in f[i - 1].flash
               /\ k \in g[i].flash <=> k \in g[i - 1].flash
               /\ ~(k \in g[i].flash <=> k \in f[i].flash)
      <4>1. /\ \A m \in 0..Len(r) : m <= i - 1 => (k \in f[m].flash <=> k \in d.flash)
            /\ k \in g[i - 1].flash <=> k \in F
        BY <2>2, <3>2
      <4>2. ASSUME NEW m \in 0..Len(r), m <= i
            PROVE  k \in f[m].flash <=> k \in d.flash
        <5>1. CASE m = i
          BY <2>1, <3>2, <4>1, <5>1
        <5>2. CASE m # i
          <6>1. m <= i - 1
            BY <1>8, <4>2, <5>2
          <6> QED BY <4>1, <6>1
        <5> QED BY <5>1, <5>2
      <4> QED BY <3>2, <4>1, <4>2
    <3> QED BY <2>5, <3>1, <3>2
  <2> HIDE DEF Same
  <2> QED BY <2>1, <2>5, <2>6
<1>12. Len(r) \in T
  <2> HIDE DEF T
  <2>1. \A i \in 0..Len(r) : i \in T
    BY <1>8, <1>10, <1>11, UpTo
  <2> QED BY <1>8, <2>1
<1>13. g[Len(r)].flash = f[Len(r)].flash
  <2>1. \A k : Same(Len(r), k)
    <3> HIDE DEF Same
    <3> QED BY <1>12
  <2>2. Len(p) \in 0..Len(r) /\ Len(p) <= Len(r) /\ Len(r) \in 0..Len(r)
    BY <1>1, <1>8
  <2>3. \A k : k \in g[Len(r)].flash <=> k \in f[Len(r)].flash
    <3> TAKE k
    <3>1. Same(Len(r), k)
      BY <2>1
    <3>2. CASE /\ \A m \in 0..Len(r) : m <= Len(r) => (k \in f[m].flash <=> k \in d.flash)
               /\ k \in g[Len(r)].flash <=> k \in F
      <4>1. k \in f[Len(r)].flash <=> k \in f[Len(p)].flash
        BY <1>8, <2>2, <3>2
      <4> QED BY <1>7, <3>2, <4>1
    <3> QED BY <3>1, <3>2
  <2> HIDE DEF Same
  <2>4. IsWork(f[Len(r)])
    BY <1>8, <2>2
  <2> QED BY <2>3
<1>14. g[Len(r)] = f[Len(r)]
  <2>1. g[Len(r)] = At(f[Len(r)], f[Len(r)].cnt, g[Len(r)].flash)
    <3> HIDE DEF Same
    <3> QED BY <1>12
  <2>2. IsWork(f[Len(r)])
    BY <1>8
  <2> QED BY <1>13, <2>1, <2>2 DEF At, IsWork
<1> QED BY <1>5, <1>6, <1>14 DEF r, a, F

-----------------------------------------------------------------------------
(* The administrator's tables, operation by operation.                      *)

Counted(db, g) == /\ db.groups[g].users_counter = Cardinality(MembersOf(db, g))
                  /\ db.groups[g].keys_counter = Cardinality(KeysOf(db, g))

\* Tables that are whole, whatever the flash holds.
Tidy(db) ==
  /\ IsDb(db) /\ AreTables(db)
  /\ \A m \in db.member : m[1] \in DOMAIN db.users /\ m[2] \in DOMAIN db.groups
  /\ \A g \in DOMAIN db.groups : Counted(db, g)
  /\ \A k \in DOMAIN db.keys : db.keys[k].owner \in DOMAIN db.groups \cup {Zombie}

LEMMA TidyWhole ==
  ASSUME NEW db, NEW flash
  PROVE  /\ Tidy(db) /\ Needed(db) \subseteq flash => Whole(db, flash)
         /\ Whole(db, flash) /\ IsDb(db) /\ AreTables(db) => Tidy(db)
         /\ Whole(db, flash) => Needed(db) \subseteq flash
BY DEF Tidy, Whole, Counted

\* Who is in a table is one of finitely many.
LEMMA FiniteIds ==
  ASSUME NEW db, AreTables(db)
  PROVE  /\ \A g : IsFiniteSet(MembersOf(db, g)) /\ IsFiniteSet(KeysOf(db, g))
         /\ \A u : IsFiniteSet(GroupsOf(db, u)) /\ IsFiniteSet(Peers(db, u))
         /\ \A g : MembersOf(db, g) \subseteq User
         /\ \A u : GroupsOf(db, u) \subseteq Group /\ Peers(db, u) \subseteq User
         /\ IsFiniteSet(DOMAIN db.users) /\ IsFiniteSet(DOMAIN db.groups)
         /\ IsFiniteSet(DOMAIN db.keys) /\ IsFiniteSet(db.member)
<1>1. /\ IsFiniteSet(User) /\ IsFiniteSet(Group) /\ IsFiniteSet(Key)
      /\ DOMAIN db.users \subseteq User /\ DOMAIN db.groups \subseteq Group
      /\ DOMAIN db.keys \subseteq Key /\ db.member \subseteq User \X Group
  BY TablesAssumption DEF AreTables, IsTable
<1>2. /\ \A g : MembersOf(db, g) \subseteq User /\ KeysOf(db, g) \subseteq Key
      /\ \A u : GroupsOf(db, u) \subseteq Group /\ Peers(db, u) \subseteq User
  BY <1>1 DEF MembersOf, KeysOf, GroupsOf, Peers
<1>3. IsFiniteSet(User \X Group)
  BY <1>1, FS_Product
<1>4. \A S, T : IsFiniteSet(T) /\ S \subseteq T => IsFiniteSet(S)
  BY FS_Subset
<1> QED BY <1>1, <1>2, <1>3, <1>4

LEMMA RowFacts ==
  /\ \A r \in GroupRow : /\ r.users_counter \in Nat /\ r.keys_counter \in Nat
                         /\ r = [name |-> r.name, users_counter |-> r.users_counter,
                                 keys_counter |-> r.keys_counter, max_keys |-> r.max_keys,
                                 keys_liveness |-> r.keys_liveness]
                         /\ \A n \in Nat : /\ [r EXCEPT !.users_counter = n] \in GroupRow
                                           /\ [r EXCEPT !.keys_counter = n] \in GroupRow
  /\ \A r \in KeyRow : /\ [r EXCEPT !.owner = Zombie] \in KeyRow
                       /\ r.status \in Status /\ r.owner \in Group \cup {Zombie}
                       /\ r = [name |-> r.name, owner |-> r.owner, status |-> r.status]
BY DEF GroupRow, KeyRow

LEMMA TidyAddUser ==
  ASSUME NEW A, Tidy(A), NEW u \in User, u \notin DOMAIN A.users
  PROVE  LET B == [A EXCEPT !.users = Plus(@, [x \in {u} |-> NewUserRow])]
         IN  /\ Tidy(B) /\ B.groups = A.groups /\ B.member = A.member /\ B.keys = A.keys
             /\ B.users = Plus(A.users, [x \in {u} |-> NewUserRow])
<1> DEFINE B == [A EXCEPT !.users = Plus(@, [x \in {u} |-> NewUserRow])]
           t == Plus(A.users, [x \in {u} |-> NewUserRow])
<1>1. B = [users |-> t, groups |-> A.groups, member |-> A.member, keys |-> A.keys]
  BY DEF Tidy, IsDb
<1>2. IsTable(t, User, UserRow) /\ DOMAIN A.users \subseteq DOMAIN t
  BY DEF Tidy, AreTables, IsTable, Plus, UserRow, NewUserRow
<1> HIDE DEF B, t
<1>3. IsDb(B) /\ AreTables(B)
  BY <1>1, <1>2 DEF Tidy, AreTables, IsDb
<1>4. \A g : Counted(B, g) <=> Counted(A, g)
  BY <1>1 DEF Counted, MembersOf, KeysOf
<1> QED BY <1>1, <1>2, <1>3, <1>4 DEF Tidy, B, t

LEMMA TidyAddGroup ==
  ASSUME NEW A, Tidy(A), NEW g \in Group, g \notin DOMAIN A.groups
  PROVE  LET t == Plus(A.groups, [x \in {g} |->
                    [name |-> 0, users_counter |-> 0, keys_counter |-> 0, max_keys |-> 0,
                     keys_liveness |-> 0]])
             B == [A EXCEPT !.groups = t]
         IN  /\ Tidy(B) /\ B.users = A.users /\ B.member = A.member /\ B.keys = A.keys
             /\ B.groups = t /\ \A h \in DOMAIN A.groups : t[h] = A.groups[h]
<1> DEFINE new == [name |-> 0, users_counter |-> 0, keys_counter |-> 0, max_keys |-> 0,
                   keys_liveness |-> 0]
           t == Plus(A.groups, [x \in {g} |-> new])
           B == [A EXCEPT !.groups = t]
<1>1. B = [users |-> A.users, groups |-> t, member |-> A.member, keys |-> A.keys]
  BY DEF Tidy, IsDb
<1>2. new \in GroupRow /\ new.users_counter = 0 /\ new.keys_counter = 0
  BY DEF GroupRow
<1> HIDE DEF new
<1>3. IsTable(t, Group, GroupRow) /\ DOMAIN t = DOMAIN A.groups \cup {g} /\ t[g] = new
      /\ \A h \in DOMAIN A.groups : t[h] = A.groups[h]
  BY <1>2 DEF Tidy, AreTables, IsTable, Plus
<1> HIDE DEF B, t
<1>4. IsDb(B) /\ AreTables(B)
  BY <1>1, <1>3 DEF Tidy, AreTables, IsDb
<1>5. \A h : MembersOf(B, h) = MembersOf(A, h) /\ KeysOf(B, h) = KeysOf(A, h)
  BY <1>1 DEF MembersOf, KeysOf
<1>6. MembersOf(A, g) = {} /\ KeysOf(A, g) = {}
  <2>1. MembersOf(A, g) = {}
    BY DEF Tidy, MembersOf
  <2>2. g # Zombie
    BY TablesAssumption
  <2> QED BY <2>1, <2>2 DEF Tidy, KeysOf
<1>7. \A h \in DOMAIN t : Counted(B, h)
  <2> TAKE h \in DOMAIN t
  <2>1. CASE h \in DOMAIN A.groups
    BY <1>1, <1>3, <1>5, <2>1 DEF Tidy, Counted
  <2>2. CASE h = g
    BY <1>1, <1>2, <1>3, <1>5, <1>6, <2>2, FS_EmptySet DEF Counted
  <2> QED BY <1>3, <2>1, <2>2
<1>8. \A m \in B.member : m[1] \in DOMAIN B.users /\ m[2] \in DOMAIN B.groups
  BY <1>1, <1>3 DEF Tidy
<1>9. \A k \in DOMAIN B.keys : B.keys[k].owner \in DOMAIN B.groups \cup {Zombie}
  BY <1>1, <1>3 DEF Tidy
<1> QED BY <1>1, <1>3, <1>4, <1>7, <1>8, <1>9 DEF Tidy, B, t, new

\* One more member or one less.
\* A table of groups with another number in a column of one of them.
Moved(t, g, c, n) == [t EXCEPT ![g][c] = @ + n]

MoreMember(A, u, g) ==
  [A EXCEPT !.member = @ \cup {<<u, g>>}, !.groups[g].users_counter = @ + 1]

LEMMA TidyJoin ==
  ASSUME NEW A, Tidy(A), NEW u \in DOMAIN A.users, NEW g \in DOMAIN A.groups,
         <<u, g>> \notin A.member
  PROVE  LET B == MoreMember(A, u, g)
         IN  /\ Tidy(B) /\ B.users = A.users /\ B.member = A.member \cup {<<u, g>>}
             /\ B.keys = A.keys
             /\ B.groups = Moved(A.groups, g, "users_counter", 1)
<1> DEFINE t == [A.groups EXCEPT ![g].users_counter = @ + 1]
           B == [A EXCEPT !.member = @ \cup {<<u, g>>}, !.groups[g].users_counter = @ + 1]
<1>1. B = [users |-> A.users, groups |-> t, member |-> A.member \cup {<<u, g>>}, keys |-> A.keys]
  <2>1. DOMAIN A = {"users", "groups", "member", "keys"}
    BY DbDomain DEF Tidy
  <2>2. B = [x \in DOMAIN A |-> IF x = "groups" THEN t
                                ELSE IF x = "member" THEN A.member \cup {<<u, g>>} ELSE A[x]]
    BY <2>1
  <2> HIDE DEF t, B
  <2> QED BY <2>1, <2>2
<1>2. A.groups[g] \in GroupRow /\ u \in User /\ g \in Group /\ A.groups[g].users_counter \in Nat
  BY RowFacts DEF Tidy, AreTables, IsTable
<1>3. [A.groups[g] EXCEPT !.users_counter = @ + 1] \in GroupRow
  <2> DEFINE n == A.groups[g].users_counter + 1
  <2>1. n \in Nat
    BY <1>2
  <2> HIDE DEF n
  <2>2. [A.groups[g] EXCEPT !.users_counter = n] \in GroupRow
    BY <1>2, <2>1, RowFacts
  <2> QED BY <2>2 DEF n
<1>4. /\ DOMAIN t = DOMAIN A.groups /\ t[g] = [A.groups[g] EXCEPT !.users_counter = @ + 1]
      /\ \A h \in DOMAIN A.groups : h # g => t[h] = A.groups[h]
  OBVIOUS
<1>5. t[g].users_counter = A.groups[g].users_counter + 1 /\ t[g].keys_counter = A.groups[g].keys_counter
  BY <1>2, <1>4, RowFacts
<1> HIDE DEF B, t
<1>6. IsTable(t, Group, GroupRow)
  <2>1. t = [h \in DOMAIN A.groups |-> t[h]]
    BY <1>4 DEF t
  <2>2. \A h \in DOMAIN A.groups : A.groups[h] \in GroupRow
    BY DEF Tidy, AreTables, IsTable
  <2>3. \A h \in DOMAIN A.groups : t[h] \in GroupRow
    BY <1>3, <1>4, <2>2
  <2> QED BY <1>4, <2>1, <2>3 DEF Tidy, AreTables, IsTable
<1>7. IsDb(B) /\ AreTables(B)
  BY <1>1, <1>2, <1>6 DEF Tidy, AreTables, IsDb
<1>8. \A h : KeysOf(B, h) = KeysOf(A, h)
  BY <1>1 DEF KeysOf
<1>9. \A h : h # g => MembersOf(B, h) = MembersOf(A, h)
  BY <1>1 DEF MembersOf
<1>10. MembersOf(B, g) = MembersOf(A, g) \cup {u} /\ u \notin MembersOf(A, g)
  BY <1>1, <1>2 DEF MembersOf
<1>11. Cardinality(MembersOf(B, g)) = Cardinality(MembersOf(A, g)) + 1
  BY <1>10, FiniteIds, FS_AddElement DEF Tidy
<1>12. \A h \in DOMAIN t : Counted(B, h)
  <2> TAKE h \in DOMAIN t
  <2>1. Counted(A, h)
    BY <1>4 DEF Tidy
  <2>2. CASE h = g
    BY <1>1, <1>5, <1>8, <1>11, <2>1, <2>2 DEF Counted
  <2>3. CASE h # g
    BY <1>1, <1>4, <1>8, <1>9, <2>1, <2>3 DEF Counted
  <2> QED BY <2>2, <2>3
<1>13. \A m \in B.member : m[1] \in DOMAIN B.users /\ m[2] \in DOMAIN B.groups
  BY <1>1, <1>4 DEF Tidy
<1>14. \A k \in DOMAIN B.keys : B.keys[k].owner \in DOMAIN B.groups \cup {Zombie}
  BY <1>1, <1>4 DEF Tidy
<1>20. B = MoreMember(A, u, g)
  BY DEF B, MoreMember
<1>21. Tidy(B)
  BY <1>1, <1>4, <1>7, <1>12, <1>13, <1>14 DEF Tidy, B, t
<1> HIDE DEF B
<1>22. t = Moved(A.groups, g, "users_counter", 1)
  BY DEF t, Moved
<1> QED BY <1>1, <1>20, <1>21, <1>22

LessMember(A, u, g) ==
  [A EXCEPT !.member = @ \ {<<u, g>>}, !.groups[g].users_counter = @ - 1]

LEMMA TidyLeave ==
  ASSUME NEW A, Tidy(A), NEW u, NEW g \in DOMAIN A.groups, <<u, g>> \in A.member
  PROVE  LET B == LessMember(A, u, g)
         IN  /\ Tidy(B) /\ B.users = A.users /\ B.member = A.member \ {<<u, g>>}
             /\ B.keys = A.keys
             /\ B.groups = Moved(A.groups, g, "users_counter", -1)
<1> DEFINE t == [A.groups EXCEPT ![g].users_counter = @ - 1]
           B == [A EXCEPT !.member = @ \ {<<u, g>>}, !.groups[g].users_counter = @ - 1]
<1>1. B = [users |-> A.users, groups |-> t, member |-> A.member \ {<<u, g>>}, keys |-> A.keys]
  <2>1. DOMAIN A = {"users", "groups", "member", "keys"}
    BY DbDomain DEF Tidy
  <2>2. B = [x \in DOMAIN A |-> IF x = "groups" THEN t
                                ELSE IF x = "member" THEN A.member \ {<<u, g>>} ELSE A[x]]
    BY <2>1
  <2> HIDE DEF t, B
  <2> QED BY <2>1, <2>2
<1>2. A.groups[g] \in GroupRow /\ u \in User /\ g \in Group /\ A.groups[g].users_counter \in Nat
  <2>1. <<u, g>> \in User \X Group
    BY DEF Tidy, AreTables
  <2> QED BY <2>1, RowFacts DEF Tidy, AreTables, IsTable
<1>3. /\ MembersOf([A EXCEPT !.member = @ \ {<<u, g>>}], g) = MembersOf(A, g) \ {u}
      /\ u \in MembersOf(A, g)
  BY <1>2 DEF MembersOf, Tidy, IsDb
<1>4. /\ Cardinality(MembersOf(A, g) \ {u}) = Cardinality(MembersOf(A, g)) - 1
      /\ Cardinality(MembersOf(A, g) \ {u}) \in Nat
  <2>1. IsFiniteSet(MembersOf(A, g))
    BY FiniteIds DEF Tidy
  <2>2. IsFiniteSet(MembersOf(A, g) \ {u}) /\ Cardinality(MembersOf(A, g) \ {u}) = Cardinality(MembersOf(A, g)) - 1
    BY <1>3, <2>1, FS_RemoveElement
  <2> QED BY <2>2, FS_CardinalityType
<1>5. A.groups[g].users_counter = Cardinality(MembersOf(A, g))
  BY DEF Tidy, Counted
<1>6. [A.groups[g] EXCEPT !.users_counter = @ - 1] \in GroupRow
  BY <1>2, <1>4, <1>5, RowFacts
<1>7. /\ DOMAIN t = DOMAIN A.groups /\ t[g] = [A.groups[g] EXCEPT !.users_counter = @ - 1]
      /\ \A h \in DOMAIN A.groups : h # g => t[h] = A.groups[h]
  OBVIOUS
<1>8. t[g].users_counter = A.groups[g].users_counter - 1 /\ t[g].keys_counter = A.groups[g].keys_counter
  BY <1>2, <1>7, RowFacts
<1> HIDE DEF B, t
<1>9. IsTable(t, Group, GroupRow)
  <2>1. t = [h \in DOMAIN A.groups |-> t[h]]
    BY <1>7 DEF t
  <2>2. \A h \in DOMAIN A.groups : A.groups[h] \in GroupRow
    BY DEF Tidy, AreTables, IsTable
  <2>3. \A h \in DOMAIN A.groups : t[h] \in GroupRow
    BY <1>6, <1>7, <2>2
  <2> QED BY <1>7, <2>1, <2>3 DEF Tidy, AreTables, IsTable
<1>10. IsDb(B) /\ AreTables(B)
  BY <1>1, <1>2, <1>9 DEF Tidy, AreTables, IsDb
<1>11. \A h : KeysOf(B, h) = KeysOf(A, h)
  BY <1>1 DEF KeysOf
<1>12. \A h : h # g => MembersOf(B, h) = MembersOf(A, h)
  BY <1>1 DEF MembersOf
<1>13. MembersOf(B, g) = MembersOf(A, g) \ {u}
  BY <1>1, <1>2 DEF MembersOf
<1>14. \A h \in DOMAIN t : Counted(B, h)
  <2> TAKE h \in DOMAIN t
  <2>1. Counted(A, h)
    BY <1>7 DEF Tidy
  <2>2. CASE h = g
    BY <1>1, <1>4, <1>5, <1>8, <1>11, <1>13, <2>1, <2>2 DEF Counted
  <2>3. CASE h # g
    BY <1>1, <1>7, <1>11, <1>12, <2>1, <2>3 DEF Counted
  <2> QED BY <2>2, <2>3
<1>15. \A m \in B.member : m[1] \in DOMAIN B.users /\ m[2] \in DOMAIN B.groups
  BY <1>1, <1>7 DEF Tidy
<1>16. \A k \in DOMAIN B.keys : B.keys[k].owner \in DOMAIN B.groups \cup {Zombie}
  BY <1>1, <1>7 DEF Tidy
<1>20. B = LessMember(A, u, g)
  BY DEF B, LessMember
<1>21. Tidy(B)
  BY <1>1, <1>7, <1>10, <1>14, <1>15, <1>16 DEF Tidy, B, t
<1> HIDE DEF B
<1>22. t = Moved(A.groups, g, "users_counter", -1)
  <2>1. A.groups[g].users_counter + (-1) = A.groups[g].users_counter - 1
    BY <1>2
  <2> QED BY <2>1 DEF t, Moved
<1> QED BY <1>1, <1>20, <1>21, <1>22

LessUser(A, u) ==
  [A EXCEPT
          !.groups = [g \in DOMAIN A.groups |->
                       IF <<u, g>> \in A.member
                         THEN [A.groups[g] EXCEPT !.users_counter = @ - 1]
                         ELSE A.groups[g]],
          !.users = Drop(@, {u}),
          !.member = {m \in @ : m[1] # u}]

UserGone(A, u, B) ==
  /\ Tidy(B) /\ B.users = Drop(A.users, {u}) /\ B.member = {m \in A.member : m[1] # u}
  /\ B.keys = A.keys
  /\ B.groups = [g \in DOMAIN A.groups |-> IF <<u, g>> \in A.member
                                             THEN [A.groups[g] EXCEPT !.users_counter = @ - 1]
                                             ELSE A.groups[g]]

LEMMA TidyDeleteUser ==
  ASSUME NEW A, Tidy(A), NEW u
  PROVE  UserGone(A, u, LessUser(A, u))
<1> DEFINE t == [g \in DOMAIN A.groups |-> IF <<u, g>> \in A.member
                                             THEN [A.groups[g] EXCEPT !.users_counter = @ - 1]
                                             ELSE A.groups[g]]
           us == Drop(A.users, {u})
           ms == {m \in A.member : m[1] # u}
           B == [A EXCEPT
                    !.groups = [g \in DOMAIN A.groups |->
                                 IF <<u, g>> \in A.member
                                   THEN [A.groups[g] EXCEPT !.users_counter = @ - 1]
                                   ELSE A.groups[g]],
                    !.users = Drop(@, {u}),
                    !.member = {m \in @ : m[1] # u}]
<1>1. B = [users |-> us, groups |-> t, member |-> ms, keys |-> A.keys]
  <2>1. DOMAIN A = {"users", "groups", "member", "keys"}
    BY DbDomain DEF Tidy
  <2>2. A = [users |-> A.users, groups |-> A.groups, member |-> A.member, keys |-> A.keys]
    BY DEF Tidy, IsDb
  <2> DEFINE C == [A EXCEPT !.groups = t]
             D == [C EXCEPT !.users = Drop(@, {u})]
  <2>3. B = [D EXCEPT !.member = {m \in @ : m[1] # u}]
    OBVIOUS
  <2>4. C = [users |-> A.users, groups |-> t, member |-> A.member, keys |-> A.keys]
    <3> HIDE DEF t
    <3> QED BY <2>1, <2>2
  <2>5. D = [users |-> us, groups |-> t, member |-> A.member, keys |-> A.keys]
    <3> HIDE DEF C, t
    <3> QED BY <2>4
  <2> HIDE DEF D, t, us, B
  <2> QED BY <2>3, <2>5
<1>2. \A g \in DOMAIN A.groups : A.groups[g] \in GroupRow /\ g \in Group /\ Counted(A, g)
  BY DEF Tidy, AreTables, IsTable
<1>3. ASSUME NEW g \in DOMAIN A.groups, <<u, g>> \in A.member
      PROVE  /\ [A.groups[g] EXCEPT !.users_counter = @ - 1] \in GroupRow
             /\ t[g].users_counter = Cardinality(MembersOf(A, g) \ {u})
             /\ t[g].keys_counter = A.groups[g].keys_counter
  <2>1. u \in MembersOf(A, g)
    <3>1. <<u, g>> \in User \X Group
      BY <1>3 DEF Tidy, AreTables
    <3> QED BY <1>3, <3>1 DEF MembersOf
  <2>2. IsFiniteSet(MembersOf(A, g))
    BY FiniteIds DEF Tidy
  <2>3. /\ IsFiniteSet(MembersOf(A, g) \ {u})
        /\ Cardinality(MembersOf(A, g) \ {u}) = Cardinality(MembersOf(A, g)) - 1
    BY <2>1, <2>2, FS_RemoveElement
  <2>4. Cardinality(MembersOf(A, g) \ {u}) \in Nat
    BY <2>3, FS_CardinalityType
  <2>5. A.groups[g].users_counter - 1 \in Nat /\ A.groups[g].users_counter = Cardinality(MembersOf(A, g))
    BY <1>2, <2>3, <2>4 DEF Counted
  <2> DEFINE n == A.groups[g].users_counter - 1
  <2>6. t[g] = [A.groups[g] EXCEPT !.users_counter = n]
    BY <1>3
  <2>7. n \in Nat /\ n = Cardinality(MembersOf(A, g) \ {u})
    BY <2>3, <2>5
  <2> HIDE DEF n, t
  <2>8. [A.groups[g] EXCEPT !.users_counter = n] \in GroupRow
    BY <1>2, <2>7, RowFacts
  <2>9. t[g].users_counter = n /\ t[g].keys_counter = A.groups[g].keys_counter
    BY <1>2, <2>6, RowFacts
  <2> QED BY <2>7, <2>8, <2>9 DEF n
<1>4. \A g \in DOMAIN A.groups : <<u, g>> \notin A.member => t[g] = A.groups[g]
  OBVIOUS
<1>5. IsTable(t, Group, GroupRow) /\ DOMAIN t = DOMAIN A.groups
  <2>1. \A g \in DOMAIN A.groups : t[g] \in GroupRow
    BY <1>2, <1>3
  <2>2. t = [g \in DOMAIN A.groups |-> t[g]]
    OBVIOUS
  <2> HIDE DEF t
  <2> QED BY <2>1, <2>2 DEF Tidy, AreTables, IsTable
<1>6. IsTable(us, User, UserRow) /\ DOMAIN us = DOMAIN A.users \ {u}
  BY DEF Tidy, AreTables, IsTable, Drop, Restrict
<1>7. ms \subseteq A.member /\ \A m \in A.member : m \in ms <=> m[1] # u
  OBVIOUS
<1> HIDE DEF B, t, us, ms
<1>8. IsDb(B) /\ AreTables(B)
  BY <1>1, <1>5, <1>6, <1>7 DEF Tidy, AreTables, IsDb
<1>9. \A h : KeysOf(B, h) = KeysOf(A, h)
  BY <1>1 DEF KeysOf
<1>10. \A h : MembersOf(B, h) = MembersOf(A, h) \ {u}
  <2> TAKE h
  <2>1. \A v : <<v, h>> \in ms <=> <<v, h>> \in A.member /\ v # u
    BY <1>7
  <2> QED BY <1>1, <2>1 DEF MembersOf
<1>11. \A h \in DOMAIN t : Counted(B, h)
  <2> TAKE h \in DOMAIN t
  <2>1. Counted(A, h) /\ h \in DOMAIN A.groups /\ h \in Group
    BY <1>2, <1>5
  <2>2. CASE <<u, h>> \in A.member
    BY <1>1, <1>3, <1>9, <1>10, <2>1, <2>2 DEF Counted
  <2>3. CASE <<u, h>> \notin A.member
    <3>1. MembersOf(A, h) \ {u} = MembersOf(A, h)
      BY <2>3 DEF MembersOf
    <3> QED BY <1>1, <1>4, <1>9, <1>10, <2>1, <2>3, <3>1 DEF Counted
  <2> QED BY <2>2, <2>3
<1>12. \A m \in B.member : m[1] \in DOMAIN B.users /\ m[2] \in DOMAIN B.groups
  BY <1>1, <1>5, <1>6, <1>7 DEF Tidy
<1>13. \A k \in DOMAIN B.keys : B.keys[k].owner \in DOMAIN B.groups \cup {Zombie}
  BY <1>1, <1>5 DEF Tidy
<1>20. B = LessUser(A, u)
  BY DEF B, LessUser
<1>21. Tidy(B)
  BY <1>1, <1>8, <1>11, <1>12, <1>13, <1>5 DEF Tidy, B, t, us, ms
<1> HIDE DEF B
<1>22. UserGone(A, u, B)
  BY <1>1, <1>21 DEF t, us, ms, UserGone
<1> QED BY <1>20, <1>22

LEMMA TidyDeleteGroup ==
  ASSUME NEW A, Tidy(A), NEW g \in DOMAIN A.groups
  PROVE  LET ks == [k \in DOMAIN A.keys |-> IF A.keys[k].owner = g
                                              THEN [A.keys[k] EXCEPT !.owner = Zombie]
                                              ELSE A.keys[k]]
             B == [A EXCEPT !.groups = Drop(@, {g}),
                        !.member = {m \in @ : m[2] # g},
                        !.keys = [k \in DOMAIN @ |-> IF @[k].owner = g
                                                       THEN [@[k] EXCEPT !.owner = Zombie]
                                                       ELSE @[k]]]
         IN  /\ Tidy(B) /\ B.users = A.users /\ B.member = {m \in A.member : m[2] # g}
             /\ B.keys = ks /\ B.groups = Drop(A.groups, {g}) /\ Needed(B) = Needed(A)
<1> DEFINE ks == [k \in DOMAIN A.keys |-> IF A.keys[k].owner = g
                                            THEN [A.keys[k] EXCEPT !.owner = Zombie]
                                            ELSE A.keys[k]]
           t == Drop(A.groups, {g})
           ms == {m \in A.member : m[2] # g}
           B == [A EXCEPT !.groups = Drop(@, {g}),
                        !.member = {m \in @ : m[2] # g},
                        !.keys = [k \in DOMAIN @ |-> IF @[k].owner = g
                                                       THEN [@[k] EXCEPT !.owner = Zombie]
                                                       ELSE @[k]]]
<1>1. B = [users |-> A.users, groups |-> t, member |-> ms, keys |-> ks]
  <2>1. DOMAIN A = {"users", "groups", "member", "keys"}
    BY DbDomain DEF Tidy
  <2>2. B = [A EXCEPT !.groups = t, !.member = ms, !.keys = ks]
    BY <2>1
  <2> HIDE DEF t, B, ks, ms
  <2>3. B = [x \in DOMAIN A |-> IF x = "keys" THEN ks ELSE IF x = "member" THEN ms
                                ELSE IF x = "groups" THEN t ELSE A[x]]
    BY <2>2
  <2> QED BY <2>1, <2>3
<1>2. \A k \in DOMAIN A.keys : /\ A.keys[k] \in KeyRow /\ k \in Key
                               /\ A.keys[k].owner \in DOMAIN A.groups \cup {Zombie}
  BY DEF Tidy, AreTables, IsTable
<1>3. g # Zombie /\ g \in Group
  BY TablesAssumption DEF Tidy, AreTables, IsTable
<1>4. \A k \in DOMAIN A.keys :
         /\ A.keys[k].owner # g => ks[k] = A.keys[k]
         /\ A.keys[k].owner = g => ks[k] = [A.keys[k] EXCEPT !.owner = Zombie]
  OBVIOUS
<1>5. \A k \in DOMAIN A.keys : /\ ks[k] \in KeyRow /\ ks[k].status = A.keys[k].status
                               /\ ks[k].owner = IF A.keys[k].owner = g THEN Zombie ELSE A.keys[k].owner
  <2> TAKE k \in DOMAIN A.keys
  <2> HIDE DEF ks
  <2>1. CASE A.keys[k].owner = g
    <3>1. ks[k] = [A.keys[k] EXCEPT !.owner = Zombie] /\ ks[k] \in KeyRow
      BY <1>2, <1>4, <2>1, RowFacts
    <3>2. A.keys[k] \in KeyRow
      BY <1>2
    <3>3. ks[k].owner = Zombie /\ ks[k].status = A.keys[k].status
      BY <3>1, <3>2 DEF KeyRow
    <3> QED BY <2>1, <3>1, <3>3
  <2>2. CASE A.keys[k].owner # g
    BY <1>2, <1>4, <2>2
  <2> QED BY <2>1, <2>2
<1>6. DOMAIN ks = DOMAIN A.keys /\ ks = [k \in DOMAIN A.keys |-> ks[k]]
  OBVIOUS
<1>7. /\ DOMAIN t = DOMAIN A.groups \ {g} /\ t \in [DOMAIN t -> GroupRow]
      /\ \A h \in DOMAIN t : t[h] = A.groups[h]
  BY DEF Tidy, AreTables, IsTable, Drop, Restrict
<1>8. ms \subseteq A.member /\ \A m \in A.member : m \in ms <=> m[2] # g
  OBVIOUS
<1> HIDE DEF B, t, ks, ms
<1>9. IsTable(ks, Key, KeyRow)
  BY <1>2, <1>5, <1>6 DEF IsTable
<1>10. IsDb(B) /\ AreTables(B)
  BY <1>1, <1>7, <1>8, <1>9 DEF Tidy, AreTables, IsDb, IsTable
<1>11. \A h : h # g /\ h # Zombie => KeysOf(B, h) = KeysOf(A, h)
  BY <1>1, <1>5, <1>6 DEF KeysOf
<1>12. \A h : h # g => MembersOf(B, h) = MembersOf(A, h)
  <2> TAKE h
  <2>1. \A v : h # g => (<<v, h>> \in ms <=> <<v, h>> \in A.member)
    BY <1>8
  <2> QED BY <1>1, <2>1 DEF MembersOf
<1>13. \A h \in DOMAIN t : Counted(B, h)
  <2> TAKE h \in DOMAIN t
  <2>1. Counted(A, h) /\ h # g /\ h # Zombie
    BY <1>7, TablesAssumption DEF Tidy, AreTables, IsTable
  <2> QED BY <1>1, <1>7, <1>11, <1>12, <2>1 DEF Counted
<1>14. \A m \in B.member : m[1] \in DOMAIN B.users /\ m[2] \in DOMAIN B.groups
  BY <1>1, <1>7, <1>8 DEF Tidy
<1>15. \A k \in DOMAIN B.keys : B.keys[k].owner \in DOMAIN B.groups \cup {Zombie}
  BY <1>1, <1>2, <1>5, <1>6, <1>7
<1>16. Needed(B) = Needed(A)
  BY <1>1, <1>5, <1>6 DEF Needed
<1> QED BY <1>1, <1>10, <1>13, <1>14, <1>15, <1>16 DEF Tidy, B, t, ks, ms

MoreKey(A, k, g) ==
  After(After(A, Insert(<<>>, <<>>, {}, [x \in {k} |->
                   [name |-> 0, owner |-> g, status |-> "preactive"]])),
        Count("keys_counter", g, 1))

KeyAdded(A, k, g, B) ==
  /\ Tidy(B) /\ B.users = A.users /\ B.member = A.member
  /\ DOMAIN B.keys = DOMAIN A.keys \cup {k}
  /\ B.keys[k] = [name |-> 0, owner |-> g, status |-> "preactive"]
  /\ \A x \in DOMAIN A.keys : x # k => B.keys[x] = A.keys[x]
  /\ B.keys = [x \in DOMAIN B.keys |-> B.keys[x]]
  /\ B.groups = Moved(A.groups, g, "keys_counter", 1)
  /\ Needed(B) = Needed(A) \cup {k}

LEMMA TidyAddKey ==
  ASSUME NEW A, Tidy(A), NEW k \in Key, k \notin DOMAIN A.keys, NEW g \in DOMAIN A.groups
  PROVE  KeyAdded(A, k, g, MoreKey(A, k, g))
<1> DEFINE row == [name |-> 0, owner |-> g, status |-> "preactive"]
           ks == Plus(A.keys, [x \in {k} |-> row])
           C == After(A, Insert(<<>>, <<>>, {}, [x \in {k} |-> row]))
           t == [A.groups EXCEPT ![g].keys_counter = @ + 1]
           B == After(C, Count("keys_counter", g, 1))
<1>0. IsDb(A)
  BY DEF Tidy
<1>1. C = [users |-> A.users, groups |-> A.groups, member |-> A.member, keys |-> ks]
  <2>1. Plus(A.users, <<>>) = A.users /\ Plus(A.groups, <<>>) = A.groups
    BY DEF Tidy, AreTables, IsTable, Plus
  <2> QED BY <2>1 DEF After, Insert
<1> HIDE DEF C
<1>2. B = [users |-> A.users, groups |-> t, member |-> A.member, keys |-> ks]
  <2>1. B = [C EXCEPT !.groups[g]["keys_counter"] = @ + 1]
    BY <1>1 DEF After, Count
  <2> HIDE DEF ks, B
  <2> QED BY <1>1, <2>1
<1>3. A.groups[g] \in GroupRow /\ g \in Group /\ A.groups[g].keys_counter \in Nat /\ g # Zombie
  BY TablesAssumption, RowFacts DEF Tidy, AreTables, IsTable
<1>4. [A.groups[g] EXCEPT !.keys_counter = @ + 1] \in GroupRow
  <2> DEFINE n == A.groups[g].keys_counter + 1
  <2>1. n \in Nat
    BY <1>3
  <2> HIDE DEF n
  <2>2. [A.groups[g] EXCEPT !.keys_counter = n] \in GroupRow
    BY <1>3, <2>1, RowFacts
  <2> QED BY <2>2 DEF n
<1>5. /\ DOMAIN t = DOMAIN A.groups /\ t[g] = [A.groups[g] EXCEPT !.keys_counter = @ + 1]
      /\ \A h \in DOMAIN A.groups : h # g => t[h] = A.groups[h]
  OBVIOUS
<1>6. t[g].users_counter = A.groups[g].users_counter /\ t[g].keys_counter = A.groups[g].keys_counter + 1
  BY <1>3, <1>5, RowFacts
<1>7. row \in KeyRow /\ row.owner = g /\ row.status = "preactive"
  BY <1>3 DEF KeyRow, Status
<1> HIDE DEF row, B
<1>8. /\ DOMAIN ks = DOMAIN A.keys \cup {k} /\ ks[k] = row
      /\ \A x \in DOMAIN A.keys : ks[x] = A.keys[x]
      /\ IsTable(ks, Key, KeyRow)
  BY <1>7 DEF Plus, Tidy, AreTables, IsTable
<1>9. IsTable(t, Group, GroupRow)
  <2>1. t = [h \in DOMAIN A.groups |-> t[h]]
    BY <1>5
  <2>2. \A h \in DOMAIN A.groups : A.groups[h] \in GroupRow
    BY DEF Tidy, AreTables, IsTable
  <2> HIDE DEF t
  <2>3. \A h \in DOMAIN A.groups : t[h] \in GroupRow
    BY <1>4, <1>5, <2>2
  <2> QED BY <1>5, <2>1, <2>3 DEF Tidy, AreTables, IsTable
<1> HIDE DEF ks, t
<1>10. IsDb(B) /\ AreTables(B)
  BY <1>2, <1>8, <1>9 DEF Tidy, AreTables, IsDb
<1>11. \A h : MembersOf(B, h) = MembersOf(A, h)
  BY <1>2 DEF MembersOf
<1>12. \A h : h # g => KeysOf(B, h) = KeysOf(A, h)
  BY <1>2, <1>7, <1>8 DEF KeysOf
<1>13. KeysOf(B, g) = KeysOf(A, g) \cup {k} /\ k \notin KeysOf(A, g)
  BY <1>2, <1>7, <1>8 DEF KeysOf
<1>14. Cardinality(KeysOf(B, g)) = Cardinality(KeysOf(A, g)) + 1
  BY <1>13, FiniteIds, FS_AddElement DEF Tidy
<1>15. \A h \in DOMAIN t : Counted(B, h)
  <2> TAKE h \in DOMAIN t
  <2>1. Counted(A, h)
    BY <1>5 DEF Tidy
  <2>2. CASE h = g
    BY <1>2, <1>6, <1>11, <1>14, <2>1, <2>2 DEF Counted
  <2>3. CASE h # g
    BY <1>2, <1>5, <1>11, <1>12, <2>1, <2>3 DEF Counted
  <2> QED BY <2>2, <2>3
<1>16. \A m \in B.member : m[1] \in DOMAIN B.users /\ m[2] \in DOMAIN B.groups
  BY <1>2, <1>5 DEF Tidy
<1>17. \A x \in DOMAIN B.keys : B.keys[x].owner \in DOMAIN B.groups \cup {Zombie}
  BY <1>2, <1>5, <1>7, <1>8 DEF Tidy
<1>18. Needed(B) = Needed(A) \cup {k}
  BY <1>2, <1>7, <1>8 DEF Needed
<1>20. B = MoreKey(A, k, g)
  BY DEF B, C, row, MoreKey
<1>21. t = Moved(A.groups, g, "keys_counter", 1)
  BY DEF t, Moved
<1>22. B.keys = [x \in DOMAIN B.keys |-> B.keys[x]]
  BY <1>2, <1>8 DEF IsTable
<1>23. Tidy(B)
  BY <1>10, <1>15, <1>16, <1>17, <1>2 DEF Tidy
<1>24. /\ B.users = A.users /\ B.member = A.member /\ DOMAIN B.keys = DOMAIN A.keys \cup {k}
       /\ B.keys[k] = [name |-> 0, owner |-> g, status |-> "preactive"]
       /\ (\A x \in DOMAIN A.keys : x # k => B.keys[x] = A.keys[x])
  BY <1>2, <1>8 DEF row
<1>25. B.groups = Moved(A.groups, g, "keys_counter", 1)
  BY <1>2, <1>21
<1>26. KeyAdded(A, k, g, B)
  BY <1>18, <1>22, <1>23, <1>24, <1>25 DEF KeyAdded
<1> QED BY <1>20, <1>26

\* One column of one row.
LEMMA TidySetUser ==
  ASSUME NEW A, Tidy(A), NEW u \in DOMAIN A.users
  PROVE  LET B == After(A, Set("users", u, "username", 1))
         IN  /\ Tidy(B) /\ B.groups = A.groups /\ B.member = A.member /\ B.keys = A.keys
             /\ B.users = [A.users EXCEPT ![u] = [username |-> 1]]
<1> DEFINE t == [A.users EXCEPT ![u] = [username |-> 1]]
           B == After(A, Set("users", u, "username", 1))
<1>0. A.users[u] \in UserRow
  BY DEF Tidy, AreTables, IsTable
<1>1. [A.users[u] EXCEPT !.username = 1] = [username |-> 1]
  BY <1>0 DEF UserRow
<1>2. B = [A EXCEPT !.users[u].username = 1]
  BY DEF After, Set
<1>3. B = [users |-> t, groups |-> A.groups, member |-> A.member, keys |-> A.keys]
  BY <1>1, <1>2 DEF Tidy, IsDb
<1>4. IsTable(t, User, UserRow) /\ DOMAIN t = DOMAIN A.users
  BY DEF Tidy, AreTables, IsTable, UserRow
<1> HIDE DEF B, t
<1>5. IsDb(B) /\ AreTables(B)
  BY <1>3, <1>4 DEF Tidy, AreTables, IsDb
<1>6. \A g : Counted(B, g) <=> Counted(A, g)
  BY <1>3 DEF Counted, MembersOf, KeysOf
<1> QED BY <1>3, <1>4, <1>5, <1>6 DEF Tidy, B, t

GroupColumn == {"name", "max_keys", "keys_liveness"}

LEMMA TidySetGroup ==
  ASSUME NEW A, Tidy(A), NEW g \in DOMAIN A.groups, NEW c \in GroupColumn
  PROVE  LET B == After(A, Set("groups", g, c, 1))
         IN  /\ Tidy(B) /\ B.users = A.users /\ B.member = A.member /\ B.keys = A.keys
             /\ B.groups = [A.groups EXCEPT ![g][c] = 1]
<1> DEFINE t == [A.groups EXCEPT ![g][c] = 1]
           B == After(A, Set("groups", g, c, 1))
<1>0. \A h \in DOMAIN A.groups : A.groups[h] \in GroupRow
  BY DEF Tidy, AreTables, IsTable
<1>1. /\ [A.groups[g] EXCEPT ![c] = 1] \in GroupRow
      /\ [A.groups[g] EXCEPT ![c] = 1].users_counter = A.groups[g].users_counter
      /\ [A.groups[g] EXCEPT ![c] = 1].keys_counter = A.groups[g].keys_counter
  BY <1>0 DEF GroupRow, GroupColumn
<1>2. B = [A EXCEPT !.groups[g][c] = 1]
  BY DEF After, Set
<1>3. B = [users |-> A.users, groups |-> t, member |-> A.member, keys |-> A.keys]
  BY <1>2 DEF Tidy, IsDb
<1>4. /\ DOMAIN t = DOMAIN A.groups /\ t[g] = [A.groups[g] EXCEPT ![c] = 1]
      /\ \A h \in DOMAIN A.groups : h # g => t[h] = A.groups[h]
      /\ t = [h \in DOMAIN A.groups |-> t[h]]
  OBVIOUS
<1> HIDE DEF B, t
<1>5. \A h \in DOMAIN A.groups : /\ t[h] \in GroupRow
                                 /\ t[h].users_counter = A.groups[h].users_counter
                                 /\ t[h].keys_counter = A.groups[h].keys_counter
  <2> TAKE h \in DOMAIN A.groups
  <2>1. CASE h = g
    BY <1>1, <1>4, <2>1
  <2>2. CASE h # g
    BY <1>0, <1>4, <2>2
  <2> QED BY <2>1, <2>2
<1>6. IsTable(t, Group, GroupRow)
  BY <1>4, <1>5 DEF Tidy, AreTables, IsTable
<1>7. IsDb(B) /\ AreTables(B)
  BY <1>3, <1>6 DEF Tidy, AreTables, IsDb
<1>8. \A h \in DOMAIN A.groups : Counted(B, h) <=> Counted(A, h)
  BY <1>3, <1>5 DEF Counted, MembersOf, KeysOf
<1> QED BY <1>3, <1>4, <1>7, <1>8 DEF Tidy, B, t

KeySet(A, k, c, value, B) ==
  /\ Tidy(B) /\ B.users = A.users /\ B.member = A.member /\ B.groups = A.groups
  /\ B.keys = [A.keys EXCEPT ![k][c] = value]
  /\ \A x \in DOMAIN A.keys : B.keys[x].owner = A.keys[x].owner
  /\ B.keys[k].status = IF c = "status" THEN value ELSE A.keys[k].status

LEMMA TidySetKey ==
  ASSUME NEW A, Tidy(A), NEW k \in DOMAIN A.keys, NEW c, NEW value,
         (c = "name" /\ value = 1) \/ (c = "status" /\ value \in Status)
  PROVE  KeySet(A, k, c, value, After(A, Set("keys", k, c, value)))
<1> DEFINE t == [A.keys EXCEPT ![k][c] = value]
           B == After(A, Set("keys", k, c, value))
<1>0. \A x \in DOMAIN A.keys : A.keys[x] \in KeyRow
  BY DEF Tidy, AreTables, IsTable
<1>1. /\ [A.keys[k] EXCEPT ![c] = value] \in KeyRow
      /\ [A.keys[k] EXCEPT ![c] = value].owner = A.keys[k].owner
      /\ [A.keys[k] EXCEPT ![c] = value].status = IF c = "status" THEN value ELSE A.keys[k].status
  BY <1>0 DEF KeyRow
<1>2. B = [A EXCEPT !.keys[k][c] = value]
  BY DEF After, Set
<1>3. B = [users |-> A.users, groups |-> A.groups, member |-> A.member, keys |-> t]
  BY <1>2 DEF Tidy, IsDb
<1>4. /\ DOMAIN t = DOMAIN A.keys /\ t[k] = [A.keys[k] EXCEPT ![c] = value]
      /\ \A h \in DOMAIN A.keys : h # k => t[h] = A.keys[h]
      /\ t = [h \in DOMAIN A.keys |-> t[h]]
  OBVIOUS
<1> HIDE DEF B, t
<1>5. \A h \in DOMAIN A.keys : t[h] \in KeyRow /\ t[h].owner = A.keys[h].owner
  <2> TAKE h \in DOMAIN A.keys
  <2>1. CASE h = k
    BY <1>1, <1>4, <2>1
  <2>2. CASE h # k
    BY <1>0, <1>4, <2>2
  <2> QED BY <2>1, <2>2
<1>6. IsTable(t, Key, KeyRow)
  BY <1>4, <1>5 DEF Tidy, AreTables, IsTable
<1>7. IsDb(B) /\ AreTables(B)
  BY <1>3, <1>6 DEF Tidy, AreTables, IsDb
<1>8. \A h : KeysOf(B, h) = KeysOf(A, h) /\ MembersOf(B, h) = MembersOf(A, h)
  BY <1>3, <1>4, <1>5 DEF KeysOf, MembersOf
<1>9. \A h : Counted(B, h) <=> Counted(A, h)
  BY <1>3, <1>8 DEF Counted
<1>10. \A x \in DOMAIN t : t[x].owner \in DOMAIN A.groups \cup {Zombie}
  BY <1>4, <1>5 DEF Tidy
<1>11. Tidy(B)
  <2>1. \A m \in B.member : m[1] \in DOMAIN B.users /\ m[2] \in DOMAIN B.groups
    BY <1>3 DEF Tidy
  <2>2. \A g \in DOMAIN B.groups : Counted(B, g)
    BY <1>3, <1>9 DEF Tidy
  <2> QED BY <1>3, <1>7, <1>10, <2>1, <2>2 DEF Tidy
<1>12. B.keys[k].status = IF c = "status" THEN value ELSE A.keys[k].status
  BY <1>1, <1>3, <1>4
<1>13. B.users = A.users /\ B.member = A.member /\ B.groups = A.groups /\ B.keys = t
       /\ \A x \in DOMAIN A.keys : B.keys[x].owner = A.keys[x].owner
  BY <1>3, <1>5
<1>14. B.keys = [A.keys EXCEPT ![k][c] = value]
  BY <1>13 DEF t
<1>15. KeySet(A, k, c, value, B)
  BY <1>11, <1>12, <1>13, <1>14 DEF KeySet
<1> QED BY <1>15 DEF B

-----------------------------------------------------------------------------
(* The init file and the recovery files.                                    *)

IsCommands(q) == IsSeq(q) /\ \A i \in 1..Len(q) : IsCommand(q[i])

\* Commands as records that restart the count.
Uncounted(cmds) == [i \in DOMAIN cmds |-> Record(0, cmds[i])]

LEMMA FewCommands ==
  /\ \A s : IsStatement(s) => IsText(<<s>>) /\ IsCommand(SQL(<<s>>)) /\ IsCommands(<<SQL(<<s>>)>>)
  /\ \A s, t : IsStatement(s) /\ IsStatement(t) => IsText(<<s, t>>) /\ IsCommand(SQL(<<s, t>>))
  /\ \A s, t, r : IsStatement(s) /\ IsStatement(t) /\ IsStatement(r)
                    => IsText(<<s, t, r>>) /\ IsCommand(SQL(<<s, t, r>>))
  /\ \A k : IsCommand(KeyData(k)) /\ IsCommands(<<KeyData(k)>>)
  /\ \A u, g : IsCommand(DelFromGroup(u, g)) /\ IsCommand(DelUser(u)) /\ IsCommand(DelGroup(g))
  /\ IsCommands(<<>>)
<1>1. \A s : IsStatement(s) => IsText(<<s>>)
  BY NoneAndOneSeq DEF IsText
<1>2. \A s, t : IsStatement(s) /\ IsStatement(t) => IsText(<<s, t>>)
  <2> TAKE s, t
  <2>1. IsSeq(<<s>>) /\ <<s, t>> = Append(<<s>>, t)
    BY NoneAndOneSeq
  <2>2. IsSeq(<<s, t>>)
    <3>1. IsSeq(Append(<<s>>, t))
      BY <2>1, AppendSeq
    <3> QED BY <2>1, <3>1
  <2>3. Len(<<s, t>>) = 2 /\ <<s, t>>[1] = s /\ <<s, t>>[2] = t /\ 1..2 = {1, 2}
    OBVIOUS
  <2> QED BY <2>2, <2>3 DEF IsText
<1>3. \A s, t, r : IsStatement(s) /\ IsStatement(t) /\ IsStatement(r) => IsText(<<s, t, r>>)
  <2> TAKE s, t, r
  <2>1. IsSeq(<<s>>) /\ <<s, t>> = Append(<<s>>, t) /\ <<s, t, r>> = Append(<<s, t>>, r)
    BY NoneAndOneSeq
  <2>2. IsSeq(<<s, t, r>>)
    BY <2>1, AppendSeq, ZenonT(60)
  <2>3. Len(<<s, t, r>>) = 3 /\ <<s, t, r>>[1] = s /\ <<s, t, r>>[2] = t /\ <<s, t, r>>[3] = r
        /\ 1..3 = {1, 2, 3}
    OBVIOUS
  <2> QED BY <2>2, <2>3 DEF IsText
<1>4. \A text : IsText(text) => IsCommand(SQL(text))
  BY DEF IsCommand, SQL
<1>5. \A c : IsCommand(c) => IsCommands(<<c>>)
  BY NoneAndOneSeq DEF IsCommands
<1>6. /\ \A k : IsCommand(KeyData(k))
      /\ \A u, g : IsCommand(DelFromGroup(u, g)) /\ IsCommand(DelUser(u)) /\ IsCommand(DelGroup(g))
  BY DEF IsCommand, KeyData, DelFromGroup, DelUser, DelGroup
<1>7. IsCommands(<<>>)
  BY NoneAndOneSeq DEF IsCommands
<1> QED BY <1>1, <1>2, <1>3, <1>4, <1>5, <1>6, <1>7

LEMMA CommandsConcat ==
  ASSUME NEW p, NEW q, IsCommands(p), IsCommands(q)
  PROVE  IsCommands(p \o q)
<1>1. /\ IsSeq(p \o q) /\ Len(p \o q) = Len(p) + Len(q)
      /\ \A i \in 1..Len(p) : (p \o q)[i] = p[i]
      /\ \A i \in 1..Len(q) : (p \o q)[Len(p) + i] = q[i]
      /\ Len(p) \in Nat /\ Len(q) \in Nat
  BY ConcatSeq, SeqFacts DEF IsCommands
<1>2. ASSUME NEW i \in 1..Len(p \o q)
      PROVE  IsCommand((p \o q)[i])
  <2>1. CASE i <= Len(p)
    BY <1>1, <2>1 DEF IsCommands
  <2>2. CASE ~(i <= Len(p))
    <3>1. i - Len(p) \in 1..Len(q) /\ Len(p) + (i - Len(p)) = i
      BY <1>1, <2>2
    <3> QED BY <1>1, <3>1 DEF IsCommands
  <2> QED BY <2>1, <2>2
<1> QED BY <1>1, <1>2 DEF IsCommands

LEMMA UncountedFacts ==
  ASSUME NEW cmds, IsCommands(cmds)
  PROVE  /\ IsRecords(Uncounted(cmds)) /\ Len(Uncounted(cmds)) = Len(cmds)
         /\ \A i \in 1..Len(cmds) : Uncounted(cmds)[i] = Record(0, cmds[i])
<1>1. Len(cmds) \in Nat /\ DOMAIN cmds = 1..Len(cmds)
  BY SeqFacts DEF IsCommands
<1> DEFINE q == Uncounted(cmds)
<1>2. q = [i \in 1..Len(cmds) |-> q[i]] /\ \A i \in 1..Len(cmds) : q[i] = Record(0, cmds[i])
  BY <1>1 DEF Uncounted
<1> HIDE DEF q
<1>3. IsSeq(q) /\ Len(q) = Len(cmds)
  BY <1>1, <1>2, SeqIndexed
<1>4. \A c : Record(0, c).cnt = 0 /\ Record(0, c).cmd = c
  BY DEF Record
<1> QED BY <1>2, <1>3, <1>4 DEF IsRecords, IsCommands, q

LEMMA UncountedConcat ==
  ASSUME NEW p, NEW q, IsCommands(p), IsCommands(q)
  PROVE  Uncounted(p \o q) = Uncounted(p) \o Uncounted(q)
<1> DEFINE a == Uncounted(p)
           b == Uncounted(q)
           c == Uncounted(p \o q)
<1>1. /\ IsSeq(p) /\ IsSeq(q) /\ Len(p) \in Nat /\ Len(q) \in Nat
  BY SeqFacts DEF IsCommands
<1>2. /\ IsCommands(p \o q) /\ Len(p \o q) = Len(p) + Len(q)
      /\ \A i \in 1..Len(p) : (p \o q)[i] = p[i]
      /\ \A i \in 1..Len(q) : (p \o q)[Len(p) + i] = q[i]
  BY <1>1, ConcatSeq, CommandsConcat
<1>3. /\ IsRecords(a) /\ Len(a) = Len(p) /\ \A i \in 1..Len(p) : a[i] = Record(0, p[i])
  BY UncountedFacts
<1>4. /\ IsRecords(b) /\ Len(b) = Len(q) /\ \A i \in 1..Len(q) : b[i] = Record(0, q[i])
  BY UncountedFacts
<1>5. /\ IsRecords(c) /\ Len(c) = Len(p \o q)
      /\ \A i \in 1..Len(p \o q) : c[i] = Record(0, (p \o q)[i])
  BY <1>2, UncountedFacts
<1> HIDE DEF a, b, c
<1>6. /\ IsSeq(a \o b) /\ Len(a \o b) = Len(a) + Len(b)
      /\ \A i \in 1..Len(a) : (a \o b)[i] = a[i]
      /\ \A i \in 1..Len(b) : (a \o b)[Len(a) + i] = b[i]
  <2>1. IsSeq(a) /\ IsSeq(b)
    BY <1>3, <1>4 DEF IsRecords
  <2> QED BY <2>1, ConcatSeq
<1>7. ASSUME NEW i \in 1..Len(c)
      PROVE  c[i] = (a \o b)[i]
  <2>1. c[i] = Record(0, (p \o q)[i])
    BY <1>5
  <2>2. CASE i <= Len(p)
    <3>1. i \in 1..Len(p)
      BY <1>1, <2>2
    <3> QED BY <1>2, <1>3, <1>6, <2>1, <3>1
  <2>3. CASE ~(i <= Len(p))
    <3>1. i - Len(p) \in 1..Len(q) /\ Len(p) + (i - Len(p)) = i
      BY <1>1, <1>2, <1>5, <2>3
    <3>2. (p \o q)[i] = q[i - Len(p)] /\ (a \o b)[i] = b[i - Len(p)]
      BY <1>2, <1>3, <1>4, <1>6, <3>1
    <3> QED BY <1>4, <2>1, <3>1, <3>2
  <2> QED BY <2>2, <2>3
<1>8. Len(c) = Len(a \o b) /\ c = [i \in 1..Len(c) |-> c[i]] /\ IsSeq(c)
      /\ (a \o b) = [i \in 1..Len(a \o b) |-> (a \o b)[i]]
  BY <1>2, <1>3, <1>4, <1>5, <1>6, SeqFacts DEF IsRecords
<1>9. c = a \o b
  BY <1>7, <1>8
<1> QED BY <1>9 DEF a, b, c

-----------------------------------------------------------------------------

IsJoin(f, db, k) ==
  f = [i \in 0..Len(k) |-> IF i = 0 THEN <<>> ELSE f[i - 1] \o RecoveryKey(db, k[i])]

LEMMA JoinExists ==
  ASSUME NEW db, NEW k, IsSeq(k)
  PROVE  \E f : IsJoin(f, db, k)
<1> DEFINE IsPart(f, n) == f = [i \in 0..n |-> IF i = 0 THEN <<>> ELSE f[i - 1] \o RecoveryKey(db, k[i])]
           T == {n \in 0..Len(k) : \E f : IsPart(f, n)}
<1>0. Len(k) \in Nat
  BY SeqFacts
<1>1. 0 \in T
  <2>1. IsPart([i \in 0..0 |-> <<>>], 0)
    OBVIOUS
  <2> HIDE DEF IsPart
  <2> QED BY <1>0, <2>1
<1>2. ASSUME NEW n \in 1..Len(k), n - 1 \in T
      PROVE  n \in T
  <2>1. n \in 0..Len(k) /\ n - 1 \in 0..(n - 1) /\ n # 0 /\ n \in Nat /\ n \in 0..n
    BY <1>0
  <2>2. PICK g : IsPart(g, n - 1)
    BY <1>2
  <2> DEFINE h == [i \in 0..n |-> IF i = n THEN g[n - 1] \o RecoveryKey(db, k[n]) ELSE g[i]]
  <2>3. \A i \in 0..n : h[i] = IF i = 0 THEN <<>> ELSE h[i - 1] \o RecoveryKey(db, k[i])
    <3> TAKE i \in 0..n
    <3> HIDE DEF h
    <3>1. \A j \in 0..(n - 1) : g[j] = IF j = 0 THEN <<>> ELSE g[j - 1] \o RecoveryKey(db, k[j])
      BY <2>2
    <3>2. \A j \in 0..(n - 1) : h[j] = g[j]
      BY <2>1 DEF h
    <3>3. h[n] = g[n - 1] \o RecoveryKey(db, k[n])
      <4> DEFINE x == g[n - 1] \o RecoveryKey(db, k[n])
      <4> HIDE DEF x
      <4>1. h = [j \in 0..n |-> IF j = n THEN x ELSE g[j]]
        BY DEF h, x
      <4>2. h[n] = x
        BY <2>1, <4>1
      <4> QED BY <4>2 DEF x
    <3>4. CASE i = n
      BY <2>1, <3>2, <3>3, <3>4
    <3>5. CASE i # n
      <4>1. i \in 0..(n - 1) /\ (i # 0 => i - 1 \in 0..(n - 1))
        BY <2>1, <3>5
      <4> QED BY <3>1, <3>2, <4>1
    <3> QED BY <3>4, <3>5
  <2>4. h = [i \in 0..n |-> h[i]]
    OBVIOUS
  <2> HIDE DEF h
  <2>5. IsPart(h, n)
    BY <2>3, <2>4
  <2> HIDE DEF IsPart
  <2> QED BY <2>1, <2>5
<1>3. Len(k) \in T
  <2> HIDE DEF T
  <2>1. \A i \in 0..Len(k) : i \in T
    BY <1>0, <1>1, <1>2, UpTo
  <2> QED BY <1>0, <2>1
<1> QED BY <1>3 DEF IsJoin

\* The keys that u should have, and their parts of the recovery file one after the
\* other.
KeysFor(db, u) == {x \in DOMAIN db.keys : db.keys[x].owner \in GroupsOf(db, u)}

LEMMA RecoveryKeyCommands ==
  ASSUME NEW db, NEW k
  PROVE  IsCommands(RecoveryKey(db, k))
<1> DEFINE s == Insert(<<>>, <<>>, {}, Restrict(db.keys, {k}))
           rest == IF db.keys[k].status = "destroyed" THEN <<>> ELSE <<KeyData(k)>>
<1>1. IsStatement(s)
  BY DEF IsStatement, Insert
<1> HIDE DEF s
<1>2. IsCommands(<<SQL(<<s>>)>>) /\ IsCommands(rest)
  BY <1>1, FewCommands
<1> HIDE DEF rest
<1>3. IsCommands(<<SQL(<<s>>)>> \o rest)
  BY <1>2, CommandsConcat
<1> QED BY <1>3 DEF RecoveryKey, s, rest

LEMMA RecoveryKeysIsJoin ==
  ASSUME NEW db, AreTables(db), NEW u
  PROVE  LET k == SetToSeq(KeysFor(db, u))
         IN  \E f : /\ IsJoin(f, db, k) /\ RecoveryKeys(db, u) = f[Len(k)]
                    /\ Len(k) \in Nat /\ f[0] = <<>>
                    /\ \A i \in 1..Len(k) : f[i] = f[i - 1] \o RecoveryKey(db, k[i])
                    /\ \A i \in 0..Len(k) : IsCommands(f[i])
<1> DEFINE k == SetToSeq(KeysFor(db, u))
           g == CHOOSE f : IsJoin(f, db, k)
<1>1. IsSeq(k)
  <2>1. IsFiniteSet(KeysFor(db, u))
    <3>1. IsFiniteSet(DOMAIN db.keys) /\ KeysFor(db, u) \subseteq DOMAIN db.keys
      BY FiniteIds DEF KeysFor
    <3> QED BY <3>1, FS_Subset
  <2> QED BY <2>1, SetToSeqFacts
<1>2. Len(k) \in Nat
  BY <1>1, SeqFacts
<1>3. IsJoin(g, db, k)
  <2> HIDE DEF k
  <2> QED BY <1>1, JoinExists
<1>4. RecoveryKeys(db, u) = g[Len(k)]
  BY DEF RecoveryKeys, IsJoin, KeysFor
<1> HIDE DEF g, k
<1>5. g[0] = <<>> /\ \A i \in 1..Len(k) : g[i] = g[i - 1] \o RecoveryKey(db, k[i])
  <2>1. \A i \in 0..Len(k) : g[i] = IF i = 0 THEN <<>> ELSE g[i - 1] \o RecoveryKey(db, k[i])
    BY <1>2, <1>3 DEF IsJoin
  <2>2. 0 \in 0..Len(k) /\ \A i \in 1..Len(k) : i \in 0..Len(k) /\ i # 0
    BY <1>2
  <2>3. g[0] = <<>>
    BY <2>1, <2>2
  <2>4. ASSUME NEW i \in 1..Len(k)
        PROVE  g[i] = g[i - 1] \o RecoveryKey(db, k[i])
    BY <2>1, <2>2
  <2> QED BY <2>3, <2>4
<1> DEFINE T == {i \in 0..Len(k) : IsCommands(g[i])}
<1>6. 0 \in T
  BY <1>2, <1>5, FewCommands
<1>7. ASSUME NEW i \in 1..Len(k), i - 1 \in T
      PROVE  i \in T
  <2>1. IsCommands(g[i - 1]) /\ i \in 0..Len(k)
    BY <1>2, <1>7
  <2>2. IsCommands(g[i])
    BY <1>5, <2>1, RecoveryKeyCommands, CommandsConcat
  <2> QED BY <2>1, <2>2
<1>8. \A i \in 0..Len(k) : i \in T
  <2> HIDE DEF T
  <2> QED BY <1>2, <1>6, <1>7, UpTo
<1> QED BY <1>2, <1>3, <1>4, <1>5, <1>8 DEF k

\* One INSERT for each member of a finite set.
LEMMA InsertsShape ==
  ASSUME NEW v, IsSeq(v), NEW q, DOMAIN q = DOMAIN v, q = [i \in DOMAIN v |-> q[i]],
         \A i \in DOMAIN v : \E s : IsStatement(s) /\ q[i] = SQL(<<s>>)
  PROVE  IsCommands(q) /\ Len(q) = Len(v)
<1>1. Len(v) \in Nat /\ DOMAIN v = 1..Len(v)
  BY SeqFacts
<1>2. IsSeq(q) /\ Len(q) = Len(v)
  BY <1>1, SeqIndexed
<1> QED BY <1>1, <1>2, FewCommands DEF IsCommands

LEMMA InsertIsStatement ==
  ASSUME NEW a, NEW b, NEW c, NEW d
  PROVE  IsStatement(Insert(a, b, c, d)) /\ Insert(a, b, c, d).do = "insert"
BY DEF IsStatement, Insert

LEMMA RecoveryParts ==
  ASSUME NEW db, AreTables(db), NEW u
  PROVE  /\ IsCommands(RecoveryUsers(db, u)) /\ IsCommands(RecoveryGroups(db, u))
         /\ IsCommands(RecoveryMembers(db, u)) /\ IsCommands(RecoveryKeys(db, u))
<1>1. IsCommands(RecoveryUsers(db, u))
  <2> DEFINE v == SetToSeq(Peers(db, u) \cap DOMAIN db.users)
             q == [i \in DOMAIN v |-> SQL(<<Insert(Restrict(db.users, {v[i]}), <<>>, {}, <<>>)>>)]
  <2>1. IsSeq(v)
    <3>1. IsFiniteSet(Peers(db, u) \cap DOMAIN db.users)
      BY FiniteIds, FS_Subset
    <3> QED BY <3>1, SetToSeqFacts
  <2>2. \A i \in DOMAIN v : \E s : IsStatement(s) /\ q[i] = SQL(<<s>>)
    BY InsertIsStatement
  <2>3. DOMAIN q = DOMAIN v /\ q = [i \in DOMAIN v |-> q[i]]
    OBVIOUS
  <2> HIDE DEF v, q
  <2>4. IsCommands(q)
    BY <2>1, <2>2, <2>3, InsertsShape
  <2> QED BY <2>4 DEF RecoveryUsers, v, q
<1>2. IsCommands(RecoveryGroups(db, u))
  <2> DEFINE v == SetToSeq(GroupsOf(db, u) \cap DOMAIN db.groups)
             q == [i \in DOMAIN v |-> SQL(<<Insert(<<>>, Restrict(db.groups, {v[i]}), {}, <<>>)>>)]
  <2>1. IsSeq(v)
    <3>1. IsFiniteSet(GroupsOf(db, u) \cap DOMAIN db.groups)
      BY FiniteIds, FS_Subset
    <3> QED BY <3>1, SetToSeqFacts
  <2>2. \A i \in DOMAIN v : \E s : IsStatement(s) /\ q[i] = SQL(<<s>>)
    BY InsertIsStatement
  <2>3. DOMAIN q = DOMAIN v /\ q = [i \in DOMAIN v |-> q[i]]
    OBVIOUS
  <2> HIDE DEF v, q
  <2>4. IsCommands(q)
    BY <2>1, <2>2, <2>3, InsertsShape
  <2> QED BY <2>4 DEF RecoveryGroups, v, q
<1>3. IsCommands(RecoveryMembers(db, u))
  <2> DEFINE v == SetToSeq({x \in db.member : x[2] \in GroupsOf(db, u)})
             q == [i \in DOMAIN v |-> SQL(<<Insert(<<>>, <<>>, {v[i]}, <<>>)>>)]
  <2>1. IsSeq(v)
    <3>1. IsFiniteSet(db.member) /\ {x \in db.member : x[2] \in GroupsOf(db, u)} \subseteq db.member
      BY FiniteIds
    <3>2. IsFiniteSet({x \in db.member : x[2] \in GroupsOf(db, u)})
      BY <3>1, FS_Subset
    <3> QED BY <3>2, SetToSeqFacts
  <2>2. \A i \in DOMAIN v : \E s : IsStatement(s) /\ q[i] = SQL(<<s>>)
    BY InsertIsStatement
  <2>3. DOMAIN q = DOMAIN v /\ q = [i \in DOMAIN v |-> q[i]]
    OBVIOUS
  <2> HIDE DEF v, q
  <2>4. IsCommands(q)
    BY <2>1, <2>2, <2>3, InsertsShape
  <2> QED BY <2>4 DEF RecoveryMembers, v, q
<1>4. IsCommands(RecoveryKeys(db, u))
  <2> DEFINE k == SetToSeq(KeysFor(db, u))
  <2>1. PICK f : /\ RecoveryKeys(db, u) = f[Len(k)] /\ Len(k) \in Nat
                 /\ \A i \in 0..Len(k) : IsCommands(f[i])
    BY RecoveryKeysIsJoin
  <2> HIDE DEF k
  <2> QED BY <2>1
<1> QED BY <1>1, <1>2, <1>3, <1>4

ClearAll == SQL(<<Clear>>)

LEMMA ClearIsCommand ==
  IsCommand(ClearAll) /\ IsCommands(<<ClearAll>>) /\ IsStatement(Clear)
<1>1. IsStatement(Clear)
  BY DEF IsStatement, Clear
<1> QED BY <1>1, FewCommands DEF ClearAll

Zeros(q) == \A i \in 1..Len(q) : q[i].cnt = 0

\* A file that empties the tables first and counts nothing.
ClearFirst(q) == /\ IsRecords(q) /\ Zeros(q) /\ q # <<>> /\ q[1] = Record(0, ClearAll)

LEMMA RecoveryFileShape ==
  ASSUME NEW db, AreTables(db), NEW u
  PROVE  LET q == RecoveryFile(db, u)
         IN  /\ ClearFirst(q)
             /\ \A n \in 0..Len(q) : IsRecords(SubSeq(q, 1, n))
             /\ q = <<Record(0, ClearAll)>>
                    \o (Uncounted(RecoveryUsers(db, u))
                        \o (Uncounted(RecoveryGroups(db, u))
                            \o (Uncounted(RecoveryMembers(db, u))
                                \o Uncounted(RecoveryKeys(db, u)))))
             /\ IsRecords(Uncounted(RecoveryUsers(db, u))) /\ IsRecords(Uncounted(RecoveryGroups(db, u)))
             /\ IsRecords(Uncounted(RecoveryMembers(db, u))) /\ IsRecords(Uncounted(RecoveryKeys(db, u)))
<1> DEFINE a == <<ClearAll>>
           b == RecoveryUsers(db, u)
           c == RecoveryGroups(db, u)
           d == RecoveryMembers(db, u)
           e == RecoveryKeys(db, u)
           q == RecoveryFile(db, u)
<1>1. IsCommands(a) /\ IsCommands(b) /\ IsCommands(c) /\ IsCommands(d) /\ IsCommands(e)
  BY RecoveryParts, ClearIsCommand
<1>2. q = Uncounted(a \o b \o c \o d \o e)
  BY DEF RecoveryFile, Uncounted, ClearAll
<1>3. Uncounted(a) = <<Record(0, ClearAll)>>
  BY DEF Uncounted
<1>4. a[1] = ClearAll /\ Len(a) = 1
  OBVIOUS
<1> HIDE DEF a, b, c, d, e, q
<1>5. IsCommands(a \o b) /\ IsCommands(a \o b \o c) /\ IsCommands(a \o b \o c \o d)
      /\ IsCommands(a \o b \o c \o d \o e)
  BY <1>1, CommandsConcat
<1>6. q = ((((Uncounted(a) \o Uncounted(b)) \o Uncounted(c)) \o Uncounted(d)) \o Uncounted(e))
  <2>1. Uncounted(a \o b) = Uncounted(a) \o Uncounted(b)
    BY <1>1, UncountedConcat, Zenon
  <2>2. Uncounted((a \o b) \o c) = Uncounted(a \o b) \o Uncounted(c)
    BY <1>1, <1>5, UncountedConcat, Zenon
  <2>3. Uncounted(((a \o b) \o c) \o d) = Uncounted((a \o b) \o c) \o Uncounted(d)
    BY <1>1, <1>5, UncountedConcat, Zenon
  <2>4. Uncounted((((a \o b) \o c) \o d) \o e) = Uncounted(((a \o b) \o c) \o d) \o Uncounted(e)
    BY <1>1, <1>5, UncountedConcat, Zenon
  <2> QED BY <1>2, <2>1, <2>2, <2>3, <2>4, Zenon
<1>7. /\ IsRecords(Uncounted(a)) /\ IsRecords(Uncounted(b)) /\ IsRecords(Uncounted(c))
      /\ IsRecords(Uncounted(d)) /\ IsRecords(Uncounted(e))
  BY <1>1, UncountedFacts
<1>8. q = Uncounted(a) \o (Uncounted(b) \o (Uncounted(c) \o (Uncounted(d) \o Uncounted(e))))
  <2> DEFINE A == Uncounted(a)
             B == Uncounted(b)
             C == Uncounted(c)
             D == Uncounted(d)
             E == Uncounted(e)
  <2>1. IsSeq(A) /\ IsSeq(B) /\ IsSeq(C) /\ IsSeq(D) /\ IsSeq(E)
    BY <1>7 DEF IsRecords
  <2>2. q = ((((A \o B) \o C) \o D) \o E)
    BY <1>6
  <2> HIDE DEF A, B, C, D, E
  <2> DEFINE x == A \o B
             y == x \o C
             z == D \o E
             w == C \o z
             v == B \o w
  <2>3. IsSeq(x) /\ IsSeq(z)
    BY <2>1, ConcatSeq
  <2> HIDE DEF x, z
  <2>4. IsSeq(y) /\ IsSeq(w)
    BY <2>1, <2>3, ConcatSeq
  <2>5. y \o z = x \o w
    <3>1. IsSeq(x) /\ IsSeq(C) /\ IsSeq(z)
      BY <2>1, <2>3
    <3>2. (x \o C) \o z = x \o (C \o z)
      BY ONLY <3>1, ConcatAssoc
    <3> QED BY ONLY <3>2 DEF y, w
  <2> HIDE DEF y, w
  <2>6. (y \o D) \o E = y \o (D \o E)
    <3>1. IsSeq(y) /\ IsSeq(D) /\ IsSeq(E)
      BY <2>1, <2>4
    <3> QED BY ONLY <3>1, ConcatAssoc
  <2>7. (A \o B) \o w = A \o (B \o w)
    <3>1. IsSeq(A) /\ IsSeq(B) /\ IsSeq(w)
      BY <2>1, <2>4
    <3> QED BY ONLY <3>1, ConcatAssoc, SMTT(40)
  <2>8. q = (y \o D) \o E
    BY <2>2 DEF y, x
  <2>9. q = A \o v
    BY <2>5, <2>6, <2>7, <2>8 DEF v, x, z
  <2> QED BY <2>9 DEF v, w, z, A, B, C, D, E
<1>9. /\ IsRecords(q) /\ Len(q) \in Nat /\ Zeros(q)
      /\ Len(q) = Len(a \o b \o c \o d \o e)
      /\ \A i \in 1..Len(q) : q[i] = Record(0, (a \o b \o c \o d \o e)[i])
  <2>1. /\ IsRecords(q) /\ Len(q) = Len(a \o b \o c \o d \o e)
        /\ \A i \in 1..Len(q) : q[i] = Record(0, (a \o b \o c \o d \o e)[i])
    BY <1>2, <1>5, UncountedFacts
  <2>2. Len(q) \in Nat
    BY <2>1, SeqFacts DEF IsRecords
  <2>3. \A x : Record(0, x).cnt = 0
    BY DEF Record
  <2> QED BY <2>1, <2>2, <2>3 DEF Zeros
<1>10. q # <<>> /\ q[1] = Record(0, ClearAll)
  <2> DEFINE rest == Uncounted(b) \o (Uncounted(c) \o (Uncounted(d) \o Uncounted(e)))
  <2>1. IsSeq(rest)
    BY <1>7, ConcatSeq DEF IsRecords
  <2>2. q = <<Record(0, ClearAll)>> \o rest
    BY <1>3, <1>8
  <2> HIDE DEF rest
  <2>3. IsSeq(<<Record(0, ClearAll)>>) /\ Len(<<Record(0, ClearAll)>>) = 1
        /\ <<Record(0, ClearAll)>>[1] = Record(0, ClearAll) /\ 1 \in 1..1
    BY NoneAndOneSeq
  <2>4. Len(q) = 1 + Len(rest) /\ q[1] = Record(0, ClearAll) /\ Len(rest) \in Nat
    BY <2>1, <2>2, <2>3, ConcatSeq, SeqFacts
  <2> QED BY <1>9, <2>4, SeqFacts DEF IsRecords
<1>11. \A n \in 0..Len(q) : IsRecords(SubSeq(q, 1, n))
  <2> TAKE n \in 0..Len(q)
  <2>1. PICK S : q \in Seq(S)
    BY <1>9 DEF IsRecords, IsSeq
  <2>2. IsSeq(SubSeq(q, 1, n)) /\ Len(SubSeq(q, 1, n)) = n
    BY <1>9, Beginnings DEF IsRecords
  <2>3. \A i \in 1..n : SubSeq(q, 1, n)[i] = q[i] /\ i \in 1..Len(q)
    BY <1>9, <2>1
  <2> QED BY <1>9, <2>2, <2>3 DEF IsRecords
<1> QED BY <1>3, <1>7, <1>8, <1>9, <1>10, <1>11 DEF ClearFirst, a, b, c, d, e, q

-----------------------------------------------------------------------------
(* Devices and files.                                                       *)

DeviceField == {"ready", "db", "cnt", "flash", "updkeys", "blocked", "pc", "open", "tx"}

IsDevice(d) ==
  /\ d = [z \in DeviceField |-> d[z]]
  /\ IsDb(d.db) /\ d.cnt \in Nat
  /\ d.ready \in BOOLEAN /\ d.updkeys \in BOOLEAN /\ d.blocked \in BOOLEAN /\ d.open \in BOOLEAN
  /\ d.pc \in File \cup {"idle"}
  /\ d.tx = [db |-> d.tx.db, cnt |-> d.tx.cnt, todo |-> d.tx.todo]
  /\ IsDb(d.tx.db) /\ d.tx.cnt \in Nat /\ IsRecords(d.tx.todo)

\* Two devices that differ at most in their transaction.
LEMMA StoppedFacts ==
  ASSUME NEW d, d = [z \in DeviceField |-> d[z]]
  PROVE  LET e == Stopped(d)
         IN  /\ e = [z \in DeviceField |-> e[z]]
             /\ e.pc = "idle" /\ e.open = FALSE /\ e.tx = NoTx
             /\ e.ready = d.ready /\ e.db = d.db /\ e.cnt = d.cnt /\ e.flash = d.flash
             /\ e.updkeys = d.updkeys /\ e.blocked = d.blocked
<1> DEFINE no == FALSE
           e == [z \in DeviceField |-> IF z = "tx" THEN NoTx ELSE IF z = "open" THEN no
                                       ELSE IF z = "pc" THEN "idle" ELSE d[z]]
<1>1. Stopped(d) = [z \in DOMAIN d |-> IF z = "tx" THEN NoTx ELSE IF z = "open" THEN no
                                       ELSE IF z = "pc" THEN "idle" ELSE d[z]]
  BY DEF Stopped
<1>2. DOMAIN d = DeviceField
  OBVIOUS
<1>3. Stopped(d) = e
  BY <1>1, <1>2
<1>4. no = FALSE
  OBVIOUS
<1> HIDE DEF no
<1>5. /\ e = [z \in DeviceField |-> e[z]]
      /\ e.pc = "idle" /\ e.open = no /\ e.tx = NoTx
      /\ e.ready = d.ready /\ e.db = d.db /\ e.cnt = d.cnt /\ e.flash = d.flash
      /\ e.updkeys = d.updkeys /\ e.blocked = d.blocked
  BY DEF DeviceField
<1> HIDE DEF e
<1> QED BY <1>3, <1>4, <1>5

\* The keys that stay in the flash of a device.
Kept(d) == {k \in d.flash : k \in DOMAIN d.db.keys /\ d.db.keys[k].status # "destroyed"}

LEMMA FinishedFacts ==
  ASSUME NEW d, d = [z \in DeviceField |-> d[z]], NEW u
  PROVE  LET e == Finished(d, u)
         IN  /\ e = [z \in DeviceField |-> e[z]]
             /\ e.pc = "idle" /\ e.open = FALSE /\ e.tx = NoTx /\ e.blocked = FALSE
             /\ e.ready = d.ready /\ e.db = d.db /\ e.cnt = d.cnt /\ e.flash = Kept(d)
             /\ e.updkeys = (d.updkeys /\ u \in DOMAIN d.db.users)
<1> DEFINE s == Stopped(d)
           has == (d.updkeys /\ u \in DOMAIN d.db.users)
           no == FALSE
           m == [z \in DeviceField |-> IF z = "flash" THEN Kept(d)
                                       ELSE IF z = "updkeys" THEN has ELSE s[z]]
           e == [z \in DeviceField |-> IF z = "blocked" THEN no ELSE m[z]]
<1>1. /\ s = [z \in DeviceField |-> s[z]]
      /\ s.pc = "idle" /\ s.open = FALSE /\ s.tx = NoTx
      /\ s.ready = d.ready /\ s.db = d.db /\ s.cnt = d.cnt /\ s.flash = d.flash
      /\ s.updkeys = d.updkeys
  BY StoppedFacts
<1>2. no = FALSE
  OBVIOUS
<1>3. DOMAIN s = DeviceField
  BY <1>1
<1> HIDE DEF s
<1> DEFINE left == {k \in s.flash : /\ k \in DOMAIN s.db.keys
                                    /\ s.db.keys[k].status # "destroyed"}
           known == (s.updkeys /\ u \in DOMAIN s.db.users)
<1>4. se3_flash_maintenance_routine(s, u)
        = [z \in DOMAIN s |-> IF z = "flash" THEN left
                              ELSE IF z = "updkeys" THEN known ELSE s[z]]
  BY DEF se3_flash_maintenance_routine
<1>5. se3_flash_maintenance_routine(s, u) = m
  <2>1. left = Kept(d) /\ known = has
    BY <1>1 DEF Kept
  <2> HIDE DEF left, known, has
  <2> QED BY <1>3, <1>4, <2>1
<1>6. Finished(d, u) = [se3_flash_maintenance_routine(s, u) EXCEPT !.blocked = no]
  BY DEF Finished, s
<1>7. Finished(d, u) = [m EXCEPT !.blocked = no]
  BY <1>5, <1>6
<1>8. m = [z \in DeviceField |-> m[z]] /\ DOMAIN m = DeviceField
  OBVIOUS
<1>9. /\ m.pc = s.pc /\ m.open = s.open /\ m.tx = s.tx /\ m.ready = s.ready /\ m.db = s.db
      /\ m.cnt = s.cnt /\ m.flash = Kept(d) /\ m.updkeys = has
  BY DEF DeviceField
<1> HIDE DEF m, has, no
<1>10. Finished(d, u) = e
  BY <1>7, <1>8
<1>11. /\ e = [z \in DeviceField |-> e[z]] /\ e.blocked = no
       /\ e.pc = m.pc /\ e.open = m.open /\ e.tx = m.tx /\ e.ready = m.ready /\ e.db = m.db
       /\ e.cnt = m.cnt /\ e.flash = m.flash /\ e.updkeys = m.updkeys
  BY DEF DeviceField
<1> HIDE DEF e
<1> QED BY <1>1, <1>2, <1>9, <1>10, <1>11 DEF has

\* What follows a file: the next one, or the end of the call.
LEMMA FollowingFacts ==
  ASSUME NEW d, d = [z \in DeviceField |-> d[z]], NEW u, d.pc \in File
  PROVE  LET e == Following(d, u)
         IN  /\ e = [z \in DeviceField |-> e[z]]
             /\ e.open = FALSE /\ e.tx = NoTx /\ e.ready = d.ready /\ e.db = d.db /\ e.cnt = d.cnt
             /\ d.pc = "normal" => e = Finished(d, u)
             /\ d.pc # "normal" =>
                  /\ e.flash = d.flash /\ e.updkeys = d.updkeys /\ e.blocked = d.blocked
                  /\ e.pc = IF d.pc = "init" THEN "recovery" ELSE "normal"
<1> DEFINE s == Stopped(d)
           next == IF d.pc = "init" THEN "recovery" ELSE "normal"
           e == [z \in DeviceField |-> IF z = "pc" THEN next ELSE s[z]]
<1>1. /\ s = [z \in DeviceField |-> s[z]] /\ s.open = FALSE /\ s.tx = NoTx
      /\ s.ready = d.ready /\ s.db = d.db /\ s.cnt = d.cnt /\ s.flash = d.flash
      /\ s.updkeys = d.updkeys /\ s.blocked = d.blocked
  BY StoppedFacts
<1>2. CASE d.pc = "normal"
  <2>1. Following(d, u) = Finished(d, u)
    BY <1>2 DEF Following
  <2> DEFINE f == Finished(d, u)
  <2>2. /\ f = [z \in DeviceField |-> f[z]] /\ f.open = FALSE /\ f.tx = NoTx
        /\ f.ready = d.ready /\ f.db = d.db /\ f.cnt = d.cnt
    BY FinishedFacts
  <2>3. Following(d, u) = f
    BY <2>1
  <2> HIDE DEF f
  <2> QED BY <1>2, <2>1, <2>2, <2>3
<1>3. CASE d.pc # "normal"
  <2>1. DOMAIN s = DeviceField
    BY <1>1
  <2> HIDE DEF s
  <2>2. Following(d, u) = [s EXCEPT !.pc = next]
    BY <1>3 DEF Following, File, s
  <2> HIDE DEF next
  <2>3. Following(d, u) = e
    BY <1>1, <2>1, <2>2
  <2>4. /\ e = [z \in DeviceField |-> e[z]] /\ e.pc = next
        /\ e.open = s.open /\ e.tx = s.tx /\ e.ready = s.ready /\ e.db = s.db /\ e.cnt = s.cnt
        /\ e.flash = s.flash /\ e.updkeys = s.updkeys /\ e.blocked = s.blocked
    BY DEF DeviceField
  <2> HIDE DEF e
  <2> QED BY <1>1, <1>3, <2>3, <2>4 DEF next
<1> QED BY <1>2, <1>3

LEMMA NoTxFacts ==
  /\ NoTx = [db |-> NoTx.db, cnt |-> NoTx.cnt, todo |-> NoTx.todo]
  /\ IsDb(NoTx.db) /\ NoTx.cnt = 0 /\ IsRecords(NoTx.todo) /\ NoTx.todo = <<>> /\ IsDb(NoRows)
<1>1. IsRecords(<<>>)
  BY NoneAndOneSeq DEF IsRecords
<1> QED BY <1>1 DEF NoTx, IsDb, NoRows

LEMMA BlankDevice ==
  /\ IsDevice(Blank) /\ ~Blank.ready /\ Blank.pc = "idle" /\ ~Blank.open /\ Blank.cnt = 0
  /\ Blank.blocked /\ ~Blank.updkeys /\ Blank.flash = {} /\ Blank.db = NoRows
  /\ IsDevice(Provisioned) /\ Provisioned.ready /\ Provisioned.updkeys
  /\ Provisioned.pc = "idle" /\ ~Provisioned.open /\ Provisioned.cnt = 0
  /\ Provisioned.blocked /\ Provisioned.flash = {} /\ Provisioned.db = NoRows
<1> USE NoTxFacts
<1>1. Blank = [z \in DeviceField |-> Blank[z]] /\ Provisioned = [z \in DeviceField |-> Provisioned[z]]
  BY DEF Blank, Provisioned, DeviceField
<1>2. /\ Blank.ready = FALSE /\ Blank.pc = "idle" /\ Blank.open = FALSE /\ Blank.cnt = 0
      /\ Blank.blocked = TRUE /\ Blank.updkeys = FALSE /\ Blank.flash = {} /\ Blank.db = NoRows
      /\ Blank.tx = NoTx
  BY DEF Blank
<1>3. /\ Provisioned.ready = TRUE /\ Provisioned.updkeys = TRUE /\ Provisioned.pc = "idle"
      /\ Provisioned.open = FALSE /\ Provisioned.cnt = 0 /\ Provisioned.tx = NoTx
      /\ Provisioned.blocked = TRUE /\ Provisioned.flash = {} /\ Provisioned.db = NoRows
  BY DEF Provisioned, Blank
<1>4. "idle" \in File \cup {"idle"} /\ 0 \in Nat /\ FALSE \in BOOLEAN /\ TRUE \in BOOLEAN
  OBVIOUS
<1>5. IsDevice(Blank)
  BY <1>1, <1>2, <1>4 DEF IsDevice
<1>6. IsDevice(Provisioned)
  BY <1>1, <1>3, <1>4 DEF IsDevice
<1>7. ~Blank.ready /\ ~Blank.open /\ Blank.blocked /\ ~Blank.updkeys
  BY <1>2
<1>8. Provisioned.ready /\ Provisioned.updkeys /\ ~Provisioned.open /\ Provisioned.blocked
  BY <1>3
<1> QED BY <1>2, <1>3, <1>5, <1>6, <1>7, <1>8, Zenon

IsFiles(F) == /\ F = [f \in DOMAIN F |-> F[f]] /\ DOMAIN F \subseteq File
              /\ \A f \in DOMAIN F : IsRecords(F[f])

LEMMA WithFileFacts ==
  ASSUME NEW F, IsFiles(F), NEW f \in File, NEW q, IsRecords(q)
  PROVE  LET G == WithFile(F, f, q)
         IN  IsFiles(G) /\ DOMAIN G = DOMAIN F \cup {f} /\ G[f] = q
             /\ \A h \in DOMAIN F : h # f => G[h] = F[h]
<1> DEFINE G == WithFile(F, f, q)
<1>1. G = [h \in DOMAIN F \cup {f} |-> IF h = f THEN q ELSE F[h]]
  <2>1. DOMAIN [x \in {f} |-> q] = {f} /\ [x \in {f} |-> q][f] = q
    OBVIOUS
  <2>2. {f} \cup DOMAIN F = DOMAIN F \cup {f}
    OBVIOUS
  <2> QED BY <2>1, <2>2 DEF WithFile, Plus
<1> HIDE DEF G
<1>2. IsFiles(G) /\ DOMAIN G = DOMAIN F \cup {f} /\ G[f] = q
      /\ \A h \in DOMAIN F : h # f => G[h] = F[h]
  BY <1>1 DEF IsFiles
<1> QED BY <1>2 DEF G

LEMMA WithoutFileFacts ==
  ASSUME NEW F, IsFiles(F), NEW f
  PROVE  LET G == WithoutFile(F, f)
         IN  IsFiles(G) /\ DOMAIN G = DOMAIN F \ {f} /\ \A h \in DOMAIN G : G[h] = F[h]
<1> DEFINE G == WithoutFile(F, f)
<1>1. G = [h \in DOMAIN F \ {f} |-> F[h]]
  BY DEF WithoutFile, Drop, Restrict
<1> HIDE DEF G
<1>2. IsFiles(G) /\ DOMAIN G = DOMAIN F \ {f} /\ \A h \in DOMAIN G : G[h] = F[h]
  BY <1>1 DEF IsFiles
<1> QED BY <1>2 DEF G

LEMMA NoFilesFacts ==
  IsFiles(NoFiles) /\ DOMAIN NoFiles = {}
BY DEF IsFiles, NoFiles

-----------------------------------------------------------------------------
(* What is always so.                                                       *)

IsQueue(q) ==
  /\ IsSeq(q)
  /\ \A i \in 1..Len(q) : q[i].to \in User /\ q[i].erase \in BOOLEAN /\ IsCommand(q[i].cmd)

InitLike(u, q) == \E row \in UserRow :
  q = <<Record(0, SQL(<<Clear, Insert([x \in {u} |-> row], <<>>, {}, <<>>)>>))>>

\* The administrator's tables are whole, and files, counters and devices have their
\* shapes.
Base ==
  /\ Tidy(adm) /\ Needed(adm) \subseteq aflash
  /\ update_counter \in [User -> Nat]
  /\ recovery \subseteq User /\ forgotten \subseteq User
  /\ IsQueue(sends)
  /\ file = [u \in User |-> file[u]] /\ dev = [u \in User |-> dev[u]]
  /\ \A u \in User : /\ IsFiles(file[u]) /\ IsDevice(dev[u])
                     /\ Pending(u, "init") => InitLike(u, file[u]["init"])

\* A device at a file is through with those before it, and one that was never
\* provisioned does nothing.
FlowAt(d, F) ==
  /\ d.pc = "idle" => ~d.open
  /\ ~d.ready => d = Blank /\ "init" \notin DOMAIN F
  /\ d.pc # "idle" => d.blocked
  /\ d.open => d.pc \in DOMAIN F
  /\ d.pc = "recovery" => "init" \notin DOMAIN F
  /\ d.pc = "normal" => "init" \notin DOMAIN F /\ "recovery" \notin DOMAIN F

\* The administrator writes only while every device is idle.
Flow ==
  /\ sends # <<>> => \A u \in User : dev[u].pc = "idle"
  /\ \A u \in User : FlowAt(dev[u], file[u])

-----------------------------------------------------------------------------
(* The start.                                                               *)

LEMMA ViewIsDb ==
  ASSUME NEW db, NEW u
  PROVE  IsDb(View(db, u))
BY DEF IsDb, View

LEMMA UpToDateDevice ==
  ASSUME NEW u
  PROVE  LET d == UpToDate(u)
         IN  /\ IsDevice(d) /\ d.ready /\ d.updkeys /\ ~d.blocked /\ d.pc = "idle" /\ ~d.open
             /\ d.cnt = 0 /\ d.db = View(adm, u) /\ d.flash = DOMAIN View(adm, u).keys
<1> DEFINE view == View(adm, u)
           keys == DOMAIN view.keys
           yes == TRUE
           no == FALSE
           b == Blank
           d == [z \in DeviceField |-> IF z = "flash" THEN keys ELSE IF z = "db" THEN view
                   ELSE IF z = "blocked" THEN no ELSE IF z = "updkeys" THEN yes
                   ELSE IF z = "ready" THEN yes ELSE b[z]]
<1>1. UpToDate(u) = [z \in DOMAIN b |-> IF z = "flash" THEN keys ELSE IF z = "db" THEN view
                   ELSE IF z = "blocked" THEN no ELSE IF z = "updkeys" THEN yes
                   ELSE IF z = "ready" THEN yes ELSE b[z]]
  BY DEF UpToDate
<1>2. DOMAIN b = DeviceField
  BY DEF Blank, DeviceField
<1>3. IsDb(view)
  BY ViewIsDb
<1>4. b.pc = "idle" /\ b.open = FALSE /\ b.cnt = 0 /\ b.tx = NoTx
  BY DEF Blank
<1>5. yes = TRUE /\ no = FALSE
  OBVIOUS
<1> HIDE DEF view, keys, b, yes, no
<1>6. UpToDate(u) = d
  BY <1>1, <1>2
<1>7. /\ d = [z \in DeviceField |-> d[z]]
      /\ d.ready = yes /\ d.updkeys = yes /\ d.blocked = no /\ d.db = view /\ d.flash = keys
      /\ d.pc = b.pc /\ d.open = b.open /\ d.cnt = b.cnt /\ d.tx = b.tx
  BY DEF DeviceField
<1> HIDE DEF d
<1>8. "idle" \in File \cup {"idle"} /\ 0 \in Nat /\ FALSE \in BOOLEAN /\ TRUE \in BOOLEAN
  OBVIOUS
<1>9. IsDevice(d)
  BY <1>3, <1>4, <1>5, <1>7, <1>8, NoTxFacts DEF IsDevice
<1> QED BY <1>4, <1>5, <1>6, <1>7, <1>9 DEF view, keys

LEMMA StartTidy ==
  ASSUME NEW s \in Starts
  PROVE  /\ Tidy(StartTables(s)) /\ DOMAIN StartTables(s).users = s.users /\ s.users \subseteq User
         /\ Needed(StartTables(s)) \subseteq DOMAIN s.owner
<1> DEFINE A == StartTables(s)
           gs == {m[2] : m \in s.member}
<1>1. /\ s.users \subseteq User /\ s.member \subseteq s.users \X Group
      /\ s.owner \in [DOMAIN s.owner -> gs] /\ DOMAIN s.owner \subseteq Key
  BY SEkeyAssumption
<1>2. /\ A.users = [u \in s.users |-> [username |-> 0]] /\ A.member = s.member
      /\ A.keys = [k \in DOMAIN s.owner |-> [name |-> 0, owner |-> s.owner[k], status |-> "active"]]
      /\ A.groups = [g \in gs |->
                [name |-> 0, max_keys |-> 0, keys_liveness |-> 0,
                 users_counter |-> Cardinality({m \in s.member : m[2] = g}),
                 keys_counter |-> Cardinality({k \in DOMAIN s.owner : s.owner[k] = g})]]
      /\ IsDb(A)
  BY DEF StartTables, IsDb
<1>3. gs \subseteq Group
  BY <1>1
<1> HIDE DEF A, gs
<1>4. IsFiniteSet(s.member)
  <2>1. IsFiniteSet(User \X Group) /\ s.member \subseteq User \X Group
    BY <1>1, TablesAssumption, FS_Product
  <2> QED BY <2>1, FS_Subset
<1>5. IsFiniteSet(DOMAIN s.owner)
  BY <1>1, TablesAssumption, FS_Subset
<1>6. \A g \in gs : /\ Cardinality({m \in s.member : m[2] = g}) \in Nat
                    /\ Cardinality({k \in DOMAIN s.owner : s.owner[k] = g}) \in Nat
  <2> TAKE g \in gs
  <2>1. IsFiniteSet({m \in s.member : m[2] = g}) /\ IsFiniteSet({k \in DOMAIN s.owner : s.owner[k] = g})
    BY <1>4, <1>5, FS_Subset
  <2> QED BY <2>1, FS_CardinalityType
<1>7. AreTables(A)
  <2>1. IsTable(A.users, User, UserRow)
    BY <1>1, <1>2 DEF IsTable, UserRow
  <2>2. IsTable(A.groups, Group, GroupRow)
    <3>1. \A g \in gs : A.groups[g] \in GroupRow
      <4> TAKE g \in gs
      <4> DEFINE n == Cardinality({m \in s.member : m[2] = g})
                 c == Cardinality({k \in DOMAIN s.owner : s.owner[k] = g})
      <4>1. A.groups[g] = [name |-> 0, max_keys |-> 0, keys_liveness |-> 0,
                           users_counter |-> n, keys_counter |-> c]
        BY <1>2
      <4>2. n \in Nat /\ c \in Nat
        BY <1>6
      <4> HIDE DEF n, c
      <4> QED BY <4>1, <4>2 DEF GroupRow
    <3>2. DOMAIN A.groups = gs /\ A.groups = [g \in gs |-> A.groups[g]]
      BY <1>2
    <3> QED BY <1>3, <3>1, <3>2 DEF IsTable
  <2>3. IsTable(A.keys, Key, KeyRow)
    BY <1>1, <1>2, <1>3 DEF IsTable, KeyRow, Status
  <2>4. A.member \subseteq User \X Group
    BY <1>1, <1>2
  <2> QED BY <2>1, <2>2, <2>3, <2>4 DEF AreTables
<1>8. \A m \in A.member : m[1] \in DOMAIN A.users /\ m[2] \in DOMAIN A.groups
  BY <1>1, <1>2 DEF gs
<1>9. \A g \in DOMAIN A.groups : Counted(A, g)
  <2> TAKE g \in DOMAIN A.groups
  <2> DEFINE M == MembersOf(A, g)
             S == {m \in s.member : m[2] = g}
  <2>1. KeysOf(A, g) = {k \in DOMAIN s.owner : s.owner[k] = g}
    BY <1>2 DEF KeysOf
  <2>2. Cardinality(M) = Cardinality(S)
    <3> DEFINE f == [u \in M |-> <<u, g>>]
    <3>1. f \in Bijection(M, S)
      <4>1. f \in [M -> S]
        BY <1>2 DEF MembersOf
      <4>2. \A u, v \in M : f[u] = f[v] => u = v
        OBVIOUS
      <4>3. \A m \in S : \E u \in M : f[u] = m
        BY <1>1, <1>2 DEF MembersOf
      <4>4. DOMAIN f = M
        OBVIOUS
      <4> HIDE DEF f, M, S
      <4>5. f \in Injection(M, S)
        BY <4>1, <4>2, <4>4 DEF Injection, IsInjective
      <4>6. f \in Surjection(M, S)
        BY <4>1, <4>3 DEF Surjection
      <4> QED BY <4>5, <4>6 DEF Bijection
    <3>2. IsFiniteSet(M) /\ IsFiniteSet(S)
      <4>1. IsFiniteSet(M)
        BY <1>7, FiniteIds
      <4> QED BY <4>1, <1>4, FS_Subset
    <3> HIDE DEF M, S, f
    <3> QED BY <3>1, <3>2, FS_Bijection DEF ExistsBijection
  <2> QED BY <1>2, <2>1, <2>2 DEF Counted
<1>10. \A k \in DOMAIN A.keys : A.keys[k].owner \in DOMAIN A.groups \cup {Zombie}
  BY <1>1, <1>2
<1>11. Tidy(A)
  BY <1>2, <1>7, <1>8, <1>9, <1>10 DEF Tidy
<1>12. Needed(A) \subseteq DOMAIN s.owner
  BY <1>2 DEF Needed
<1> QED BY <1>1, <1>2, <1>11, <1>12 DEF A

LEMMA InitBase ==
  Init => Base /\ Flow
<1> SUFFICES ASSUME Init PROVE Base /\ Flow
  OBVIOUS
<1>1. PICK s \in Starts : /\ adm = StartTables(s) /\ aflash = DOMAIN s.owner
                          /\ dev = [u \in User |-> IF u \in s.users THEN UpToDate(u) ELSE Blank]
  BY DEF Init
<1>2. /\ update_counter = [u \in User |-> 0] /\ recovery = {} /\ sends = <<>>
      /\ file = [u \in User |-> NoFiles] /\ forgotten = {}
  BY DEF Init
<1>3. IsQueue(<<>>)
  BY NoneAndOneSeq DEF IsQueue
<1>4. \A u \in User : IsDevice(dev[u]) /\ dev[u].pc = "idle" /\ ~dev[u].open
                      /\ (dev[u].ready \/ dev[u] = Blank)
  BY <1>1, UpToDateDevice, BlankDevice
<1>5. \A u \in User : file[u] = NoFiles /\ IsFiles(file[u]) /\ \A f : ~Pending(u, f)
  BY <1>2, NoFilesFacts DEF Pending
<1>6. Tidy(adm) /\ Needed(adm) \subseteq aflash
  BY <1>1, StartTidy
<1>7. dev = [u \in User |-> dev[u]] /\ file = [u \in User |-> file[u]]
      /\ update_counter \in [User -> Nat]
  BY <1>1, <1>2
<1>8. Base
  BY <1>2, <1>3, <1>4, <1>5, <1>6, <1>7 DEF Base
<1>9. Flow
  <2>2. \A u \in User : FlowAt(dev[u], file[u])
    BY <1>4, <1>5 DEF FlowAt, Pending
  <2> QED BY <1>2, <2>2 DEF Flow
<1> QED BY <1>8, <1>9

-----------------------------------------------------------------------------
(* What the administrator sends.                                            *)

\* Each of S is sent its command once.
Each(q, S, cmds, e) ==
  /\ IsSeq(q)
  /\ \A i \in 1..Len(q) : q[i].to \in S /\ q[i] = Send(q[i].to, cmds[q[i].to], e)
  /\ \A i, j \in 1..Len(q) : q[i].to = q[j].to => i = j
  /\ \A x \in S : \E i \in 1..Len(q) : q[i].to = x

\* A user is taken out of the Recovery table with the last thing it is sent, and
\* only the deletion of a user costs it its row.
Orderly(q, known) ==
  \A i \in 1..Len(q) :
    /\ q[i].erase => \A j \in 1..Len(q) : j > i => q[j].to # q[i].to
    /\ q[i].to \in known => IsMild(q[i].cmd, q[i].to)

LEMMA SendFields ==
  /\ \A x, c, e : /\ Send(x, c, e).to = x /\ Send(x, c, e).cmd = c /\ Send(x, c, e).erase = e
  /\ \A x, c : Send(x, c, TRUE).erase = TRUE /\ Send(x, c, FALSE).erase = FALSE
BY DEF Send

LEMMA EachOfSet ==
  ASSUME NEW S, IsFiniteSet(S), NEW cmds, NEW e
  PROVE  LET s == SetToSeq(S)
         IN  Each([i \in DOMAIN s |-> Send(s[i], cmds[s[i]], e)], S, cmds, e)
<1> DEFINE s == SetToSeq(S)
           q == [i \in DOMAIN s |-> Send(s[i], cmds[s[i]], e)]
<1>1. /\ s \in Seq(S) /\ IsSeq(s)
      /\ \A x \in S : \E i \in 1..Len(s) : s[i] = x
      /\ \A i, j \in 1..Len(s) : s[i] = s[j] => i = j
  BY SetToSeqFacts
<1>2. Len(s) \in Nat /\ DOMAIN s = 1..Len(s)
  BY <1>1, SeqFacts
<1>3. \A i \in 1..Len(s) : s[i] \in S
  BY <1>1
<1> HIDE DEF s
<1>4. q = [i \in 1..Len(s) |-> q[i]] /\ \A i \in 1..Len(s) : q[i] = Send(s[i], cmds[s[i]], e)
  BY <1>2
<1> HIDE DEF q
<1>5. IsSeq(q) /\ Len(q) = Len(s)
  BY <1>2, <1>4, SeqIndexed
<1>6. \A i \in 1..Len(q) : q[i].to = s[i]
  BY <1>4, <1>5, SendFields
<1>7. \A i \in 1..Len(q) : q[i].to \in S /\ q[i] = Send(q[i].to, cmds[q[i].to], e)
  BY <1>3, <1>4, <1>5, <1>6
<1>8. \A i, j \in 1..Len(q) : q[i].to = q[j].to => i = j
  BY <1>1, <1>5, <1>6
<1>9. \A x \in S : \E i \in 1..Len(q) : q[i].to = x
  BY <1>1, <1>5, <1>6
<1>10. Each(q, S, cmds, e)
  BY <1>5, <1>7, <1>8, <1>9 DEF Each
<1> QED BY <1>10 DEF q, s

LEMMA SendAllEach ==
  ASSUME NEW S, IsFiniteSet(S), NEW c, NEW e
  PROVE  Each(SendAll(S, c, e), S, [x \in S |-> c], e)
<1> DEFINE s == SetToSeq(S)
           cmds == [x \in S |-> c]
           q == [i \in DOMAIN s |-> Send(s[i], cmds[s[i]], e)]
<1>1. Each(q, S, cmds, e)
  BY EachOfSet
<1>2. s \in Seq(S) /\ IsSeq(s)
  BY SetToSeqFacts
<1>3. \A i \in DOMAIN s : s[i] \in S
  BY <1>2, SeqFacts
<1>4. \A i \in DOMAIN s : cmds[s[i]] = c
  BY <1>3
<1>5. SendAll(S, c, e) = [i \in DOMAIN s |-> Send(s[i], c, e)]
  BY DEF SendAll
<1> HIDE DEF s, cmds
<1>6. SendAll(S, c, e) = q
  BY <1>4, <1>5
<1> HIDE DEF q
<1> QED BY <1>1, <1>6 DEF cmds

LEMMA EachQueue ==
  ASSUME NEW q, NEW S \in SUBSET User, NEW cmds, NEW e \in BOOLEAN, Each(q, S, cmds, e), NEW known,
         \A x \in S : IsCommand(cmds[x]) /\ (x \in known => IsMild(cmds[x], x))
  PROVE  IsQueue(q) /\ Orderly(q, known)
<1>1. /\ IsSeq(q)
      /\ \A i \in 1..Len(q) : q[i].to \in S /\ q[i] = Send(q[i].to, cmds[q[i].to], e)
      /\ \A i, j \in 1..Len(q) : q[i].to = q[j].to => i = j
  BY DEF Each
<1>2. \A i \in 1..Len(q) : q[i].to \in S /\ q[i].cmd = cmds[q[i].to] /\ q[i].erase = e
  BY <1>1, SendFields
<1>3. IsQueue(q)
  BY <1>1, <1>2 DEF IsQueue
<1>4. Orderly(q, known)
  <2> SUFFICES ASSUME NEW i \in 1..Len(q)
               PROVE  /\ \A j \in 1..Len(q) : j > i => q[j].to # q[i].to
                      /\ q[i].to \in known => IsMild(q[i].cmd, q[i].to)
    BY DEF Orderly
  <2>1. \A j \in 1..Len(q) : j > i => q[j].to # q[i].to
    <3> TAKE j \in 1..Len(q)
    <3>1. Len(q) \in Nat
      BY <1>1, SeqFacts
    <3>2. q[i].to = q[j].to => i = j
      BY <1>1
    <3> QED BY <3>1, <3>2
  <2>2. q[i].to \in known => IsMild(q[i].cmd, q[i].to)
    BY <1>2
  <2> QED BY <2>1, <2>2
<1> QED BY <1>3, <1>4

\* The same user gets a number of commands.
ToOne(q, u) ==
  /\ IsSeq(q)
  /\ \A i \in 1..Len(q) : q[i] = Send(u, q[i].cmd, FALSE) /\ IsMild(q[i].cmd, u)

LEMMA ToOneQueue ==
  ASSUME NEW q, NEW u \in User, ToOne(q, u), NEW known
  PROVE  IsQueue(q) /\ Orderly(q, known) /\ \A i \in 1..Len(q) : q[i].to = u /\ q[i].erase = FALSE
<1>1. \A i \in 1..Len(q) : q[i].to = u /\ q[i].erase = FALSE /\ IsMild(q[i].cmd, u)
  <2> TAKE i \in 1..Len(q)
  <2>1. q[i] = Send(u, q[i].cmd, FALSE) /\ IsMild(q[i].cmd, u)
    BY DEF ToOne
  <2> DEFINE c == q[i].cmd
  <2>2. q[i] = Send(u, c, FALSE)
    BY <2>1
  <2> HIDE DEF c
  <2>3. Send(u, c, FALSE).to = u /\ Send(u, c, FALSE).erase = FALSE
    BY SendFields, ZenonT(60)
  <2> QED BY <2>1, <2>2, <2>3
<1>2. \A i \in 1..Len(q) : IsCommand(q[i].cmd)
  BY <1>1 DEF IsMild
<1> QED BY <1>1, <1>2 DEF ToOne, IsQueue, Orderly

LEMMA OneSend ==
  ASSUME NEW u \in User, NEW c, IsCommand(c), NEW known, u \in known => IsMild(c, u)
  PROVE  LET q == <<Send(u, c, TRUE)>>
         IN  IsQueue(q) /\ Orderly(q, known) /\ Len(q) = 1 /\ q[1] = Send(u, c, TRUE)
<1> DEFINE s == Send(u, c, TRUE)
           q == <<s>>
<1>1. Len(q) = 1 /\ q[1] = s /\ IsSeq(q)
  BY NoneAndOneSeq
<1>2. s.to = u /\ s.cmd = c /\ s.erase = TRUE
  <2>1. s.to = u /\ s.cmd = c
    BY DEF Send
  <2>2. s.erase = TRUE
    BY SendFields
  <2> QED BY <2>1, <2>2
<1> HIDE DEF s, q
<1>3. \A i \in 1..Len(q) : i = 1 /\ q[i] = s
  BY <1>1
<1>4. IsQueue(q)
  BY <1>1, <1>2, <1>3 DEF IsQueue
<1>5. Orderly(q, known)
  <2>1. \A i, j \in 1..Len(q) : ~(j > i)
    BY <1>1
  <2> QED BY <1>2, <1>3, <2>1 DEF Orderly
<1> QED BY <1>1, <1>4, <1>5 DEF s, q

LEMMA QueueConcat ==
  ASSUME NEW p, NEW q, NEW known, IsQueue(p), IsQueue(q), Orderly(p, known), Orderly(q, known),
         \A i \in 1..Len(p) : \A j \in 1..Len(q) : p[i].erase => p[i].to # q[j].to
  PROVE  IsQueue(p \o q) /\ Orderly(p \o q, known)
<1> DEFINE r == p \o q
<1>1. IsSeq(p) /\ IsSeq(q) /\ Len(p) \in Nat /\ Len(q) \in Nat
  BY SeqFacts DEF IsQueue
<1>2. /\ IsSeq(r) /\ Len(r) = Len(p) + Len(q)
      /\ \A i \in 1..Len(p) : r[i] = p[i]
      /\ \A i \in 1..Len(q) : r[Len(p) + i] = q[i]
  BY <1>1, ConcatSeq
<1> HIDE DEF r
<1>3. \A i \in 1..Len(r) : \/ i \in 1..Len(p) /\ r[i] = p[i]
                           \/ \E j \in 1..Len(q) : i = Len(p) + j /\ r[i] = q[j]
  <2> TAKE i \in 1..Len(r)
  <2>1. CASE i <= Len(p)
    BY <1>1, <1>2, <2>1
  <2>2. CASE i > Len(p)
    <3>1. i - Len(p) \in 1..Len(q) /\ i = Len(p) + (i - Len(p))
      BY <1>1, <1>2, <2>2
    <3> QED BY <1>2, <3>1
  <2> QED BY <1>1, <2>1, <2>2
<1>4. IsQueue(r)
  BY <1>2, <1>3 DEF IsQueue
<1>5. ASSUME NEW i \in 1..Len(r), r[i].erase, NEW j \in 1..Len(r), j > i
      PROVE  r[j].to # r[i].to
  <2>1. CASE i \in 1..Len(p) /\ r[i] = p[i]
    <3>1. CASE j \in 1..Len(p) /\ r[j] = p[j]
      BY <1>5, <2>1, <3>1 DEF Orderly
    <3>2. ASSUME NEW l \in 1..Len(q), r[j] = q[l] PROVE r[j].to # r[i].to
      BY <1>5, <2>1, <3>2
    <3> QED BY <1>3, <3>1, <3>2
  <2>2. ASSUME NEW k \in 1..Len(q), i = Len(p) + k, r[i] = q[k] PROVE r[j].to # r[i].to
    <3>1. PICK l \in 1..Len(q) : j = Len(p) + l /\ r[j] = q[l]
      BY <1>1, <1>3, <1>5, <2>2
    <3>2. l > k
      BY <1>1, <1>5, <2>2, <3>1
    <3> QED BY <1>5, <2>2, <3>1, <3>2 DEF Orderly
  <2> QED BY <1>3, <2>1, <2>2
<1>6. \A i \in 1..Len(r) : r[i].to \in known => IsMild(r[i].cmd, r[i].to)
  BY <1>3 DEF Orderly
<1>7. Orderly(r, known)
  BY <1>5, <1>6 DEF Orderly
<1> QED BY <1>4, <1>7 DEF r

LEMMA NoQueue ==
  ASSUME NEW known
  PROVE  IsQueue(<<>>) /\ Orderly(<<>>, known)
BY NoneAndOneSeq DEF IsQueue, Orderly

-----------------------------------------------------------------------------
(* The calls that commit a change.                                          *)

\* The Recovery table is empty, or the check for expired keys has filled it.
Settled == recovery = {} \/ expiring

\* What all of them do with a transaction.
Committing(new, queue) ==
  /\ sends = <<>> /\ Settled /\ Free
  /\ Transaction(new, queue)
  /\ recovery \cap Recipients(queue) \subseteq forgotten'

\* The transaction of one UPDATE.
Changing(s, S) == Committing(After(adm, s), SendAll(S, SQL(<<s>>), TRUE))

Changed ==
  /\ sends = <<>> /\ Settled /\ Free
  /\ UNCHANGED <<update_counter, file, dev>>
  /\ Tidy(adm') /\ Needed(adm') \subseteq aflash'
  /\ DOMAIN adm'.users \subseteq DOMAIN adm.users
  /\ IsQueue(sends') /\ Orderly(sends', DOMAIN adm'.users)
  /\ recovery' = recovery \cup {sends'[i].to : i \in DOMAIN sends'}
  /\ recovery \cap {sends'[i].to : i \in DOMAIN sends'} \subseteq forgotten'
  /\ forgotten \subseteq forgotten' /\ forgotten' \subseteq User

LEMMA CommitFacts ==
  ASSUME NEW new, NEW queue
  PROVE  /\ Commit(new, queue) => Committing(new, queue)
         /\ CommitChecked(new, queue) =>
              Committing(new, queue) /\ forgotten' = forgotten \cup (recovery \cap Recipients(queue))
         /\ sends = <<>> /\ recovery = {} /\ Free /\ Transaction(new, queue) =>
              Committing(new, queue)
BY DEF Commit, CommitChecked, Call, Ready, Committing, Settled

LEMMA CommittingFacts ==
  ASSUME NEW new, NEW queue, Committing(new, queue)
  PROVE  /\ sends = <<>> /\ Settled /\ Free /\ adm' = new /\ sends' = queue
         /\ UNCHANGED <<update_counter, file, dev>>
         /\ recovery' = recovery \cup {queue[i].to : i \in DOMAIN queue}
         /\ recovery \cap {queue[i].to : i \in DOMAIN queue} \subseteq forgotten'
BY DEF Committing, Transaction, Recipients

LEMMA MildCommands ==
  /\ \A v, u, g : IsMild(DelFromGroup(u, g), v) /\ IsMild(DelGroup(g), v)
  /\ \A v, u : v # u => IsMild(DelUser(u), v)
  /\ \A v, k : IsMild(KeyData(k), v)
  /\ \A v, s : IsStatement(s) /\ s.do # "clear" => IsMild(SQL(<<s>>), v)
  /\ \A v, s, t : /\ IsStatement(s) /\ IsStatement(t) /\ s.do # "clear" /\ t.do # "clear"
                  => IsMild(SQL(<<s, t>>), v)
  /\ \A v, s, t, r : /\ IsStatement(s) /\ IsStatement(t) /\ IsStatement(r)
                     /\ s.do # "clear" /\ t.do # "clear" /\ r.do # "clear"
                     => IsMild(SQL(<<s, t, r>>), v)
  /\ \A u : IsCommand(DelUser(u))
<1>1. /\ \A u, g : DelFromGroup(u, g).type = "DELETE_USER_FROM_GROUP" /\ DelGroup(g).type = "DELETE_GROUP"
      /\ \A u : DelUser(u).type = "DELETE_USER" /\ DelUser(u).user = u
      /\ \A k : KeyData(k).type = "KEY_DATA"
      /\ \A t : SQL(t).type = "SQL_QUERY" /\ SQL(t).text = t
  BY DEF DelFromGroup, DelGroup, DelUser, KeyData, SQL
<1>2. \A v, u, g : IsMild(DelFromGroup(u, g), v) /\ IsMild(DelGroup(g), v)
  BY <1>1, FewCommands DEF IsMild
<1>3. \A v, u : v # u => IsMild(DelUser(u), v)
  BY <1>1, FewCommands DEF IsMild
<1>4. \A v, k : IsMild(KeyData(k), v)
  BY <1>1, FewCommands DEF IsMild
<1>5. \A v, s : IsStatement(s) /\ s.do # "clear" => IsMild(SQL(<<s>>), v)
  <2> TAKE v, s
  <2> HAVE IsStatement(s) /\ s.do # "clear"
  <2>1. IsCommand(SQL(<<s>>))
    BY FewCommands
  <2>2. \A i \in 1..Len(<<s>>) : <<s>>[i].do # "clear"
    OBVIOUS
  <2> QED BY <1>1, <2>1, <2>2 DEF IsMild
<1>6. \A v, s, t : /\ IsStatement(s) /\ IsStatement(t) /\ s.do # "clear" /\ t.do # "clear"
                   => IsMild(SQL(<<s, t>>), v)
  <2> TAKE v, s, t
  <2> HAVE IsStatement(s) /\ IsStatement(t) /\ s.do # "clear" /\ t.do # "clear"
  <2>1. IsCommand(SQL(<<s, t>>))
    BY FewCommands
  <2>2. \A i \in 1..Len(<<s, t>>) : <<s, t>>[i].do # "clear"
    OBVIOUS
  <2> QED BY <1>1, <2>1, <2>2 DEF IsMild
<1>7. \A v, s, t, r : /\ IsStatement(s) /\ IsStatement(t) /\ IsStatement(r)
                      /\ s.do # "clear" /\ t.do # "clear" /\ r.do # "clear"
                      => IsMild(SQL(<<s, t, r>>), v)
  <2> TAKE v, s, t, r
  <2> HAVE /\ IsStatement(s) /\ IsStatement(t) /\ IsStatement(r)
           /\ s.do # "clear" /\ t.do # "clear" /\ r.do # "clear"
  <2>1. IsCommand(SQL(<<s, t, r>>))
    BY FewCommands
  <2>2. \A i \in 1..Len(<<s, t, r>>) : <<s, t, r>>[i].do # "clear"
    OBVIOUS
  <2> QED BY <1>1, <2>1, <2>2 DEF IsMild
<1> QED BY <1>2, <1>3, <1>4, <1>5, <1>6, <1>7, FewCommands

LEMMA StatementKinds ==
  /\ \A a, b, c, d : IsStatement(Insert(a, b, c, d)) /\ Insert(a, b, c, d).do = "insert"
  /\ \A a, b, c : IsStatement(Count(a, b, c)) /\ Count(a, b, c).do = "count"
  /\ \A t \in {"users", "groups", "keys"} : \A a, b, c :
       IsStatement(Set(t, a, b, c)) /\ Set(t, a, b, c).do = "set"
<1>1. \A a, b, c : IsStatement(Count(a, b, c)) /\ Count(a, b, c).do = "count"
  BY DEF IsStatement, Count
<1>2. \A t \in {"users", "groups", "keys"} : \A a, b, c :
       IsStatement(Set(t, a, b, c)) /\ Set(t, a, b, c).do = "set"
  BY DEF IsStatement, Set
<1> QED BY <1>1, <1>2, InsertIsStatement

\* One statement or request for each of a set of users.
LEMMA TellAll ==
  ASSUME NEW S \in SUBSET User, NEW c, NEW e \in BOOLEAN, NEW known, IsCommand(c),
         \A x \in S : x \in known => IsMild(c, x)
  PROVE  LET q == SendAll(S, c, e)
         IN  /\ IsQueue(q) /\ Orderly(q, known) /\ Each(q, S, [x \in S |-> c], e)
             /\ \A i \in 1..Len(q) : q[i].to \in S
<1> DEFINE q == SendAll(S, c, e)
           cmds == [x \in S |-> c]
<1>1. IsFiniteSet(S)
  BY TablesAssumption, FS_Subset
<1>2. Each(q, S, cmds, e)
  BY <1>1, SendAllEach
<1>3. \A x \in S : IsCommand(cmds[x]) /\ (x \in known => IsMild(cmds[x], x))
  OBVIOUS
<1> HIDE DEF q, cmds
<1>4. IsQueue(q) /\ Orderly(q, known)
  BY <1>2, <1>3, EachQueue
<1>5. \A i \in 1..Len(q) : q[i].to \in S
  BY <1>2 DEF Each
<1> QED BY <1>2, <1>4, <1>5 DEF q, cmds

LEMMA ChangedByCommit ==
  ASSUME NEW new, NEW queue, Committing(new, queue), Tidy(new), Needed(new) \subseteq aflash',
         DOMAIN new.users \subseteq DOMAIN adm.users,
         IsQueue(queue), Orderly(queue, DOMAIN new.users),
         forgotten \subseteq forgotten', forgotten' \subseteq User
  PROVE  Changed
BY CommittingFacts DEF Changed

LEMMA SameKeysNeeded ==
  ASSUME NEW A, NEW B, A.keys = B.keys
  PROVE  Needed(A) = Needed(B)
BY DEF Needed

LEMMA AddGroupChanges ==
  ASSUME Base, NEW g \in Group, sekey_add_group(g)
  PROVE  Changed
<1> DEFINE t == Plus(adm.groups, [x \in {g} |->
                  [name |-> 0, users_counter |-> 0, keys_counter |-> 0, max_keys |-> 0,
                   keys_liveness |-> 0]])
           new == [adm EXCEPT !.groups = t]
<1>1. /\ Committing(new, <<>>) /\ UNCHANGED <<aflash, forgotten>> /\ g \notin DOMAIN adm.groups
  BY CommitFacts DEF sekey_add_group
<1>2. Tidy(adm) /\ Needed(adm) \subseteq aflash /\ forgotten \subseteq User
  BY DEF Base
<1>3. Tidy(new) /\ new.users = adm.users /\ new.keys = adm.keys
  BY <1>1, <1>2, TidyAddGroup
<1> HIDE DEF t, new
<1>4. IsQueue(<<>>) /\ Orderly(<<>>, DOMAIN new.users)
  BY NoQueue
<1>5. Needed(new) \subseteq aflash'
  BY <1>1, <1>2, <1>3, SameKeysNeeded
<1> QED BY <1>1, <1>2, <1>3, <1>4, <1>5, ChangedByCommit

LEMMA ChangeChanges ==
  ASSUME NEW s, NEW S \in SUBSET User, Changing(s, S), IsStatement(s), s.do = "set",
         Tidy(After(adm, s)), Needed(After(adm, s)) \subseteq aflash',
         DOMAIN After(adm, s).users \subseteq DOMAIN adm.users,
         forgotten \subseteq forgotten', forgotten' \subseteq User
  PROVE  Changed
<1> DEFINE new == After(adm, s)
           q == SendAll(S, SQL(<<s>>), TRUE)
<1>1. Committing(new, q)
  BY DEF Changing
<1>2. IsCommand(SQL(<<s>>)) /\ \A x \in S : IsMild(SQL(<<s>>), x)
  BY FewCommands, MildCommands
<1>3. TRUE \in BOOLEAN
  OBVIOUS
<1>4. IsQueue(q) /\ Orderly(q, DOMAIN new.users)
  BY <1>2, <1>3, TellAll
<1> HIDE DEF q
<1> QED BY <1>1, <1>4, ChangedByCommit

LEMMA ChangeUserChanges ==
  ASSUME Base, NEW u \in User, sekey_user_change_name(u)
  PROVE  Changed
<1> DEFINE s == Set("users", u, "username", 1)
           B == After(adm, s)
<1>1. /\ Changing(s, Peers(adm, u)) /\ u \in DOMAIN adm.users
      /\ forgotten \subseteq forgotten' /\ forgotten' \subseteq forgotten \cup {u} /\ aflash' = aflash
  BY CommitFacts DEF sekey_user_change_name, Change, Changing, Present
<1>2. Tidy(adm) /\ Needed(adm) \subseteq aflash /\ forgotten \subseteq User
  BY DEF Base
<1>3. Tidy(B) /\ B.keys = adm.keys /\ DOMAIN B.users = DOMAIN adm.users
  <2>1. Tidy(B) /\ B.keys = adm.keys /\ B.users = [adm.users EXCEPT ![u] = [username |-> 1]]
    BY <1>1, <1>2, TidySetUser
  <2> HIDE DEF B
  <2> QED BY <2>1
<1>4. IsStatement(s) /\ s.do = "set"
  BY StatementKinds
<1>5. Peers(adm, u) \subseteq User
  BY <1>2, FiniteIds DEF Tidy
<1> HIDE DEF s
<1>6. Needed(B) \subseteq aflash'
  BY <1>1, <1>2, <1>3, SameKeysNeeded
<1>7. DOMAIN B.users \subseteq DOMAIN adm.users /\ forgotten' \subseteq User
  BY <1>1, <1>2, <1>3
<1> QED BY <1>1, <1>3, <1>4, <1>5, <1>6, <1>7, ChangeChanges

LEMMA ChangeGroupChanges ==
  ASSUME Base, NEW g \in Group, NEW c \in GroupColumn, GroupChange(g, c)
  PROVE  Changed
<1> DEFINE s == Set("groups", g, c, 1)
           B == After(adm, s)
<1>1. /\ Changing(s, MembersOf(adm, g)) /\ g \in DOMAIN adm.groups
      /\ forgotten' = forgotten /\ aflash' = aflash
  BY CommitFacts DEF GroupChange, Change, Changing
<1>2. Tidy(adm) /\ Needed(adm) \subseteq aflash /\ forgotten \subseteq User
  BY DEF Base
<1>3. Tidy(B) /\ B.keys = adm.keys /\ B.users = adm.users
  BY <1>1, <1>2, TidySetGroup, ZenonT(60)
<1>4. IsStatement(s) /\ s.do = "set"
  BY StatementKinds
<1>5. MembersOf(adm, g) \subseteq User
  BY <1>2, FiniteIds DEF Tidy
<1> HIDE DEF s
<1>6. Needed(B) \subseteq aflash'
  BY <1>1, <1>2, <1>3, SameKeysNeeded
<1> QED BY <1>1, <1>2, <1>3, <1>4, <1>5, <1>6, ChangeChanges

LEMMA ChangeKeyChanges ==
  ASSUME Base, NEW k \in Key, NEW c, NEW value, k \in DOMAIN adm.keys,
         (c = "name" /\ value = 1) \/ (c = "status" /\ value \in Status),
         Changing(Set("keys", k, c, value), OwnersUsers(k)),
         forgotten \subseteq forgotten', forgotten' \subseteq User,
         aflash' = IF c = "status" /\ value = "destroyed" THEN aflash \ {k} ELSE aflash,
         c = "status" => adm.keys[k].status # "destroyed"
  PROVE  Changed
<1> DEFINE s == Set("keys", k, c, value)
           B == After(adm, s)
<1>1. Changing(s, OwnersUsers(k))
  OBVIOUS
<1>2. Tidy(adm) /\ Needed(adm) \subseteq aflash /\ forgotten \subseteq User
  BY DEF Base
<1>3. /\ Tidy(B) /\ B.users = adm.users /\ DOMAIN B.keys = DOMAIN adm.keys
      /\ B.keys[k].status = IF c = "status" THEN value ELSE adm.keys[k].status
      /\ \A x \in DOMAIN adm.keys : x # k => B.keys[x] = adm.keys[x]
  <2>1. /\ Tidy(B) /\ B.users = adm.users /\ B.keys = [adm.keys EXCEPT ![k][c] = value]
        /\ B.keys[k].status = IF c = "status" THEN value ELSE adm.keys[k].status
    <3>1. (c = "name" /\ value = 1) \/ (c = "status" /\ value \in Status)
      OBVIOUS
    <3>2. KeySet(adm, k, c, value, B)
      BY ONLY <1>2, <3>1, k \in DOMAIN adm.keys, TidySetKey
    <3> QED BY <3>2 DEF KeySet
  <2> HIDE DEF B
  <2> QED BY <2>1
<1>4. IsStatement(s) /\ s.do = "set"
  BY StatementKinds
<1>5. OwnersUsers(k) \subseteq User
  BY <1>2, FiniteIds DEF Tidy, OwnersUsers
<1> HIDE DEF s, B
<1>6. Needed(B) \subseteq aflash'
  <2> SUFFICES ASSUME NEW x \in Needed(B) PROVE x \in aflash'
    OBVIOUS
  <2>1. x \in DOMAIN adm.keys /\ B.keys[x].status # "destroyed"
    BY <1>3 DEF Needed
  <2>2. CASE x = k
    BY <1>2, <1>3, <2>1, <2>2 DEF Needed
  <2>3. CASE x # k
    BY <1>2, <1>3, <2>1, <2>3 DEF Needed
  <2> QED BY <2>2, <2>3
<1>7. Tidy(After(adm, s)) /\ After(adm, s).users = adm.users /\ Needed(After(adm, s)) \subseteq aflash'
  BY <1>3, <1>6 DEF B
<1> QED BY <1>1, <1>2, <1>4, <1>5, <1>7, ChangeChanges

LEMMA NotDestroyed ==
  ASSUME NEW s, NEW t, check_key_transition_validity(s, t)
  PROVE  s # "destroyed"
BY DEF check_key_transition_validity

LEMMA LeaveChanges ==
  ASSUME Base, NEW u \in User, NEW g \in Group, sekey_delete_user_group(u, g)
  PROVE  Changed
<1> DEFINE new == [adm EXCEPT !.member = @ \ {<<u, g>>}, !.groups[g].users_counter = @ - 1]
           S == MembersOf(adm, g) \ {u}
           p == SendAll(S, DelFromGroup(u, g), TRUE)
           q == <<Send(u, DelFromGroup(u, g), TRUE)>>
<1>1. /\ Committing(new, p \o q) /\ UNCHANGED <<aflash, forgotten>>
      /\ g \in DOMAIN adm.groups /\ <<u, g>> \in adm.member
  BY CommitFacts DEF sekey_delete_user_group
<1>2. Tidy(adm) /\ Needed(adm) \subseteq aflash /\ forgotten \subseteq User
  BY DEF Base
<1>3. Tidy(new) /\ new.users = adm.users /\ new.keys = adm.keys
  <2>1. new = LessMember(adm, u, g)
    BY DEF LessMember
  <2> HIDE DEF new
  <2>2. Tidy(LessMember(adm, u, g)) /\ LessMember(adm, u, g).users = adm.users
        /\ LessMember(adm, u, g).keys = adm.keys
    BY <1>1, <1>2, TidyLeave
  <2> QED BY <2>1, <2>2
<1> HIDE DEF new
<1>4. S \in SUBSET User /\ u \notin S
  BY <1>2, FiniteIds DEF Tidy
<1>5. IsCommand(DelFromGroup(u, g)) /\ \A x : IsMild(DelFromGroup(u, g), x)
  BY FewCommands, MildCommands
<1>6. IsQueue(p) /\ Orderly(p, DOMAIN new.users) /\ \A i \in 1..Len(p) : p[i].to \in S
  <2>1. TRUE \in BOOLEAN
    OBVIOUS
  <2> HIDE DEF S
  <2> QED BY <1>4, <1>5, <2>1, TellAll
<1>7. IsQueue(q) /\ Orderly(q, DOMAIN new.users) /\ \A i \in 1..Len(q) : q[i].to = u
  <2> DEFINE s == Send(u, DelFromGroup(u, g), TRUE)
  <2>1. IsQueue(q) /\ Orderly(q, DOMAIN new.users) /\ Len(q) = 1 /\ q[1] = s
    BY <1>5, OneSend
  <2>2. s.to = u
    BY DEF Send
  <2> HIDE DEF s, q
  <2> QED BY <2>1, <2>2
<1> HIDE DEF p, q, S
<1>8. IsQueue(p \o q) /\ Orderly(p \o q, DOMAIN new.users)
  BY <1>4, <1>6, <1>7, QueueConcat
<1>9. Needed(new) \subseteq aflash'
  BY <1>1, <1>2, <1>3, SameKeysNeeded
<1> QED BY <1>1, <1>2, <1>3, <1>8, <1>9, ChangedByCommit

LEMMA DeleteUserChanges ==
  ASSUME Base, NEW u \in User, sekey_delete_user(u)
  PROVE  Changed
<1> DEFINE new == [adm EXCEPT
                    !.groups = [g \in DOMAIN adm.groups |->
                                 IF <<u, g>> \in adm.member
                                   THEN [adm.groups[g] EXCEPT !.users_counter = @ - 1]
                                   ELSE adm.groups[g]],
                    !.users = Drop(@, {u}),
                    !.member = {m \in @ : m[1] # u}]
           S == Peers(adm, u) \ {u}
           p == SendAll(S, DelUser(u), TRUE)
           q == <<Send(u, DelUser(u), TRUE)>>
<1>1. Committing(new, p \o q) /\ UNCHANGED <<aflash, forgotten>>
  BY CommitFacts DEF sekey_delete_user
<1>2. Tidy(adm) /\ Needed(adm) \subseteq aflash /\ forgotten \subseteq User
  BY DEF Base
<1>3. /\ Tidy(new) /\ new.users = Drop(adm.users, {u}) /\ new.keys = adm.keys
  <2>1. new = LessUser(adm, u)
    BY DEF LessUser
  <2> HIDE DEF new
  <2> QED BY <1>2, <2>1, TidyDeleteUser DEF UserGone
<1> HIDE DEF new
<1>4. DOMAIN new.users = DOMAIN adm.users \ {u}
  BY <1>3 DEF Drop, Restrict
<1>5. S \in SUBSET User /\ u \notin S
  BY <1>2, FiniteIds DEF Tidy
<1>6. IsCommand(DelUser(u)) /\ \A x \in S : IsMild(DelUser(u), x)
  BY FewCommands, MildCommands
<1>7. IsQueue(p) /\ Orderly(p, DOMAIN new.users) /\ \A i \in 1..Len(p) : p[i].to \in S
  <2>1. TRUE \in BOOLEAN
    OBVIOUS
  <2> HIDE DEF S
  <2> QED BY <1>5, <1>6, <2>1, TellAll
<1>8. IsQueue(q) /\ Orderly(q, DOMAIN new.users) /\ \A i \in 1..Len(q) : q[i].to = u
  <2> DEFINE s == Send(u, DelUser(u), TRUE)
  <2>1. IsQueue(q) /\ Orderly(q, DOMAIN new.users) /\ Len(q) = 1 /\ q[1] = s
    BY <1>4, <1>6, OneSend
  <2>2. s.to = u
    BY DEF Send
  <2> HIDE DEF s, q
  <2> QED BY <2>1, <2>2
<1> HIDE DEF p, q, S
<1>9. IsQueue(p \o q) /\ Orderly(p \o q, DOMAIN new.users)
  BY <1>5, <1>7, <1>8, QueueConcat
<1>10. Needed(new) \subseteq aflash' /\ DOMAIN new.users \subseteq DOMAIN adm.users
  BY <1>1, <1>2, <1>3, <1>4, SameKeysNeeded
<1> QED BY <1>1, <1>2, <1>3, <1>9, <1>10, ChangedByCommit

LEMMA DeleteGroupChanges ==
  ASSUME Base, NEW g \in Group, sekey_delete_group(g)
  PROVE  Changed
<1> DEFINE new == [adm EXCEPT !.groups = Drop(@, {g}),
                        !.member = {m \in @ : m[2] # g},
                        !.keys = [k \in DOMAIN @ |-> IF @[k].owner = g
                                                       THEN [@[k] EXCEPT !.owner = Zombie]
                                                       ELSE @[k]]]
           S == MembersOf(adm, g)
           q == SendAll(S, DelGroup(g), TRUE)
<1>1. Committing(new, q) /\ UNCHANGED <<aflash, forgotten>> /\ g \in DOMAIN adm.groups
  BY CommitFacts DEF sekey_delete_group
<1>2. Tidy(adm) /\ Needed(adm) \subseteq aflash /\ forgotten \subseteq User
  BY DEF Base
<1>3. Tidy(new) /\ new.users = adm.users /\ Needed(new) = Needed(adm)
  BY <1>1, <1>2, TidyDeleteGroup, ZenonT(60)
<1> HIDE DEF new
<1>4. S \in SUBSET User
  BY <1>2, FiniteIds DEF Tidy
<1>5. IsCommand(DelGroup(g)) /\ \A x : IsMild(DelGroup(g), x)
  BY FewCommands, MildCommands
<1>6. IsQueue(q) /\ Orderly(q, DOMAIN new.users)
  <2>1. TRUE \in BOOLEAN
    OBVIOUS
  <2> HIDE DEF S
  <2> QED BY <1>4, <1>5, <2>1, TellAll
<1> HIDE DEF q, S
<1>7. Needed(new) \subseteq aflash'
  BY <1>1, <1>2, <1>3
<1> QED BY <1>1, <1>2, <1>3, <1>6, <1>7, ChangedByCommit

LEMMA AddKeyChanges ==
  ASSUME Base, NEW k \in Key, NEW g \in Group, sekey_add_key(k, g)
  PROVE  \/ Changed
         \/ /\ UNCHANGED <<adm, update_counter, recovery, sends, file, dev, forgotten>>
            /\ aflash \subseteq aflash' /\ expiring' = FALSE
<1> DEFINE row == [name |-> 0, owner |-> g, status |-> "preactive"]
           s == Insert(<<>>, <<>>, {}, [x \in {k} |-> row])
           t == Count("keys_counter", g, 1)
           new == After(After(adm, s), t)
           S == MembersOf(adm, g)
           p == SendAll(S, SQL(<<s, t>>), FALSE)
           q == SendAll(S, KeyData(k), TRUE)
<1>1. /\ aflash' = aflash \cup {k} /\ forgotten' = forgotten
      /\ k \notin DOMAIN adm.keys /\ g \in DOMAIN adm.groups
      /\ \/ Committing(After(After(adm, <<s, t>>[1]), <<s, t>>[2]), p \o q)
         \/ expiring' = FALSE /\ UNCHANGED <<adm, update_counter, recovery, sends, file, dev>>
  BY CommitFacts DEF sekey_add_key, Call
<1>2. Tidy(adm) /\ Needed(adm) \subseteq aflash /\ forgotten \subseteq User
  BY DEF Base
<1>3. Tidy(new) /\ new.users = adm.users /\ Needed(new) = Needed(adm) \cup {k}
  <2>1. new = MoreKey(adm, k, g)
    BY DEF MoreKey
  <2> HIDE DEF new
  <2> QED BY <1>1, <1>2, <2>1, TidyAddKey, ZenonT(30) DEF KeyAdded
<1>4. <<s, t>>[1] = s /\ <<s, t>>[2] = t
  OBVIOUS
<1>5. /\ IsStatement(s) /\ IsStatement(t) /\ s.do # "clear" /\ t.do # "clear"
  <2>1. /\ IsStatement(s) /\ IsStatement(t) /\ s.do = "insert" /\ t.do = "count"
    BY StatementKinds
  <2> HIDE DEF s, t
  <2> QED BY <2>1
<1> HIDE DEF s, t
<1>6. ASSUME Committing(new, p \o q) PROVE Changed
  <2>1. S \in SUBSET User
    BY <1>2, FiniteIds DEF Tidy
  <2>2. IsCommand(SQL(<<s, t>>)) /\ \A x : IsMild(SQL(<<s, t>>), x)
    BY <1>5, FewCommands, MildCommands
  <2>3. IsCommand(KeyData(k)) /\ \A x : IsMild(KeyData(k), x)
    BY FewCommands, MildCommands
  <2>4. /\ IsQueue(p) /\ Orderly(p, DOMAIN new.users) /\ Each(p, S, [x \in S |-> SQL(<<s, t>>)], FALSE)
    <3>1. FALSE \in BOOLEAN
      OBVIOUS
    <3> HIDE DEF S
    <3> QED BY <2>1, <2>2, <3>1, TellAll
  <2>5. IsQueue(q) /\ Orderly(q, DOMAIN new.users)
    <3>1. TRUE \in BOOLEAN
      OBVIOUS
    <3> HIDE DEF S
    <3> QED BY <2>1, <2>3, <3>1, TellAll
  <2>6. \A i \in 1..Len(p) : ~p[i].erase
    <3> TAKE i \in 1..Len(p)
    <3> DEFINE v == p[i].to
               c == [x \in S |-> SQL(<<s, t>>)][v]
    <3>1. p[i] = Send(v, c, FALSE)
      BY <2>4 DEF Each
    <3> HIDE DEF v, c
    <3> QED BY <3>1, SendFields
  <2> HIDE DEF p, q, S, new
  <2>7. IsQueue(p \o q) /\ Orderly(p \o q, DOMAIN new.users)
    BY <2>4, <2>5, <2>6, QueueConcat
  <2>8. Needed(new) \subseteq aflash'
    BY <1>1, <1>2, <1>3
  <2> QED BY <1>1, <1>2, <1>3, <1>6, <2>7, <2>8, ChangedByCommit
<1> QED BY <1>1, <1>4, <1>6

LEMMA JoinTexts ==
  ASSUME NEW v, NEW u, NEW g
  PROVE  LET a == Insert(<<>>, <<>>, {<<u, g>>}, <<>>)
             b == Count("users_counter", g, 1)
             c == Insert(Restrict(adm.users, {u}), <<>>, {}, <<>>)
             i == Insert(Strangers(u, g), Restrict(adm.groups, {g}), {m \in adm.member : m[2] = g},
                         Restrict(adm.keys, KeysOf(adm, g)))
         IN  /\ ForOldMember(v, u, g) = IF GroupsOf(adm, v) \cap GroupsOf(adm, u) # {}
                                          THEN <<a, b>> ELSE <<a, b, c>>
             /\ ForNewMember(u, g) = <<i, a, b>>
             /\ \A x : IsMild(SQL(ForOldMember(v, u, g)), x) /\ IsMild(SQL(ForNewMember(u, g)), x)
<1> DEFINE a == Insert(<<>>, <<>>, {<<u, g>>}, <<>>)
           b == Count("users_counter", g, 1)
           c == Insert(Restrict(adm.users, {u}), <<>>, {}, <<>>)
           i == Insert(Strangers(u, g), Restrict(adm.groups, {g}), {m \in adm.member : m[2] = g},
                       Restrict(adm.keys, KeysOf(adm, g)))
<1>1. /\ IsStatement(a) /\ IsStatement(b) /\ IsStatement(c) /\ IsStatement(i)
      /\ a.do # "clear" /\ b.do # "clear" /\ c.do # "clear" /\ i.do # "clear"
  <2>1. /\ IsStatement(a) /\ IsStatement(b) /\ IsStatement(c) /\ IsStatement(i)
        /\ a.do = "insert" /\ b.do = "count" /\ c.do = "insert" /\ i.do = "insert"
    BY StatementKinds
  <2> HIDE DEF a, b, c, i
  <2> QED BY <2>1
<1>2. Joined(u, g) = <<a, b>>
  BY DEF Joined
<1> HIDE DEF a, b, c, i
<1>3. Append(<<a, b>>, c) = <<a, b, c>> /\ <<i>> \o <<a, b>> = <<i, a, b>>
  <2>1. <<a, b, c>> = Append(<<a, b>>, c)
    OBVIOUS
  <2>2. <<i, a, b>> = <<i>> \o <<a, b>>
    OBVIOUS
  <2> QED BY <2>1, <2>2
<1>4. ForOldMember(v, u, g) = IF GroupsOf(adm, v) \cap GroupsOf(adm, u) # {}
                                THEN <<a, b>> ELSE <<a, b, c>>
  BY <1>2, <1>3 DEF ForOldMember, c
<1>5. ForNewMember(u, g) = <<i, a, b>>
  BY <1>2, <1>3 DEF ForNewMember, i
<1>6. \A x : IsMild(SQL(<<a, b>>), x) /\ IsMild(SQL(<<a, b, c>>), x) /\ IsMild(SQL(<<i, a, b>>), x)
  BY <1>1, MildCommands
<1>7. \A x : IsMild(SQL(ForOldMember(v, u, g)), x) /\ IsMild(SQL(ForNewMember(u, g)), x)
  BY <1>4, <1>5, <1>6
<1> QED BY <1>4, <1>5, <1>7 DEF a, b, c, i

\* The three parts of what is sent when user u enters group g.
OldMembersSends(u, g) ==
  LET old == SetToSeq(MembersOf(adm, g))
  IN  [i \in DOMAIN old |-> Send(old[i], SQL(ForOldMember(old[i], u, g)), TRUE)]
KeysSends(u, g) ==
  LET keys == SetToSeq({k \in KeysOf(adm, g) : adm.keys[k].status # "destroyed"})
  IN  [i \in DOMAIN keys |-> Send(u, KeyData(keys[i]), FALSE)]

LEMMA JoinSends ==
  ASSUME Tidy(adm), NEW u \in User, NEW g \in Group
  PROVE  /\ Each(OldMembersSends(u, g), MembersOf(adm, g),
                 [v \in MembersOf(adm, g) |-> SQL(ForOldMember(v, u, g))], TRUE)
         /\ ToOne(KeysSends(u, g), u)
         /\ \A i \in 1..Len(KeysSends(u, g)) :
              \E k \in KeysOf(adm, g) : KeysSends(u, g)[i].cmd = KeyData(k)
         /\ \A k \in KeysOf(adm, g) : adm.keys[k].status # "destroyed" =>
              \E i \in 1..Len(KeysSends(u, g)) : KeysSends(u, g)[i].cmd = KeyData(k)
<1>1. IsFiniteSet(MembersOf(adm, g)) /\ IsFiniteSet(KeysOf(adm, g))
  BY FiniteIds DEF Tidy
<1>2. Each(OldMembersSends(u, g), MembersOf(adm, g),
           [v \in MembersOf(adm, g) |-> SQL(ForOldMember(v, u, g))], TRUE)
  <2> DEFINE S == MembersOf(adm, g)
             s == SetToSeq(S)
             cmds == [v \in S |-> SQL(ForOldMember(v, u, g))]
             q == [i \in DOMAIN s |-> Send(s[i], cmds[s[i]], TRUE)]
  <2>1. Each(q, S, cmds, TRUE)
    BY <1>1, EachOfSet
  <2>2. s \in Seq(S) /\ IsSeq(s)
    BY <1>1, SetToSeqFacts
  <2>3. \A i \in DOMAIN s : s[i] \in S
    BY <2>2, SeqFacts
  <2>4. \A i \in DOMAIN s : cmds[s[i]] = SQL(ForOldMember(s[i], u, g))
    BY <2>3
  <2>5. OldMembersSends(u, g) = [i \in DOMAIN s |-> Send(s[i], SQL(ForOldMember(s[i], u, g)), TRUE)]
    BY DEF OldMembersSends
  <2> HIDE DEF s, S, cmds
  <2>6. OldMembersSends(u, g) = q
    BY <2>4, <2>5
  <2> QED BY <2>1, <2>6 DEF cmds, S
<1>3. /\ ToOne(KeysSends(u, g), u)
      /\ \A i \in 1..Len(KeysSends(u, g)) :
              \E k \in KeysOf(adm, g) : KeysSends(u, g)[i].cmd = KeyData(k)
      /\ \A k \in KeysOf(adm, g) : adm.keys[k].status # "destroyed" =>
              \E i \in 1..Len(KeysSends(u, g)) : KeysSends(u, g)[i].cmd = KeyData(k)
  <2> DEFINE S == {k \in KeysOf(adm, g) : adm.keys[k].status # "destroyed"}
             s == SetToSeq(S)
             q == KeysSends(u, g)
  <2>1. IsFiniteSet(S)
    BY <1>1, FS_Subset
  <2>2. /\ s \in Seq(S) /\ IsSeq(s) /\ \A x \in S : \E i \in 1..Len(s) : s[i] = x
    BY <2>1, SetToSeqFacts
  <2>3. Len(s) \in Nat /\ DOMAIN s = 1..Len(s) /\ \A i \in 1..Len(s) : s[i] \in S
    <3> HIDE DEF s, S
    <3>1. Len(s) \in Nat /\ DOMAIN s = 1..Len(s)
      BY <2>2, SeqFacts
    <3>2. \A i \in 1..Len(s) : s[i] \in S
      BY <2>2
    <3> QED BY <3>1, <3>2
  <2>4. q = [i \in DOMAIN s |-> Send(u, KeyData(s[i]), FALSE)]
    BY DEF KeysSends
  <2>5. S \subseteq KeysOf(adm, g)
    OBVIOUS
  <2>6. \A k \in KeysOf(adm, g) : adm.keys[k].status # "destroyed" => k \in S
    OBVIOUS
  <2> HIDE DEF s, S, q
  <2>7. q = [i \in 1..Len(s) |-> q[i]] /\ \A i \in 1..Len(s) : q[i] = Send(u, KeyData(s[i]), FALSE)
    BY <2>3, <2>4
  <2>8. IsSeq(q) /\ Len(q) = Len(s)
    BY <2>3, <2>7, SeqIndexed
  <2>9. \A i \in 1..Len(s) : q[i].cmd = KeyData(s[i])
    BY <2>7 DEF Send
  <2>10. ToOne(q, u)
    BY <2>7, <2>8, <2>9, MildCommands DEF ToOne
  <2> QED BY <2>2, <2>3, <2>5, <2>6, <2>8, <2>9, <2>10 DEF q
<1> QED BY <1>2, <1>3

LEMMA JoinChanges ==
  ASSUME Base, NEW u \in User, NEW g \in Group, sekey_add_user_group(u, g)
  PROVE  /\ Changed /\ adm' = MoreMember(adm, u, g) /\ g \in DOMAIN adm.groups
         /\ u \in DOMAIN adm.users /\ <<u, g>> \notin adm.member
         /\ sends' = OldMembersSends(u, g) \o KeysSends(u, g)
                     \o <<Send(u, SQL(ForNewMember(u, g)), TRUE)>>
<1> DEFINE new == [adm EXCEPT !.member = @ \cup {<<u, g>>}, !.groups[g].users_counter = @ + 1]
           S == MembersOf(adm, g)
           p == OldMembersSends(u, g)
           k == KeysSends(u, g)
           q == <<Send(u, SQL(ForNewMember(u, g)), TRUE)>>
           cmds == [v \in S |-> SQL(ForOldMember(v, u, g))]
<1>1. /\ Committing(new, p \o k \o q) /\ aflash' = aflash
      /\ \E T : forgotten' = forgotten \cup (recovery \cap T)
      /\ u \in DOMAIN adm.users /\ g \in DOMAIN adm.groups /\ <<u, g>> \notin adm.member
  BY CommitFacts DEF sekey_add_user_group, OldMembersSends, KeysSends, Present
<1>2. /\ Tidy(adm) /\ Needed(adm) \subseteq aflash
      /\ forgotten \subseteq forgotten' /\ forgotten' \subseteq User
  BY <1>1 DEF Base
<1>3. new = MoreMember(adm, u, g)
  BY DEF MoreMember
<1> HIDE DEF new
<1>4. Tidy(new) /\ new.users = adm.users /\ new.keys = adm.keys
  BY <1>1, <1>2, <1>3, TidyJoin
<1>5. S \in SUBSET User /\ u \notin S
  BY <1>1, <1>2, FiniteIds DEF Tidy, MembersOf
<1>6. Each(p, S, cmds, TRUE) /\ ToOne(k, u)
  BY <1>2, JoinSends
<1>7. \A v \in S : cmds[v] = SQL(ForOldMember(v, u, g))
  OBVIOUS
<1>8. \A v, x : IsMild(SQL(ForOldMember(v, u, g)), x) /\ IsMild(SQL(ForNewMember(u, g)), x)
  BY JoinTexts
<1> HIDE DEF p, k, S, cmds
<1>9. \A c, x : IsMild(c, x) => IsCommand(c)
  BY DEF IsMild
<1>10. IsQueue(p) /\ Orderly(p, DOMAIN new.users)
  <2>1. TRUE \in BOOLEAN
    OBVIOUS
  <2>2. \A x \in S : IsCommand(cmds[x]) /\ IsMild(cmds[x], x)
    BY <1>7, <1>8, <1>9
  <2> QED BY <1>5, <1>6, <2>1, <2>2, EachQueue
<1>11. /\ IsQueue(k) /\ Orderly(k, DOMAIN new.users)
       /\ \A i \in 1..Len(k) : k[i].to = u /\ k[i].erase = FALSE
  BY <1>6, ToOneQueue
<1>12. IsQueue(q) /\ Orderly(q, DOMAIN new.users) /\ \A i \in 1..Len(q) : q[i].to = u
  <2> DEFINE c == SQL(ForNewMember(u, g))
             s == Send(u, c, TRUE)
  <2>1. IsCommand(c) /\ IsMild(c, u)
    BY <1>8, <1>9
  <2> HIDE DEF c
  <2>2. IsQueue(<<s>>) /\ Orderly(<<s>>, DOMAIN new.users) /\ Len(<<s>>) = 1 /\ <<s>>[1] = s
    BY <2>1, OneSend
  <2>3. s.to = u
    BY DEF Send
  <2>4. q = <<s>>
    BY DEF c
  <2> HIDE DEF s, q
  <2> QED BY <2>2, <2>3, <2>4
<1> HIDE DEF q
<1>13. IsQueue(p \o k) /\ Orderly(p \o k, DOMAIN new.users)
  <2>1. \A i \in 1..Len(p) : p[i].to # u
    BY <1>5, <1>6, ZenonT(60) DEF Each
  <2> QED BY <1>10, <1>11, <2>1, QueueConcat
<1>14. IsQueue((p \o k) \o q) /\ Orderly((p \o k) \o q, DOMAIN new.users)
  <2> DEFINE r == p \o k
  <2>1. \A i \in 1..Len(r) : r[i].erase => r[i].to # u
    <3> TAKE i \in 1..Len(r)
    <3>1. IsSeq(p) /\ IsSeq(k) /\ Len(p) \in Nat /\ Len(k) \in Nat
      BY <1>10, <1>11, SeqFacts DEF IsQueue
    <3>2. /\ Len(r) = Len(p) + Len(k)
          /\ \A j \in 1..Len(p) : r[j] = p[j]
          /\ \A j \in 1..Len(k) : r[Len(p) + j] = k[j]
      BY <3>1, ConcatSeq
    <3> HIDE DEF r
    <3>3. CASE i <= Len(p)
      <4>1. i \in 1..Len(p) /\ r[i] = p[i]
        BY <3>1, <3>2, <3>3
      <4>2. p[i].to \in S
        BY <1>6, <4>1 DEF Each
      <4> QED BY <1>5, <4>1, <4>2
    <3>4. CASE i > Len(p)
      <4>1. i - Len(p) \in 1..Len(k) /\ i = Len(p) + (i - Len(p))
        BY <3>1, <3>2, <3>4
      <4>2. r[i] = k[i - Len(p)]
        BY <3>2, <4>1
      <4>3. k[i - Len(p)].erase = FALSE
        BY <1>11, <4>1
      <4> QED BY <4>2, <4>3
    <3> QED BY <3>1, <3>2, <3>3, <3>4
  <2> HIDE DEF r
  <2>2. IsQueue(r) /\ Orderly(r, DOMAIN new.users)
    BY <1>13 DEF r
  <2>3. IsQueue(r \o q) /\ Orderly(r \o q, DOMAIN new.users)
    BY <1>12, <2>1, <2>2, QueueConcat
  <2> QED BY <2>3 DEF r
<1>15. Needed(new) \subseteq aflash'
  BY <1>1, <1>2, <1>4, SameKeysNeeded
<1>16. Changed
  BY <1>1, <1>2, <1>4, <1>14, <1>15, ChangedByCommit
<1> QED BY <1>1, <1>3, <1>16, CommittingFacts DEF p, k, q

-----------------------------------------------------------------------------
(* The steps of a device.                                                   *)

\* The fields that no step but the end of a file or of a call changes.
Same(d, D) == /\ D = [z \in DeviceField |-> D[z]]
              /\ D.ready = d.ready /\ D.db = d.db /\ D.cnt = d.cnt /\ D.updkeys = d.updkeys

Started(d, F, D, G) ==
  /\ d.ready /\ d.pc = "idle" /\ Same(d, D) /\ D.flash = d.flash /\ D.open = d.open /\ D.tx = d.tx
  /\ D.blocked = TRUE /\ D.pc = "init" /\ G = F

Skipped(u, d, F, D, G) ==
  /\ d.pc \in File /\ ~d.open /\ d.pc \notin DOMAIN F /\ D = Following(d, u) /\ G = F

Opened(d, F, D, G) ==
  /\ d.pc \in File /\ ~d.open /\ d.pc \in DOMAIN F /\ Readable(d, F[d.pc])
  /\ Same(d, D) /\ D.flash = d.flash /\ D.blocked = d.blocked /\ D.pc = d.pc /\ D.open = TRUE
  /\ D.tx = [db |-> d.db, cnt |-> d.cnt, todo |-> F[d.pc]] /\ G = F

Halted(d, F, D, G) == d.pc \in File /\ D = Stopped(d) /\ G = F

Executing(u, d, F, D, G) ==
  LET e == Apply(Work(d), u, Head(d.tx.todo))
  IN  /\ d.open /\ d.tx.todo # <<>> /\ e.ok
      /\ Same(d, D) /\ D.blocked = d.blocked /\ D.pc = d.pc /\ D.open = d.open
      /\ D.flash = e.flash /\ D.tx = [db |-> e.db, cnt |-> e.cnt, todo |-> Tail(d.tx.todo)]
      /\ G = F

\* The device with its transaction committed.
Done(d, u) == [d EXCEPT !.db = d.tx.db,
                        !.cnt = IF u \in DOMAIN d.tx.db.users THEN d.tx.cnt ELSE 0]

Closed(u, d, F, D, G) ==
  /\ d.open /\ d.tx.todo = <<>>
  /\ \/ G = WithoutFile(F, d.pc) /\ D = Following(Done(d, u), u)
     \/ G = F /\ D = IF d.pc = "normal" THEN Finished(Done(d, u), u) ELSE Stopped(Done(d, u))

DeviceStep(u, d, F, D, G) ==
  \/ Started(d, F, D, G) \/ Skipped(u, d, F, D, G) \/ Opened(d, F, D, G)
  \/ Halted(d, F, D, G) \/ Executing(u, d, F, D, G) \/ Closed(u, d, F, D, G)

LEMMA DoneFacts ==
  ASSUME NEW d, d = [z \in DeviceField |-> d[z]], NEW u
  PROVE  LET e == Done(d, u)
         IN  /\ e = [z \in DeviceField |-> e[z]] /\ e.ready = d.ready /\ e.db = d.tx.db
             /\ e.cnt = IF u \in DOMAIN d.tx.db.users THEN d.tx.cnt ELSE 0
             /\ e.flash = d.flash /\ e.updkeys = d.updkeys /\ e.blocked = d.blocked
             /\ e.pc = d.pc
<1> DEFINE n == IF u \in DOMAIN d.tx.db.users THEN d.tx.cnt ELSE 0
           b == d.tx.db
           e == [z \in DeviceField |-> IF z = "cnt" THEN n ELSE IF z = "db" THEN b ELSE d[z]]
<1>1. Done(d, u) = [z \in DOMAIN d |-> IF z = "cnt" THEN n ELSE IF z = "db" THEN b ELSE d[z]]
  BY DEF Done
<1>2. DOMAIN d = DeviceField
  OBVIOUS
<1> HIDE DEF n, b
<1>3. Done(d, u) = e
  BY <1>1, <1>2
<1>4. /\ e = [z \in DeviceField |-> e[z]] /\ e.ready = d.ready /\ e.db = b /\ e.cnt = n
      /\ e.flash = d.flash /\ e.updkeys = d.updkeys /\ e.blocked = d.blocked /\ e.pc = d.pc
  BY DEF DeviceField
<1> HIDE DEF e
<1> QED BY <1>3, <1>4 DEF n, b

LEMMA WorkFacts ==
  ASSUME NEW d, IsDevice(d)
  PROVE  /\ IsWork(Work(d)) /\ Work(d).db = d.tx.db /\ Work(d).cnt = d.tx.cnt
         /\ Work(d).flash = d.flash /\ Work(d).updkeys = d.updkeys /\ Work(d).ok = TRUE
         /\ IsWork(Committed(d)) /\ Committed(d).db = d.db /\ Committed(d).cnt = d.cnt
         /\ Committed(d).flash = d.flash /\ Committed(d).updkeys = d.updkeys
         /\ Committed(d).ok = TRUE
<1> DEFINE yes == TRUE
           w == [db |-> d.tx.db, cnt |-> d.tx.cnt, flash |-> d.flash, updkeys |-> d.updkeys, ok |-> yes]
           c == [db |-> d.db, cnt |-> d.cnt, flash |-> d.flash, updkeys |-> d.updkeys, ok |-> yes]
<1>1. Work(d) = w /\ Committed(d) = c
  BY DEF Work, Committed
<1>2. yes \in BOOLEAN /\ yes = TRUE
  OBVIOUS
<1>3. /\ IsDb(d.tx.db) /\ IsDb(d.db) /\ d.updkeys \in BOOLEAN /\ d.cnt \in Nat /\ d.tx.cnt \in Nat
  BY DEF IsDevice
<1> HIDE DEF yes
<1>4. IsWork(w) /\ IsWork(c)
  BY <1>2, <1>3 DEF IsWork
<1>5. /\ w.db = d.tx.db /\ w.cnt = d.tx.cnt /\ w.flash = d.flash /\ w.updkeys = d.updkeys /\ w.ok = yes
      /\ c.db = d.db /\ c.cnt = d.cnt /\ c.flash = d.flash /\ c.updkeys = d.updkeys /\ c.ok = yes
  OBVIOUS
<1> HIDE DEF w, c
<1> QED BY <1>1, <1>2, <1>4, <1>5

LEMMA RecordsTail ==
  ASSUME NEW q, IsRecords(q), q # <<>>
  PROVE  /\ IsRecords(Tail(q)) /\ Head(q) = q[1] /\ Head(q).cnt \in Nat /\ IsCommand(Head(q).cmd)
         /\ q = <<Head(q)>> \o Tail(q) /\ Len(q) \in Nat \ {0}
         /\ \A i \in 1..Len(Tail(q)) : i + 1 \in 1..Len(q) /\ Tail(q)[i] = q[i + 1]
<1>1. /\ IsSeq(Tail(q)) /\ q = <<Head(q)>> \o Tail(q) /\ Len(Tail(q)) = Len(q) - 1
      /\ Head(q) = q[1] /\ Len(q) \in Nat \ {0}
      /\ \A i \in 1..(Len(q) - 1) : Tail(q)[i] = q[i + 1]
  BY TailSeq DEF IsRecords
<1>2. \A i \in 1..Len(Tail(q)) : i + 1 \in 1..Len(q) /\ Tail(q)[i] = q[i + 1]
  BY <1>1
<1> QED BY <1>1, <1>2 DEF IsRecords

\* What a device has to keep for the rest of a call, or for the next one.
Lasting(d) ==
  /\ d = [z \in DeviceField |-> d[z]]
  /\ IsDb(d.db) /\ d.cnt \in Nat /\ d.ready \in BOOLEAN /\ d.updkeys \in BOOLEAN
  /\ d.blocked \in BOOLEAN

LEMMA DoneLasts ==
  ASSUME NEW d, IsDevice(d), NEW u
  PROVE  Lasting(d) /\ Lasting(Done(d, u)) /\ Done(d, u).pc = d.pc /\ Done(d, u).ready = d.ready
         /\ Done(d, u).blocked = d.blocked
BY DoneFacts DEF IsDevice, Lasting

LEMMA BackIsDevice ==
  ASSUME NEW d, Lasting(d), NEW u
  PROVE  /\ IsDevice(Stopped(d)) /\ IsDevice(Finished(d, u))
         /\ d.pc \in File => IsDevice(Following(d, u))
<1>1. "idle" \in File \cup {"idle"} /\ FALSE \in BOOLEAN /\ NoTx.cnt \in Nat
  BY NoTxFacts
<1>2. ASSUME NEW e, e = [z \in DeviceField |-> e[z]], e.pc \in File \cup {"idle"}, e.open = FALSE,
             e.tx = NoTx, e.ready = d.ready, e.db = d.db, e.cnt = d.cnt,
             e.updkeys \in BOOLEAN, e.blocked \in BOOLEAN
      PROVE  IsDevice(e)
  BY <1>1, <1>2, NoTxFacts DEF IsDevice, Lasting
<1>3. d = [z \in DeviceField |-> d[z]]
  BY DEF Lasting
<1>4. IsDevice(Stopped(d))
  <2> DEFINE e == Stopped(d)
  <2>1. /\ e = [z \in DeviceField |-> e[z]] /\ e.pc = "idle" /\ e.open = FALSE /\ e.tx = NoTx
        /\ e.ready = d.ready /\ e.db = d.db /\ e.cnt = d.cnt
        /\ e.updkeys = d.updkeys /\ e.blocked = d.blocked
    BY <1>3, StoppedFacts
  <2> HIDE DEF e
  <2>2. IsDevice(e)
    BY <1>1, <1>2, <2>1 DEF Lasting
  <2> QED BY <2>2 DEF e
<1>5. IsDevice(Finished(d, u))
  <2> DEFINE e == Finished(d, u)
             has == d.updkeys /\ u \in DOMAIN d.db.users
  <2>1. /\ e = [z \in DeviceField |-> e[z]] /\ e.pc = "idle" /\ e.open = FALSE /\ e.tx = NoTx
        /\ e.ready = d.ready /\ e.db = d.db /\ e.cnt = d.cnt
        /\ e.updkeys = has /\ e.blocked = FALSE
    BY <1>3, FinishedFacts, ZenonT(60)
  <2>2. has \in BOOLEAN
    OBVIOUS
  <2> HIDE DEF e, has
  <2>3. IsDevice(e)
    BY <1>1, <1>2, <2>1, <2>2
  <2> QED BY <2>3 DEF e
<1>6. ASSUME d.pc \in File PROVE IsDevice(Following(d, u))
  <2> DEFINE e == Following(d, u)
             next == IF d.pc = "init" THEN "recovery" ELSE "normal"
  <2>1. /\ e = [z \in DeviceField |-> e[z]]
        /\ e.open = FALSE /\ e.tx = NoTx /\ e.ready = d.ready /\ e.db = d.db /\ e.cnt = d.cnt
        /\ d.pc = "normal" => e = Finished(d, u)
        /\ d.pc # "normal" => /\ e.updkeys = d.updkeys /\ e.blocked = d.blocked
                              /\ e.pc = next
    BY <1>3, <1>6, FollowingFacts, ZenonT(60)
  <2>2. next \in File \cup {"idle"}
    BY DEF File
  <2> HIDE DEF e, next
  <2>3. CASE d.pc = "normal"
    BY <1>5, <2>1, <2>3 DEF e
  <2>4. CASE d.pc # "normal"
    <3>1. IsDevice(e)
      BY <1>2, <2>1, <2>2, <2>4 DEF Lasting
    <3> QED BY <3>1 DEF e
  <2> QED BY <2>3, <2>4
<1> QED BY <1>4, <1>5, <1>6

LEMMA DeviceStepShape ==
  ASSUME NEW u, NEW d, NEW F, NEW D, NEW G, IsDevice(d), IsFiles(F), FlowAt(d, F),
         DeviceStep(u, d, F, D, G)
  PROVE  /\ IsDevice(D) /\ IsFiles(G) /\ D.ready = d.ready
         /\ DOMAIN G \subseteq DOMAIN F /\ \A f \in DOMAIN G : G[f] = F[f]
<1>0. Lasting(d) /\ Lasting(Done(d, u)) /\ Done(d, u).pc = d.pc /\ Done(d, u).ready = d.ready
      /\ d = [z \in DeviceField |-> d[z]] /\ Done(d, u) = [z \in DeviceField |-> Done(d, u)[z]]
  BY DoneLasts DEF Lasting
<1>1. CASE Started(d, F, D, G)
  <2>1. D.pc \in File \cup {"idle"} /\ D.blocked \in BOOLEAN
    BY <1>1 DEF Started, File
  <2> QED BY <1>1, <2>1 DEF Started, Same, IsDevice
<1>2. CASE Skipped(u, d, F, D, G)
  BY <1>0, <1>2, BackIsDevice, FollowingFacts DEF Skipped
<1>3. CASE Opened(d, F, D, G)
  <2>1. D.open \in BOOLEAN
    BY <1>3 DEF Opened
  <2>2. IsRecords(F[d.pc])
    BY <1>3 DEF Opened, IsFiles
  <2>3. D.tx = [db |-> D.tx.db, cnt |-> D.tx.cnt, todo |-> D.tx.todo]
        /\ D.tx.db = d.db /\ D.tx.cnt = d.cnt /\ D.tx.todo = F[d.pc]
    BY <1>3 DEF Opened
  <2> QED BY <1>3, <2>1, <2>2, <2>3 DEF Opened, Same, IsDevice
<1>4. CASE Halted(d, F, D, G)
  BY <1>0, <1>4, BackIsDevice, StoppedFacts DEF Halted
<1>5. CASE Executing(u, d, F, D, G)
  <2> DEFINE e == Apply(Work(d), u, Head(d.tx.todo))
             rest == Tail(d.tx.todo)
  <2>1. /\ IsRecords(rest) /\ Head(d.tx.todo).cnt \in Nat /\ IsCommand(Head(d.tx.todo).cmd)
    BY <1>5, RecordsTail DEF Executing, IsDevice
  <2>2. IsWork(e)
    BY <2>1, WorkFacts, ApplyShape
  <2>3. /\ Same(d, D) /\ D.blocked = d.blocked /\ D.pc = d.pc /\ D.open = d.open
        /\ D.tx = [db |-> e.db, cnt |-> e.cnt, todo |-> rest] /\ G = F
    BY <1>5 DEF Executing
  <2> HIDE DEF e, rest
  <2>4. D.tx = [db |-> D.tx.db, cnt |-> D.tx.cnt, todo |-> D.tx.todo]
        /\ D.tx.db = e.db /\ D.tx.cnt = e.cnt /\ D.tx.todo = rest
    BY <2>3
  <2>5. IsDb(e.db) /\ e.cnt \in Nat
    BY <2>2 DEF IsWork
  <2> QED BY <2>1, <2>3, <2>4, <2>5 DEF Same, IsDevice
<1>6. CASE Closed(u, d, F, D, G)
  <2>1. d.pc \in File
    BY <1>6 DEF Closed, FlowAt, IsFiles
  <2>2. IsDevice(D) /\ D.ready = d.ready
    <3> DEFINE e == Done(d, u)
    <3>1. e.ready = d.ready /\ e.pc = d.pc /\ Lasting(e) /\ e = [z \in DeviceField |-> e[z]]
      BY <1>0
    <3>2. D = Following(e, u) \/ D = Finished(e, u) \/ D = Stopped(e)
      BY <1>6 DEF Closed
    <3> HIDE DEF e
    <3>3. IsDevice(D)
      BY <2>1, <3>1, <3>2, BackIsDevice
    <3>4. /\ Following(e, u).ready = e.ready /\ Finished(e, u).ready = e.ready
          /\ Stopped(e).ready = e.ready
      <4>1. Following(e, u).ready = e.ready
        BY <2>1, <3>1, FollowingFacts
      <4>2. Finished(e, u).ready = e.ready
        BY <3>1, FinishedFacts
      <4>3. Stopped(e).ready = e.ready
        BY <3>1, StoppedFacts
      <4> QED BY <4>1, <4>2, <4>3
    <3> QED BY <3>1, <3>2, <3>3, <3>4
  <2>3. G = F \/ G = WithoutFile(F, d.pc)
    BY <1>6 DEF Closed
  <2>5. LET H == WithoutFile(F, d.pc)
        IN  IsFiles(H) /\ DOMAIN H = DOMAIN F \ {d.pc} /\ \A f \in DOMAIN H : H[f] = F[f]
    BY WithoutFileFacts
  <2> QED BY <2>2, <2>3, <2>5
<1> QED BY <1>1, <1>2, <1>3, <1>4, <1>5, <1>6 DEF DeviceStep

LEMMA DeviceStepFlow ==
  ASSUME NEW u, NEW d, NEW F, NEW D, NEW G, IsDevice(d), IsFiles(F), FlowAt(d, F),
         DeviceStep(u, d, F, D, G)
  PROVE  FlowAt(D, G)
<1>0. /\ Lasting(d) /\ Lasting(Done(d, u)) /\ Done(d, u).pc = d.pc
      /\ Done(d, u).ready = d.ready /\ Done(d, u).blocked = d.blocked
      /\ d = [z \in DeviceField |-> d[z]] /\ Done(d, u) = [z \in DeviceField |-> Done(d, u)[z]]
  BY DoneLasts DEF Lasting
<1>1. d.pc \in File => d.ready /\ d.blocked
  BY BlankDevice DEF FlowAt, File
<1>2. CASE Started(d, F, D, G)
  BY <1>2 DEF Started, Same, FlowAt
\* The end of a file: what follows is free of the files before it.
<1>3. ASSUME NEW e, e = [z \in DeviceField |-> e[z]], e.pc = d.pc, d.pc \in File, e.ready = d.ready,
             e.blocked = d.blocked, D = Following(e, u), DOMAIN G \subseteq DOMAIN F, d.pc \notin DOMAIN G
      PROVE  FlowAt(D, G)
  <2>1. /\ D.open = FALSE /\ D.ready = e.ready
        /\ d.pc = "normal" => D = Finished(e, u)
        /\ d.pc # "normal" => /\ D.blocked = e.blocked
                              /\ D.pc = IF d.pc = "init" THEN "recovery" ELSE "normal"
    <3> DEFINE f == Following(e, u)
    <3>1. e.pc \in File
      BY <1>3
    <3>2. /\ f.open = FALSE /\ f.ready = e.ready
          /\ e.pc = "normal" => f = Finished(e, u)
          /\ e.pc # "normal" => /\ f.blocked = e.blocked
                                /\ f.pc = IF e.pc = "init" THEN "recovery" ELSE "normal"
      <4>1. e = [z \in DeviceField |-> e[z]]
        BY <1>3
      <4> QED BY ONLY <3>1, <4>1, FollowingFacts, ZenonT(60)
    <3> HIDE DEF f
    <3>3. D = f
      BY <1>3 DEF f
    <3> QED BY <1>3, <3>2, <3>3
  <2>2. Finished(e, u).pc = "idle"
    BY <1>3, FinishedFacts
  <2>3. CASE d.pc = "normal"
    BY <1>1, <1>3, <2>1, <2>2, <2>3 DEF FlowAt
  <2>4. CASE d.pc = "init"
    BY <1>1, <1>3, <2>1, <2>4 DEF FlowAt
  <2>5. CASE d.pc = "recovery"
    BY <1>1, <1>3, <2>1, <2>5 DEF FlowAt
  <2> QED BY <1>3, <2>3, <2>4, <2>5 DEF File
<1>4. ASSUME NEW e, e = [z \in DeviceField |-> e[z]], d.pc \in File, e.ready = d.ready,
             D = Stopped(e) \/ D = Finished(e, u)
      PROVE  FlowAt(D, G)
  <2>1. /\ Stopped(e).pc = "idle" /\ Stopped(e).open = FALSE /\ Stopped(e).ready = e.ready
    BY <1>4, StoppedFacts
  <2>2. /\ Finished(e, u).pc = "idle" /\ Finished(e, u).open = FALSE /\ Finished(e, u).ready = e.ready
    BY <1>4, FinishedFacts, ZenonT(60)
  <2>3. D.pc = "idle" /\ D.open = FALSE /\ D.ready
    BY <1>1, <1>4, <2>1, <2>2
  <2> QED BY <2>3 DEF FlowAt
<1>5. CASE Skipped(u, d, F, D, G)
  BY <1>0, <1>3, <1>5 DEF Skipped
<1>6. CASE Opened(d, F, D, G)
  <2>1. /\ d.pc \in DOMAIN F /\ D.pc = d.pc /\ D.ready = d.ready /\ D.blocked = d.blocked /\ G = F
        /\ d.pc \in File
    BY <1>6 DEF Opened, Same
  <2>2. D.pc # "idle"
    BY <2>1 DEF File
  <2> QED BY <1>1, <2>1, <2>2 DEF FlowAt
<1>7. CASE Halted(d, F, D, G)
  BY <1>0, <1>4, <1>7 DEF Halted
<1>8. CASE Executing(u, d, F, D, G)
  <2>1. d.pc \in File /\ D.open = d.open /\ D.pc = d.pc /\ D.ready = d.ready /\ D.blocked = d.blocked /\ G = F
    BY <1>8 DEF Executing, FlowAt, IsFiles, Same
  <2> QED BY <1>1, <2>1 DEF FlowAt
<1>9. CASE Closed(u, d, F, D, G)
  <2>1. d.pc \in File
    BY <1>9 DEF Closed, FlowAt, IsFiles
  <2>2. CASE G = WithoutFile(F, d.pc) /\ D = Following(Done(d, u), u)
    <3>2. DOMAIN WithoutFile(F, d.pc) = DOMAIN F \ {d.pc}
      BY WithoutFileFacts
    <3> QED BY <1>0, <1>3, <2>1, <2>2, <3>2
  <2>3. CASE D = IF d.pc = "normal" THEN Finished(Done(d, u), u) ELSE Stopped(Done(d, u))
    BY <1>0, <1>4, <2>1, <2>3
  <2> QED BY <1>9, <2>2, <2>3 DEF Closed
<1> QED BY <1>2, <1>5, <1>6, <1>7, <1>8, <1>9 DEF DeviceStep

\* A step of the device of u is a step of a device, and of nobody else.
LEMMA UserStepIs ==
  ASSUME Base, Flow, Exclusive, NEW u \in User, UserStep(u) \/ RollBack(u)
  PROVE  /\ UserOnly /\ sends = <<>>
         /\ dev' = [dev EXCEPT ![u] = dev'[u]] /\ file' = [file EXCEPT ![u] = file'[u]]
         /\ DeviceStep(u, dev[u], file[u], dev'[u], file'[u])
<1> DEFINE d == dev[u]
           F == file[u]
<1>1. /\ dev = [v \in User |-> dev[v]] /\ file = [v \in User |-> file[v]]
      /\ IsDevice(d) /\ IsFiles(F) /\ FlowAt(d, F)
  BY DEF Base, Flow
<1>2. d = [z \in DeviceField |-> d[z]] /\ d.pc \in File \cup {"idle"} /\ DOMAIN d = DeviceField
  BY <1>1 DEF IsDevice
<1>3. file = [file EXCEPT ![u] = file[u]] /\ DOMAIN file = User
  BY <1>1
<1>4. ASSUME NEW D, dev' = [dev EXCEPT ![u] = D]
      PROVE  dev' = [dev EXCEPT ![u] = dev'[u]] /\ dev'[u] = D
  BY <1>1, <1>4
<1>5. CASE sekey_update_userdata(u)
  <2> DEFINE yes == TRUE
             D == [z \in DOMAIN d |-> IF z = "pc" THEN "init" ELSE IF z = "blocked" THEN yes ELSE d[z]]
             E == [z \in DeviceField |-> IF z = "pc" THEN "init" ELSE IF z = "blocked" THEN yes ELSE d[z]]
  <2>1. /\ d.ready /\ d.pc = "idle" /\ Free /\ UserOnly /\ file' = file
        /\ dev' = [dev EXCEPT ![u].blocked = TRUE, ![u].pc = "init"]
    BY <1>5 DEF sekey_update_userdata
  <2>2. sends = <<>>
    BY <2>1 DEF Free
  <2>3. dev' = [dev EXCEPT ![u] = D]
    BY <1>1, <2>1
  <2>4. D = E
    BY <1>2
  <2>5. yes = TRUE
    OBVIOUS
  <2> HIDE DEF D, yes
  <2>6. /\ E = [z \in DeviceField |-> E[z]] /\ E.ready = d.ready /\ E.db = d.db /\ E.cnt = d.cnt
        /\ E.updkeys = d.updkeys /\ E.flash = d.flash /\ E.open = d.open /\ E.tx = d.tx
        /\ E.blocked = yes /\ E.pc = "init"
    BY DEF DeviceField
  <2> HIDE DEF E
  <2>7. Started(d, F, D, F)
    BY <2>1, <2>4, <2>5, <2>6 DEF Started, Same
  <2>8. dev'[u] = D /\ dev' = [dev EXCEPT ![u] = dev'[u]]
    BY <1>4, <2>3
  <2> QED BY <1>3, <2>1, <2>2, <2>7, <2>8 DEF DeviceStep
<1>6. ASSUME d.pc # "idle" PROVE sends = <<>> /\ d.pc \in File
  BY <1>2, <1>6 DEF Flow
<1>7. CASE NoFile(u)
  <2>1. /\ d.pc # "idle" /\ ~d.open /\ d.pc \notin DOMAIN F /\ UserOnly /\ file' = file
        /\ dev' = [dev EXCEPT ![u] = Following(d, u)]
    BY <1>7 DEF NoFile, Pending
  <2>2. dev'[u] = Following(d, u) /\ dev' = [dev EXCEPT ![u] = dev'[u]]
    BY <1>4, <2>1
  <2>3. Skipped(u, d, F, dev'[u], F)
    BY <1>6, <2>1, <2>2 DEF Skipped
  <2> QED BY <1>3, <1>6, <2>1, <2>2, <2>3 DEF DeviceStep
<1>8. CASE OpenFile(u)
  <2> DEFINE q == F[d.pc]
             tx == [db |-> d.db, cnt |-> d.cnt, todo |-> q]
             yes == TRUE
             O == [d EXCEPT !.open = TRUE, !.tx = [db |-> d.db, cnt |-> d.cnt, todo |-> q]]
             E == [z \in DeviceField |-> IF z = "tx" THEN tx ELSE IF z = "open" THEN yes ELSE d[z]]
  <2>1. /\ d.pc # "idle" /\ ~d.open /\ d.pc \in DOMAIN F /\ UserOnly /\ file' = file
        /\ dev' = [dev EXCEPT ![u] = IF Readable(d, q) THEN O ELSE Stopped(d)]
    BY <1>8 DEF OpenFile, Pending
  <2>2. O = [z \in DOMAIN d |-> IF z = "tx" THEN tx ELSE IF z = "open" THEN yes ELSE d[z]]
    OBVIOUS
  <2>3. yes = TRUE
    OBVIOUS
  <2> HIDE DEF tx, yes, O
  <2>4. O = E
    BY <1>2, <2>2
  <2>5. /\ E = [z \in DeviceField |-> E[z]] /\ E.ready = d.ready /\ E.db = d.db /\ E.cnt = d.cnt
        /\ E.updkeys = d.updkeys /\ E.flash = d.flash /\ E.open = yes /\ E.tx = tx
        /\ E.blocked = d.blocked /\ E.pc = d.pc
    BY DEF DeviceField
  <2> HIDE DEF E
  <2>6. dev' = [dev EXCEPT ![u] = dev'[u]] /\ dev'[u] = IF Readable(d, q) THEN O ELSE Stopped(d)
    BY <1>4, <2>1
  <2>7. CASE Readable(d, q)
    <3>1. Opened(d, F, O, F)
      BY <1>6, <2>1, <2>3, <2>4, <2>5, <2>7 DEF Opened, Same, tx
    <3> QED BY <1>3, <1>6, <2>1, <2>6, <2>7, <3>1 DEF DeviceStep
  <2>8. CASE ~Readable(d, q)
    <3>1. Halted(d, F, dev'[u], F)
      BY <1>6, <2>1, <2>6, <2>8 DEF Halted
    <3> QED BY <1>3, <1>6, <2>1, <2>6, <3>1 DEF DeviceStep
  <2> QED BY <2>7, <2>8
<1>9. CASE execute_update(u)
  <2> DEFINE e == Apply(Work(d), u, Head(d.tx.todo))
             tx == [db |-> e.db, cnt |-> e.cnt, todo |-> Tail(d.tx.todo)]
             fl == e.flash
             O == [d EXCEPT !.tx = [db |-> e.db, cnt |-> e.cnt, todo |-> Tail(@.todo)],
                            !.flash = e.flash]
             E == [z \in DeviceField |-> IF z = "flash" THEN fl ELSE IF z = "tx" THEN tx ELSE d[z]]
  <2>1. /\ d.open /\ d.tx.todo # <<>> /\ UserOnly /\ file' = file
        /\ dev' = [dev EXCEPT ![u] = IF e.ok THEN O ELSE Stopped(d)]
    BY <1>9 DEF execute_update
  <2>2. O = [z \in DOMAIN d |-> IF z = "flash" THEN fl ELSE IF z = "tx" THEN tx ELSE d[z]]
    <3> HIDE DEF e
    <3> QED OBVIOUS
  <2>3. d.pc # "idle"
    BY <1>1, <2>1 DEF FlowAt
  <2> HIDE DEF tx, fl, O, e
  <2>4. O = E
    BY <1>2, <2>2
  <2>5. /\ E = [z \in DeviceField |-> E[z]] /\ E.ready = d.ready /\ E.db = d.db /\ E.cnt = d.cnt
        /\ E.updkeys = d.updkeys /\ E.flash = fl /\ E.open = d.open /\ E.tx = tx
        /\ E.blocked = d.blocked /\ E.pc = d.pc
    BY DEF DeviceField
  <2> HIDE DEF E
  <2>6. dev' = [dev EXCEPT ![u] = dev'[u]] /\ dev'[u] = IF e.ok THEN O ELSE Stopped(d)
    BY <1>4, <2>1
  <2>7. CASE e.ok
    <3>1. Executing(u, d, F, O, F)
      BY <2>1, <2>4, <2>5, <2>7 DEF Executing, Same, tx, fl, e
    <3> QED BY <1>3, <1>6, <2>1, <2>3, <2>6, <2>7, <3>1 DEF DeviceStep
  <2>8. CASE ~e.ok
    <3>1. Halted(d, F, dev'[u], F)
      BY <1>6, <2>3, <2>6, <2>8 DEF Halted
    <3> QED BY <1>3, <1>6, <2>1, <2>3, <2>6, <3>1 DEF DeviceStep
  <2> QED BY <2>7, <2>8
<1>10. CASE process_update_file(u)
  <2> DEFINE e == Done(d, u)
  <2>1. /\ d.open /\ d.tx.todo = <<>> /\ UserOnly
        /\ \/ /\ file' = [file EXCEPT ![u] = WithoutFile(F, d.pc)]
              /\ dev' = [dev EXCEPT ![u] = Following(e, u)]
           \/ /\ dev' = [dev EXCEPT ![u] = IF d.pc = "normal" THEN Finished(e, u) ELSE Stopped(e)]
              /\ file' = file
    BY <1>10 DEF process_update_file, Done
  <2>2. d.pc # "idle"
    BY <1>1, <2>1 DEF FlowAt
  <2> HIDE DEF e
  <2>3. CASE /\ file' = [file EXCEPT ![u] = WithoutFile(F, d.pc)]
             /\ dev' = [dev EXCEPT ![u] = Following(e, u)]
    <3>1. dev' = [dev EXCEPT ![u] = dev'[u]] /\ dev'[u] = Following(e, u)
      BY <1>4, <2>3
    <3>2. file' = [file EXCEPT ![u] = file'[u]] /\ file'[u] = WithoutFile(F, d.pc)
      BY <1>3, <2>3
    <3>3. Closed(u, d, F, dev'[u], file'[u])
      BY <2>1, <3>1, <3>2 DEF Closed, e
    <3> QED BY <1>6, <2>1, <2>2, <3>1, <3>2, <3>3 DEF DeviceStep
  <2>4. CASE /\ dev' = [dev EXCEPT ![u] = IF d.pc = "normal" THEN Finished(e, u) ELSE Stopped(e)]
             /\ file' = file
    <3>1. /\ dev' = [dev EXCEPT ![u] = dev'[u]]
          /\ dev'[u] = IF d.pc = "normal" THEN Finished(e, u) ELSE Stopped(e)
      BY <1>4, <2>4
    <3>2. Closed(u, d, F, dev'[u], F)
      BY <2>1, <3>1 DEF Closed, e
    <3> QED BY <1>3, <1>6, <2>1, <2>2, <2>4, <3>1, <3>2 DEF DeviceStep
  <2> QED BY <2>1, <2>3, <2>4
<1>11. CASE RollBack(u)
  <2>1. /\ d.pc # "idle" /\ UserOnly /\ file' = file /\ dev' = [dev EXCEPT ![u] = Stopped(d)]
    BY <1>11 DEF RollBack
  <2>2. dev' = [dev EXCEPT ![u] = dev'[u]] /\ dev'[u] = Stopped(d)
    BY <1>4, <2>1
  <2>3. Halted(d, F, dev'[u], F)
    BY <1>6, <2>1, <2>2 DEF Halted
  <2> QED BY <1>3, <1>6, <2>1, <2>2, <2>3 DEF DeviceStep
<1> QED BY <1>5, <1>7, <1>8, <1>9, <1>10, <1>11 DEF UserStep

-----------------------------------------------------------------------------
(* The steps of the administrator.                                          *)

\* A key that a failed call left in the administrator's flash.
Leaked ==
  /\ UNCHANGED <<adm, update_counter, recovery, sends, file, dev, forgotten>>
  /\ aflash \subseteq aflash' /\ expiring' = FALSE

\* The calls that change the name or the status of a key.
LEMMA KeyCalls ==
  ASSUME Base, NEW k \in Key,
         \/ sekey_key_change_name(k) \/ sekey_activate_key(k)
         \/ \E s \in Status : sekey_key_change_status(k, s)
         \/ sekey_check_expired_keys(k)
  PROVE  Changed /\ \E c, value :
           /\ (c = "name" /\ value = 1) \/ (c = "status" /\ value \in Status)
           /\ k \in DOMAIN adm.keys /\ Changing(Set("keys", k, c, value), OwnersUsers(k))
           /\ c = "status" => adm.keys[k].status # "destroyed"
<1>0. "name" # "status" /\ "active" \in Status /\ "deactivated" \in Status
      /\ "active" # "destroyed" /\ "deactivated" # "destroyed"
      /\ forgotten \subseteq User /\ recovery \subseteq User
  BY DEF Status, Base
<1>1. CASE sekey_key_change_name(k)
  <2>1. /\ k \in DOMAIN adm.keys /\ Changing(Set("keys", k, "name", 1), OwnersUsers(k))
        /\ aflash' = aflash
        /\ \E T : forgotten' = forgotten \cup (recovery \cap T)
    BY <1>1, CommitFacts DEF sekey_key_change_name, Changing
  <2>2. forgotten \subseteq forgotten' /\ forgotten' \subseteq User
    BY <1>0, <2>1
  <2>3. Changed
    BY <1>0, <2>1, <2>2, ChangeKeyChanges
  <2> QED BY <1>0, <2>1, <2>3
<1>2. CASE sekey_activate_key(k)
  <2>1. /\ k \in DOMAIN adm.keys /\ Changing(Set("keys", k, "status", "active"), OwnersUsers(k))
        /\ forgotten' = forgotten /\ aflash' = aflash
        /\ check_key_transition_validity(adm.keys[k].status, "active")
    BY <1>2, CommitFacts DEF sekey_activate_key, Change, Changing
  <2>2. adm.keys[k].status # "destroyed"
    BY <2>1, NotDestroyed
  <2>3. Changed
    BY <1>0, <2>1, <2>2, ChangeKeyChanges
  <2> QED BY <1>0, <2>1, <2>2, <2>3
<1>3. ASSUME NEW s \in Status, sekey_key_change_status(k, s)
      PROVE  /\ Changed /\ k \in DOMAIN adm.keys
             /\ Changing(Set("keys", k, "status", s), OwnersUsers(k))
             /\ adm.keys[k].status # "destroyed"
  <2>1. /\ k \in DOMAIN adm.keys /\ Changing(Set("keys", k, "status", s), OwnersUsers(k))
        /\ forgotten' = forgotten /\ aflash' = IF s = "destroyed" THEN aflash \ {k} ELSE aflash
        /\ check_key_transition_validity(adm.keys[k].status, s)
    BY <1>3, CommitFacts DEF sekey_key_change_status, Change, Changing
  <2>2. adm.keys[k].status # "destroyed"
    BY <2>1, NotDestroyed
  <2> QED BY <1>0, <2>1, <2>2, ChangeKeyChanges
<1>4. CASE sekey_check_expired_keys(k)
  <2>1. /\ k \in DOMAIN adm.keys /\ adm.keys[k].status \in {"active", "suspended"}
        /\ Changing(Set("keys", k, "status", "deactivated"), OwnersUsers(k))
        /\ forgotten' = forgotten /\ aflash' = aflash
    BY <1>4, CommitFacts DEF sekey_check_expired_keys, Ready, Changing
  <2>2. adm.keys[k].status # "destroyed"
    BY <2>1
  <2>3. Changed
    BY <1>0, <2>1, <2>2, ChangeKeyChanges
  <2> QED BY <1>0, <2>1, <2>2, <2>3
<1> QED BY <1>1, <1>2, <1>3, <1>4

LEMMA AdminCases ==
  ASSUME Base, AdminCall
  PROVE  \/ Changed \/ Leaked
         \/ \E u \in User : \/ sekey_add_user(u) \/ sekey_init_user_SEcube(u)
                            \/ sekey_write_recovery(u) /\ Needed(adm) \subseteq aflash'
<1>0. Needed(adm) \subseteq aflash
  BY DEF Base
<1>1. ASSUME NEW g \in Group,
             \/ sekey_group_change_name(g) \/ sekey_group_change_max_keys(g)
             \/ sekey_group_change_default_cryptoperiod(g)
      PROVE  Changed
  <2>1. \E c \in GroupColumn : GroupChange(g, c)
    BY <1>1 DEF sekey_group_change_name, sekey_group_change_max_keys,
                sekey_group_change_default_cryptoperiod, GroupColumn
  <2> QED BY <2>1, ChangeGroupChanges
<1>2. ASSUME NEW k \in Key, NEW g \in Group, sekey_add_key(k, g)
      PROVE  Changed \/ Leaked
  BY <1>2, AddKeyChanges DEF Leaked
<1>3. ASSUME NEW u \in User, sekey_recovery(u) \/ sekey_recovery_request(u)
      PROVE  sekey_write_recovery(u) /\ Needed(adm) \subseteq aflash'
  BY <1>0, <1>3 DEF sekey_recovery, sekey_recovery_request, MaintainAdmin, Needed
<1>4. CASE \E u \in User : \/ sekey_add_user(u) \/ sekey_init_user_SEcube(u)
                           \/ sekey_delete_user(u) \/ sekey_user_change_name(u)
                           \/ sekey_recovery(u) \/ sekey_recovery_request(u)
  BY <1>3, <1>4, ChangeUserChanges, DeleteUserChanges
<1>5. CASE \E g \in Group : \/ sekey_add_group(g) \/ sekey_delete_group(g)
                            \/ sekey_group_change_name(g) \/ sekey_group_change_max_keys(g)
                            \/ sekey_group_change_default_cryptoperiod(g)
  BY <1>1, <1>5, AddGroupChanges, DeleteGroupChanges
<1>6. CASE \E u \in User, g \in Group : sekey_add_user_group(u, g) \/ sekey_delete_user_group(u, g)
  BY <1>6, JoinChanges, LeaveChanges
<1>7. CASE \E k \in Key : \/ \E g \in Group : sekey_add_key(k, g)
                          \/ sekey_key_change_name(k) \/ sekey_activate_key(k)
                          \/ \E s \in Status : sekey_key_change_status(k, s)
                          \/ sekey_check_expired_keys(k)
  BY <1>2, <1>7, KeyCalls
<1> QED BY <1>4, <1>5, <1>6, <1>7 DEF AdminCall

\* What a recovery leaves of the files of a user.
Recovered(F, G) ==
  /\ IsFiles(G) /\ ("init" \in DOMAIN G <=> "init" \in DOMAIN F)
  /\ "init" \in DOMAIN G => G["init"] = F["init"]

LEMMA RecoveredFiles ==
  ASSUME NEW F, IsFiles(F), NEW q, IsRecords(q)
  PROVE  /\ Recovered(F, F) /\ Recovered(F, WithFile(F, "recovery", q))
         /\ Recovered(F, WithFile(WithoutFile(F, "normal"), "recovery", q))
<1>0. "recovery" \in File /\ "normal" \in File /\ "init" # "recovery" /\ "init" # "normal"
  BY DEF File
<1>1. ASSUME NEW H, IsFiles(H), "init" \in DOMAIN H <=> "init" \in DOMAIN F,
             "init" \in DOMAIN F => H["init"] = F["init"]
      PROVE  Recovered(F, WithFile(H, "recovery", q))
  <2> DEFINE G == WithFile(H, "recovery", q)
  <2>1. /\ IsFiles(G) /\ DOMAIN G = DOMAIN H \cup {"recovery"}
        /\ \A h \in DOMAIN H : h # "recovery" => G[h] = H[h]
    <3>1. LET K == WithFile(H, "recovery", q)
          IN  IsFiles(K) /\ DOMAIN K = DOMAIN H \cup {"recovery"} /\ K["recovery"] = q
              /\ \A h \in DOMAIN H : h # "recovery" => K[h] = H[h]
      BY <1>0, <1>1, WithFileFacts
    <3> QED BY <3>1
  <2> HIDE DEF G
  <2>2. Recovered(F, G)
    BY <1>0, <1>1, <2>1 DEF Recovered
  <2> QED BY <2>2 DEF G
<1>2. LET H == WithoutFile(F, "normal")
      IN  IsFiles(H) /\ DOMAIN H = DOMAIN F \ {"normal"} /\ \A h \in DOMAIN H : H[h] = F[h]
  BY WithoutFileFacts
<1>3. Recovered(F, WithFile(WithoutFile(F, "normal"), "recovery", q))
  <2> DEFINE H == WithoutFile(F, "normal")
  <2>1. IsFiles(H) /\ DOMAIN H = DOMAIN F \ {"normal"} /\ \A h \in DOMAIN H : H[h] = F[h]
    BY <1>2
  <2> HIDE DEF H
  <2>2. Recovered(F, WithFile(H, "recovery", q))
    BY <1>0, <1>1, <2>1
  <2> QED BY <2>2 DEF H
<1>4. Recovered(F, WithFile(F, "recovery", q))
  BY <1>1
<1>5. Recovered(F, F)
  BY DEF Recovered
<1> QED BY <1>3, <1>4, <1>5

\* What sekey_write_recovery does.
LEMMA RecoveryIs ==
  ASSUME Base, NEW u \in User, sekey_write_recovery(u)
  PROVE  /\ sends = <<>> /\ Free /\ UNCHANGED <<adm, sends, dev>>
         /\ expiring' = FALSE
         /\ recovery' = recovery \cup {u} \/ recovery' = recovery \ {u}
         /\ forgotten' \subseteq forgotten \cup {u} /\ forgotten \ {u} \subseteq forgotten'
         /\ \/ update_counter' = update_counter
            \/ update_counter' = [update_counter EXCEPT ![u] = 0]
         /\ file' = [file EXCEPT ![u] = file'[u]] /\ Recovered(file[u], file'[u])
<1>1. /\ sends = <<>> /\ Free /\ UNCHANGED <<adm, sends, dev>>
      /\ expiring' = FALSE
  BY DEF sekey_write_recovery
<1>3. IsFiles(file[u]) /\ file = [v \in User |-> file[v]] /\ AreTables(adm)
  BY DEF Base, Tidy
<1> DEFINE F == file[u]
           q == RecoveryFile(adm, u)
<1>4. ClearFirst(q) /\ IsRecords(q) /\ \A n \in 0..Len(q) : IsRecords(SubSeq(q, 1, n))
  BY <1>3, RecoveryFileShape DEF ClearFirst
<1>5. \A n \in 0..Len(q) - 1 : n \in 0..Len(q)
  BY <1>4, SeqFacts DEF IsRecords
<1>6. IsRecords(<<Record(0, DelUser(u))>>)
  <2>1. IsCommands(<<DelUser(u)>>)
    BY FewCommands, NoneAndOneSeq DEF IsCommands
  <2>2. Uncounted(<<DelUser(u)>>) = <<Record(0, DelUser(u))>>
    BY DEF Uncounted
  <2> QED BY <2>1, <2>2, UncountedFacts
<1> HIDE DEF q
<1>7. ASSUME NEW G, Recovered(F, G), file' = [file EXCEPT ![u] = G]
      PROVE  file' = [file EXCEPT ![u] = file'[u]] /\ Recovered(file[u], file'[u])
  BY <1>3, <1>7
<1>8. file' = file => file' = [file EXCEPT ![u] = F]
  BY <1>3
<1>9. /\ recovery' = recovery \cup {u} \/ recovery' = recovery \ {u}
      /\ forgotten' \subseteq forgotten \cup {u} /\ forgotten \ {u} \subseteq forgotten'
      /\ \/ update_counter' = update_counter
         \/ update_counter' = [update_counter EXCEPT ![u] = 0]
  <2>1. CASE RecoveryWritten(u)
    BY <2>1 DEF RecoveryWritten
  <2>2. CASE RecoveryFails(u)
    BY <2>2 DEF RecoveryFails
  <2>3. CASE RecoverDeleted(u)
    BY <2>3 DEF RecoverDeleted
  <2> QED BY <2>1, <2>2, <2>3 DEF sekey_write_recovery
<1>10. \E G : Recovered(F, G) /\ file' = [file EXCEPT ![u] = G]
  <2>1. \/ file' = [file EXCEPT ![u] = F]
        \/ \E r : IsRecords(r) /\ file' = [file EXCEPT ![u] = WithFile(F, "recovery", r)]
        \/ file' = [file EXCEPT ![u] = WithFile(WithoutFile(F, "normal"), "recovery", q)]
    <3>1. CASE RecoveryWritten(u)
      BY <1>4, <3>1 DEF RecoveryWritten, q
    <3>2. CASE RecoveryFails(u)
      BY <1>4, <1>5, <1>8, <3>2 DEF RecoveryFails, q
    <3>3. CASE RecoverDeleted(u)
      BY <1>6, <1>8, <3>3 DEF RecoverDeleted
    <3> QED BY <3>1, <3>2, <3>3 DEF sekey_write_recovery
  <2>2. Recovered(F, F) /\ Recovered(F, WithFile(WithoutFile(F, "normal"), "recovery", q))
        /\ \A r : IsRecords(r) => Recovered(F, WithFile(F, "recovery", r))
    BY <1>3, <1>4, RecoveredFiles
  <2> QED BY <2>1, <2>2
<1> QED BY <1>1, <1>7, <1>9, <1>10

LEMMA IdleWhenFree ==
  ASSUME Exclusive, Free
  PROVE  sends = <<>> /\ \A u \in User : dev[u].pc = "idle"
BY DEF Free

\* A file that is given to a user whose device is idle.
LEMMA IdleFlow ==
  ASSUME NEW d, NEW F, NEW G, FlowAt(d, F), d.pc = "idle", d.ready \/ "init" \notin DOMAIN G
  PROVE  FlowAt(d, G)
BY DEF FlowAt

LEMMA QueueTail ==
  ASSUME IsQueue(sends), sends # <<>>
  PROVE  /\ IsQueue(Tail(sends)) /\ Head(sends) = sends[1] /\ Head(sends).to \in User
         /\ Head(sends).erase \in BOOLEAN /\ IsCommand(Head(sends).cmd)
         /\ Len(sends) \in Nat \ {0} /\ Len(Tail(sends)) = Len(sends) - 1
         /\ \A i \in 1..Len(Tail(sends)) : i + 1 \in 1..Len(sends) /\ Tail(sends)[i] = sends[i + 1]
<1>1. /\ IsSeq(Tail(sends)) /\ Len(Tail(sends)) = Len(sends) - 1
      /\ Head(sends) = sends[1] /\ Len(sends) \in Nat \ {0}
      /\ \A i \in 1..(Len(sends) - 1) : Tail(sends)[i] = sends[i + 1]
  BY TailSeq DEF IsQueue
<1>2. \A i \in 1..Len(Tail(sends)) : i + 1 \in 1..Len(sends) /\ Tail(sends)[i] = sends[i + 1]
  BY <1>1
<1>3. 1 \in 1..Len(sends)
  BY <1>1
<1> QED BY <1>1, <1>2, <1>3 DEF IsQueue

\* A record is written: it joins the normal file, or is that file.
WrittenFor(u, c) ==
  IF Present(u) THEN Append(Records(u, "normal"), Record(update_counter[u] + 1, c))
                ELSE <<Record(0, c)>>

LEMMA SendNextIs ==
  ASSUME Base, SendNext
  PROVE  LET u == Head(sends).to
             q == WrittenFor(u, Head(sends).cmd)
         IN  /\ sends # <<>> /\ sends' = Tail(sends) /\ u \in User
             /\ IsRecords(q) /\ file' = [file EXCEPT ![u] = WithFile(file[u], "normal", q)]
             /\ update_counter' = IF Present(u) THEN [update_counter EXCEPT ![u] = @ + 1]
                                                ELSE update_counter
             /\ recovery' = IF Head(sends).erase THEN recovery \ {u} ELSE recovery
             /\ UNCHANGED <<adm, aflash, dev, expiring, forgotten>>
<1> DEFINE s == Head(sends)
           u == s.to
           q == WrittenFor(u, s.cmd)
<1>1. sends # <<>>
  BY DEF SendNext
<1>2. u \in User /\ IsCommand(s.cmd)
  BY <1>1, QueueTail DEF Base
<1>3. /\ sends' = Tail(sends) /\ UNCHANGED <<adm, aflash, dev, expiring, forgotten>>
      /\ file' = [file EXCEPT ![u] = WithFile(file[u], "normal", q)]
      /\ update_counter' = IF Present(u) THEN [update_counter EXCEPT ![u] = @ + 1]
                                         ELSE update_counter
  BY DEF SendNext, WrittenFor
<1>4. recovery' = IF s.erase THEN recovery \ {u} ELSE recovery
  BY DEF SendNext, Erase
<1>5. IsRecords(q)
  <2> DEFINE r == Record(update_counter[u] + 1, s.cmd)
             o == Record(0, s.cmd)
             p == Records(u, "normal")
  <2>1. r.cnt \in Nat /\ o.cnt \in Nat /\ r.cmd = s.cmd /\ o.cmd = s.cmd
    BY <1>2 DEF Record, Base
  <2>2. IsRecords(p)
    BY <1>2, NoTxFacts DEF Records, Pending, Base, IsFiles, NoTx
  <2> HIDE DEF r, p, o, s
  <2>3. IsRecords(Append(p, r))
    <3>1. IsSeq(p) /\ Len(p) \in Nat /\ \A i \in 1..Len(p) : p[i].cnt \in Nat /\ IsCommand(p[i].cmd)
      BY <2>2, SeqFacts DEF IsRecords
    <3>2. /\ IsSeq(Append(p, r)) /\ Len(Append(p, r)) = Len(p) + 1 /\ Append(p, r)[Len(p) + 1] = r
          /\ \A i \in 1..Len(p) : Append(p, r)[i] = p[i]
      BY <3>1, AppendSeq, ZenonT(60)
    <3>3. \A i \in 1..(Len(p) + 1) : i \in 1..Len(p) \/ i = Len(p) + 1
      BY <3>1
    <3> QED BY <1>2, <2>1, <3>1, <3>2, <3>3 DEF IsRecords
  <2>4. IsRecords(<<o>>)
    <3>1. IsSeq(<<o>>) /\ Len(<<o>>) = 1 /\ <<o>>[1] = o
      BY NoneAndOneSeq
    <3>2. \A i \in 1..Len(<<o>>) : i = 1
      BY <3>1
    <3> QED BY <1>2, <2>1, <3>1, <3>2 DEF IsRecords
  <2>5. q = IF Present(u) THEN Append(p, r) ELSE <<o>>
    BY DEF WrittenFor, p, r, o
  <2> HIDE DEF q
  <2> QED BY <2>3, <2>4, <2>5
<1> QED BY <1>1, <1>2, <1>3, <1>4, <1>5

LEMMA SendFailsIs ==
  ASSUME Base, SendFails
  PROVE  LET u == Head(sends).to
         IN  /\ sends # <<>> /\ sends' = Tail(sends) /\ u \in User
             /\ \/ update_counter' = update_counter
                \/ Present(u) /\ update_counter' = [update_counter EXCEPT ![u] = @ + 1]
             /\ forgotten' = IF Head(sends).erase THEN forgotten ELSE forgotten \cup {u}
             /\ UNCHANGED <<adm, aflash, recovery, file, dev, expiring>>
<1>1. sends # <<>>
  BY DEF SendFails
<1>2. Head(sends).to \in User
  BY <1>1, QueueTail DEF Base
<1> QED BY <1>1, <1>2 DEF SendFails

LEMMA AddUserIs ==
  ASSUME Base, NEW u \in User, sekey_add_user(u)
  PROVE  /\ sends = <<>> /\ Free /\ Tidy(adm') /\ Needed(adm') = Needed(adm)
         /\ ~Present(u) /\ ~dev[u].ready /\ file[u] = NoFiles /\ u \notin recovery \cup forgotten
         /\ adm'.users = Plus(adm.users, [x \in {u} |-> NewUserRow])
         /\ DOMAIN adm'.users = DOMAIN adm.users \cup {u}
         /\ adm'.groups = adm.groups /\ adm'.member = adm.member /\ adm'.keys = adm.keys
         /\ UNCHANGED <<aflash, update_counter, recovery, sends, file, dev, forgotten>>
<1> DEFINE t == Plus(adm.users, [x \in {u} |-> NewUserRow])
           new == [adm EXCEPT !.users = t]
<1>1. /\ sends = <<>> /\ Free /\ adm' = new
      /\ ~Present(u) /\ ~dev[u].ready /\ file[u] = NoFiles /\ u \notin recovery \cup forgotten
      /\ UNCHANGED <<aflash, update_counter, recovery, sends, file, dev, forgotten>>
  BY DEF sekey_add_user, Call, Ready
<1>2. Tidy(adm)
  BY DEF Base
<1>3. /\ Tidy(new) /\ new.groups = adm.groups /\ new.member = adm.member /\ new.keys = adm.keys
      /\ new.users = t
  BY <1>1, <1>2, TidyAddUser DEF Present
<1>4. DOMAIN t = DOMAIN adm.users \cup {u}
  BY DEF Plus
<1> HIDE DEF new
<1>5. Needed(new) = Needed(adm)
  BY <1>3, SameKeysNeeded
<1> QED BY <1>1, <1>3, <1>4, <1>5

LEMMA InitUserIs ==
  ASSUME Base, NEW u \in User, sekey_init_user_SEcube(u)
  PROVE  LET q == InitFile(u)
         IN  /\ sends = <<>> /\ Free /\ Present(u) /\ IsRecords(q) /\ InitLike(u, q)
             /\ dev[u].pc = "idle"
             /\ dev' = [dev EXCEPT ![u] = Provisioned]
             /\ \/ /\ file' = [file EXCEPT ![u] = WithFile(file[u], "init", q)]
                   /\ forgotten' = IF dev[u].ready THEN forgotten \cup {u} ELSE forgotten
                \/ /\ \/ file' = file
                      \/ file' = [file EXCEPT ![u] = WithoutFile(file[u], "init")]
                   /\ forgotten' = forgotten \cup {u}
             /\ UNCHANGED <<adm, aflash, update_counter, recovery, sends>>
<1> DEFINE row == adm.users[u]
           s == Insert([x \in {u} |-> row], <<>>, {}, <<>>)
           c == SQL(<<Clear, s>>)
           q == InitFile(u)
<1>1. /\ sends = <<>> /\ Free /\ Present(u) /\ dev[u].pc = "idle"
      /\ dev' = [dev EXCEPT ![u] = Provisioned]
      /\ \/ /\ file' = [file EXCEPT ![u] = WithFile(file[u], "init", q)]
            /\ forgotten' = IF dev[u].ready THEN forgotten \cup {u} ELSE forgotten
         \/ /\ \/ file' = file
               \/ file' = [file EXCEPT ![u] = WithoutFile(file[u], "init")]
            /\ forgotten' = forgotten \cup {u}
      /\ UNCHANGED <<adm, aflash, update_counter, recovery, sends>>
  BY DEF sekey_init_user_SEcube, Call, Ready
<1>2. row \in UserRow
  BY <1>1 DEF Base, Tidy, AreTables, IsTable, Present
<1>3. q = <<Record(0, c)>>
  BY DEF InitFile
<1>4. InitLike(u, q)
  <2> HIDE DEF row, q
  <2>1. q = <<Record(0, SQL(<<Clear, Insert([x \in {u} |-> row], <<>>, {}, <<>>)>>))>>
    BY <1>3
  <2> QED BY <1>2, <2>1 DEF InitLike
<1>5. IsCommand(c)
  BY FewCommands, ClearIsCommand, InsertIsStatement
<1> HIDE DEF c, q
<1>6. IsRecords(<<Record(0, c)>>)
  <2>1. IsSeq(<<c>>) /\ IsSeq(<<Record(0, c)>>) /\ Len(<<Record(0, c)>>) = 1 /\ <<Record(0, c)>>[1] = Record(0, c)
    BY NoneAndOneSeq
  <2>2. Record(0, c).cnt = 0 /\ Record(0, c).cmd = c
    BY DEF Record
  <2>3. \A i \in 1..Len(<<Record(0, c)>>) : i = 1
    BY <2>1
  <2> QED BY <1>5, <2>1, <2>2, <2>3 DEF IsRecords
<1> QED BY <1>1, <1>3, <1>4, <1>6 DEF q

LEMMA WithInit ==
  ASSUME NEW F, IsFiles(F), NEW q, IsRecords(q)
  PROVE  LET G == WithFile(F, "init", q)
         IN  /\ IsFiles(G) /\ DOMAIN G = DOMAIN F \cup {"init"} /\ G["init"] = q
             /\ \A h \in DOMAIN F : h # "init" => G[h] = F[h]
<1>1. "init" \in File
  BY DEF File
<1> DEFINE f == "init"
<1>2. f \in File /\ f = "init"
  BY <1>1
<1> HIDE DEF f
<1>3. LET K == WithFile(F, f, q)
      IN  IsFiles(K) /\ DOMAIN K = DOMAIN F \cup {f} /\ K[f] = q
          /\ \A h \in DOMAIN F : h # f => K[h] = F[h]
  BY <1>2, WithFileFacts
<1> QED BY <1>2, <1>3

LEMMA WithoutInit ==
  ASSUME NEW F, IsFiles(F)
  PROVE  LET G == WithoutFile(F, "init")
         IN  /\ IsFiles(G) /\ DOMAIN G = DOMAIN F \ {"init"}
             /\ \A h \in DOMAIN F : h # "init" => G[h] = F[h]
<1> DEFINE G == WithoutFile(F, "init")
<1>1. IsFiles(G) /\ DOMAIN G = DOMAIN F \ {"init"} /\ \A h \in DOMAIN G : G[h] = F[h]
  BY WithoutFileFacts
<1> HIDE DEF G
<1>2. /\ IsFiles(G) /\ DOMAIN G = DOMAIN F \ {"init"}
      /\ \A h \in DOMAIN F : h # "init" => G[h] = F[h]
  BY <1>1
<1> QED BY <1>2 DEF G

LEMMA BaseKept ==
  ASSUME UNCHANGED <<adm, aflash, update_counter, recovery, sends, file, dev, forgotten>>
  PROVE  /\ Base => Base'
         /\ Flow => Flow'
<1>1. Base => Base'
  BY ZenonT(60) DEF Base, InitLike, Pending, Tidy, Counted, AreTables, IsTable, KeysOf, MembersOf
<1>2. Flow => Flow'
  BY DEF Flow, FlowAt
<1> QED BY <1>1, <1>2

LEMMA BaseAdmin ==
  ASSUME Base, Flow, Exclusive, AdminCall
  PROVE  Base' /\ Flow'
<1>0. /\ dev = [v \in User |-> dev[v]] /\ file = [v \in User |-> file[v]]
      /\ \A v \in User : /\ IsFiles(file[v]) /\ IsDevice(dev[v]) /\ FlowAt(dev[v], file[v])
                         /\ Pending(v, "init") => InitLike(v, file[v]["init"])
  BY DEF Base, Flow
<1>1. CASE Changed
  <2>1. \A u \in User : dev[u].pc = "idle"
    BY <1>1, IdleWhenFree DEF Changed
  <2>2. recovery' \subseteq User
    <3>1. recovery' = recovery \cup {sends'[i].to : i \in DOMAIN sends'} /\ IsQueue(sends')
      BY <1>1 DEF Changed
    <3>2. \A i \in DOMAIN sends' : sends'[i].to \in User
      BY <3>1, SeqFacts DEF IsQueue
    <3> QED BY <3>1, <3>2 DEF Base
  <2>3. Base'
    BY <1>1, <2>2 DEF Changed, Base, Pending
  <2>4. Flow'
    BY <1>1, <2>1 DEF Changed, Flow
  <2> QED BY <2>3, <2>4
<1>2. CASE Leaked
  BY <1>2 DEF Leaked, Base, Flow, Pending
<1>3. ASSUME NEW u \in User, sekey_add_user(u)
      PROVE  Base' /\ Flow'
  <2>1. /\ Tidy(adm') /\ Needed(adm') = Needed(adm)
        /\ UNCHANGED <<aflash, update_counter, recovery, sends, file, dev, forgotten>>
    BY <1>3, AddUserIs
  <2> QED BY <2>1 DEF Base, Flow, Pending
<1>4. ASSUME NEW u \in User, sekey_init_user_SEcube(u)
      PROVE  Base' /\ Flow'
  <2> DEFINE q == InitFile(u)
             F == file[u]
             W == WithFile(F, "init", q)
             O == WithoutFile(F, "init")
             G == file'[u]
  <2>1. /\ sends = <<>> /\ IsRecords(q) /\ InitLike(u, q)
        /\ dev' = [dev EXCEPT ![u] = Provisioned]
        /\ \/ file' = [file EXCEPT ![u] = W]
           \/ file' = file
           \/ file' = [file EXCEPT ![u] = O]
        /\ forgotten' \subseteq forgotten \cup {u}
        /\ UNCHANGED <<adm, aflash, update_counter, recovery, sends>>
    BY <1>4, InitUserIs
  <2>2. IsFiles(file[u]) /\ IsRecords(q)
    BY <1>0, <2>1
  <2> HIDE DEF q
  <2>3. /\ IsFiles(W) /\ W["init"] = q
        /\ IsFiles(O) /\ "init" \notin DOMAIN O
    <3>1. IsFiles(F) /\ IsRecords(q)
      BY <2>2
    <3> HIDE DEF F
    <3>2. IsFiles(W) /\ W["init"] = q
      BY <3>1, WithInit
    <3>3. IsFiles(O) /\ DOMAIN O = DOMAIN F \ {"init"}
      BY <3>1, WithoutInit
    <3> HIDE DEF W, O
    <3> QED BY <3>2, <3>3
  <2> HIDE DEF W, O
  <2>4. /\ file' = [v \in User |-> file'[v]] /\ file'[u] \in {W, O, F}
        /\ \A v \in User : v # u => file'[v] = file[v]
    BY <1>0, <2>1
  <2>5. IsFiles(G) /\ ("init" \in DOMAIN G => InitLike(u, G["init"]))
    BY <1>0, <2>1, <2>3, <2>4 DEF Pending
  <2> HIDE DEF G
  <2>6. /\ dev' = [v \in User |-> dev'[v]] /\ file' = [v \in User |-> file'[v]]
        /\ dev'[u] = Provisioned /\ file'[u] = G
        /\ \A v \in User : v # u => dev'[v] = dev[v] /\ file'[v] = file[v]
    BY <1>0, <2>1, <2>4 DEF G
  <2>7. \A v \in User : /\ IsFiles(file'[v]) /\ IsDevice(dev'[v])
                        /\ "init" \in DOMAIN file'[v] => InitLike(v, file'[v]["init"])
    BY <1>0, <2>5, <2>6, BlankDevice DEF Pending
  <2>8. FlowAt(Provisioned, G)
    BY BlankDevice DEF FlowAt
  <2>9. \A v \in User : FlowAt(dev'[v], file'[v])
    BY <1>0, <2>6, <2>8
  <2>10. forgotten' \subseteq User
    BY <2>1 DEF Base
  <2>11. Base'
    BY <2>1, <2>6, <2>7, <2>10 DEF Base, Pending
  <2>12. Flow'
    BY <2>1, <2>9 DEF Flow
  <2> QED BY <2>11, <2>12
<1>5. ASSUME NEW u \in User, sekey_write_recovery(u), Needed(adm) \subseteq aflash'
      PROVE  Base' /\ Flow'
  <2> DEFINE G == file'[u]
  <2>1. /\ sends = <<>> /\ Free /\ UNCHANGED <<adm, sends, dev>>
        /\ Needed(adm) \subseteq aflash'
        /\ recovery' \subseteq recovery \cup {u}
        /\ forgotten' \subseteq forgotten \cup {u}
        /\ \/ update_counter' = update_counter
           \/ update_counter' = [update_counter EXCEPT ![u] = 0]
        /\ file' = [file EXCEPT ![u] = G] /\ Recovered(file[u], G)
    BY <1>5, RecoveryIs
  <2> HIDE DEF G
  <2>2. /\ file' = [v \in User |-> file'[v]] /\ file'[u] = G
        /\ \A v \in User : v # u => file'[v] = file[v]
    BY <1>0, <2>1
  <2>3. /\ IsFiles(G) /\ ("init" \in DOMAIN G <=> "init" \in DOMAIN file[u])
        /\ "init" \in DOMAIN G => G["init"] = file[u]["init"]
    BY <2>1 DEF Recovered
  <2>4. \A v \in User : /\ IsFiles(file'[v])
                        /\ "init" \in DOMAIN file'[v] => InitLike(v, file'[v]["init"])
    BY <1>0, <2>2, <2>3 DEF Pending
  <2>5. dev[u].pc = "idle"
    BY <2>1, IdleWhenFree
  <2>6. FlowAt(dev[u], G)
    BY <1>0, <2>3, <2>5 DEF FlowAt
  <2>7. \A v \in User : FlowAt(dev'[v], file'[v])
    BY <1>0, <2>1, <2>2, <2>6
  <2>8. recovery' \subseteq User /\ forgotten' \subseteq User /\ update_counter' \in [User -> Nat]
    BY <2>1 DEF Base
  <2>9. Base'
    BY <1>0, <2>1, <2>2, <2>4, <2>8 DEF Base, Pending
  <2>10. Flow'
    BY <2>1, <2>7 DEF Flow
  <2> QED BY <2>9, <2>10
<1> QED BY <1>1, <1>2, <1>3, <1>4, <1>5, AdminCases

-----------------------------------------------------------------------------
LEMMA WithNormal ==
  ASSUME NEW F, IsFiles(F), NEW q, IsRecords(q)
  PROVE  LET G == WithFile(F, "normal", q)
         IN  /\ IsFiles(G) /\ DOMAIN G = DOMAIN F \cup {"normal"} /\ G["normal"] = q
             /\ \A f \in DOMAIN F : f # "normal" => G[f] = F[f]
<1> DEFINE f == "normal"
<1>1. f \in File /\ f = "normal"
  BY DEF File
<1> HIDE DEF f
<1>2. LET G == WithFile(F, f, q)
      IN  IsFiles(G) /\ DOMAIN G = DOMAIN F \cup {f} /\ G[f] = q
          /\ \A h \in DOMAIN F : h # f => G[h] = F[h]
  BY <1>1, WithFileFacts
<1> QED BY <1>1, <1>2

LEMMA BaseSend ==
  ASSUME Base, Flow, SendNext
  PROVE  Base' /\ Flow'
<1> DEFINE u == Head(sends).to
           q == WrittenFor(u, Head(sends).cmd)
           G == WithFile(file[u], "normal", q)
<1>0. /\ dev = [v \in User |-> dev[v]] /\ file = [v \in User |-> file[v]] /\ recovery \subseteq User
      /\ forgotten \subseteq User /\ update_counter \in [User -> Nat] /\ IsQueue(sends)
      /\ Tidy(adm) /\ Needed(adm) \subseteq aflash
      /\ \A v \in User : /\ IsFiles(file[v]) /\ IsDevice(dev[v]) /\ FlowAt(dev[v], file[v])
                         /\ Pending(v, "init") => InitLike(v, file[v]["init"])
  BY DEF Base, Flow
<1>1. /\ sends # <<>> /\ sends' = Tail(sends) /\ u \in User
      /\ IsRecords(q) /\ file' = [file EXCEPT ![u] = G]
      /\ update_counter' = IF Present(u) THEN [update_counter EXCEPT ![u] = @ + 1]
                                         ELSE update_counter
      /\ recovery' = IF Head(sends).erase THEN recovery \ {u} ELSE recovery
      /\ UNCHANGED <<adm, aflash, dev, forgotten>>
  BY SendNextIs
<1> HIDE DEF u, q
<1>2. /\ IsFiles(G) /\ DOMAIN G = DOMAIN file[u] \cup {"normal"}
      /\ \A f \in DOMAIN file[u] : f # "normal" => G[f] = file[u][f]
  BY <1>0, <1>1, WithNormal, ZenonT(60)
<1> HIDE DEF G
<1>3. /\ file' = [v \in User |-> file'[v]] /\ file'[u] = G
      /\ \A v \in User : v # u => file'[v] = file[v]
  BY <1>0, <1>1
<1>4. "init" \in DOMAIN G => "init" \in DOMAIN file[u] /\ G["init"] = file[u]["init"]
  BY <1>2
<1>5. \A v \in User : /\ IsFiles(file'[v])
                      /\ "init" \in DOMAIN file'[v] => InitLike(v, file'[v]["init"])
  BY <1>0, <1>2, <1>3, <1>4 DEF Pending
<1>6. dev[u].pc = "idle" /\ \A v \in User : dev[v].pc = "idle"
  BY <1>1 DEF Flow
<1>7. FlowAt(dev[u], G)
  BY <1>0, <1>1, <1>4, <1>6 DEF FlowAt
<1>8. \A v \in User : FlowAt(dev'[v], file'[v])
  BY <1>0, <1>1, <1>3, <1>7
<1>9. update_counter' \in [User -> Nat] /\ recovery' \subseteq User
  BY <1>0, <1>1
<1>10. IsQueue(sends')
  BY <1>0, <1>1, QueueTail
<1>11. Base'
  BY <1>0, <1>1, <1>3, <1>5, <1>9, <1>10 DEF Base, Pending
<1>12. Flow'
  BY <1>1, <1>6, <1>8 DEF Flow
<1> QED BY <1>11, <1>12

LEMMA BaseLoss ==
  ASSUME Base, Flow, SendFails \/ AdminCrash
  PROVE  Base' /\ Flow'
<1>1. CASE SendFails
  <2> DEFINE u == Head(sends).to
  <2>1. /\ sends # <<>> /\ sends' = Tail(sends) /\ u \in User
        /\ \/ update_counter' = update_counter
           \/ update_counter' = [update_counter EXCEPT ![u] = @ + 1]
        /\ forgotten' = IF Head(sends).erase THEN forgotten ELSE forgotten \cup {u}
        /\ UNCHANGED <<adm, aflash, recovery, file, dev>>
    BY <1>1, SendFailsIs
  <2> HIDE DEF u
  <2>2. update_counter \in [User -> Nat] /\ forgotten \subseteq User
    BY DEF Base
  <2>3. update_counter' \in [User -> Nat]
    BY <2>1, <2>2
  <2>4. forgotten' \subseteq User
    BY <2>1, <2>2
  <2>5. IsQueue(sends')
    BY <2>1, QueueTail DEF Base
  <2>6. Base'
    BY <2>1, <2>3, <2>4, <2>5 DEF Base, Pending
  <2>7. Flow'
    BY <2>1 DEF Flow
  <2> QED BY <2>6, <2>7
<1>2. CASE AdminCrash
  <2>1. /\ sends' = <<>> /\ aflash' = {k \in aflash : k \in DOMAIN adm.keys /\ adm.keys[k].status # "destroyed"}
        /\ UNCHANGED <<adm, update_counter, recovery, file, dev, forgotten>>
    BY <1>2 DEF AdminCrash
  <2>2. Needed(adm) \subseteq aflash'
    BY <2>1 DEF Base, Needed
  <2>3. IsQueue(sends')
    BY <2>1, NoQueue
  <2>4. Base'
    BY <2>1, <2>2, <2>3 DEF Base, Pending
  <2>5. Flow'
    BY <2>1 DEF Flow
  <2> QED BY <2>4, <2>5
<1> QED BY <1>1, <1>2

LEMMA BaseUser ==
  ASSUME Base, Flow, Exclusive, NEW u \in User, UserStep(u) \/ RollBack(u)
  PROVE  Base' /\ Flow'
<1>0. /\ dev = [v \in User |-> dev[v]] /\ file = [v \in User |-> file[v]]
      /\ \A v \in User : /\ IsFiles(file[v]) /\ IsDevice(dev[v]) /\ FlowAt(dev[v], file[v])
                         /\ Pending(v, "init") => InitLike(v, file[v]["init"])
  BY DEF Base, Flow
<1>1. /\ UserOnly /\ sends = <<>>
      /\ dev' = [dev EXCEPT ![u] = dev'[u]] /\ file' = [file EXCEPT ![u] = file'[u]]
      /\ DeviceStep(u, dev[u], file[u], dev'[u], file'[u])
  BY UserStepIs
<1>2. /\ dev' = [v \in User |-> dev'[v]] /\ file' = [v \in User |-> file'[v]]
      /\ \A v \in User : v # u => dev'[v] = dev[v] /\ file'[v] = file[v]
  BY <1>0, <1>1
<1>3. /\ IsDevice(dev'[u]) /\ IsFiles(file'[u])
      /\ DOMAIN file'[u] \subseteq DOMAIN file[u] /\ \A f \in DOMAIN file'[u] : file'[u][f] = file[u][f]
  BY <1>0, <1>1, DeviceStepShape
<1>4. FlowAt(dev'[u], file'[u])
  BY <1>0, <1>1, DeviceStepFlow
<1>5. "init" \in DOMAIN file'[u] => InitLike(u, file'[u]["init"])
  BY <1>0, <1>3 DEF Pending
<1>6. Base'
  BY <1>0, <1>1, <1>2, <1>3, <1>5 DEF Base, Pending, UserOnly
<1>7. Flow'
  BY <1>0, <1>1, <1>2, <1>4 DEF Flow, UserOnly
<1> QED BY <1>6, <1>7

LEMMA BaseNext ==
  ASSUME Exclusive, Base, Flow, [Next]_vars
  PROVE  Base' /\ Flow'
<1>1. CASE UNCHANGED vars
  BY <1>1, BaseKept DEF vars
<1>2. CASE Next
  BY <1>2, BaseAdmin, BaseSend, BaseLoss, BaseUser DEF Next
<1> QED BY <1>1, <1>2

-----------------------------------------------------------------------------
(* The numbers of the records.                                              *)

\* A transaction that has counted nothing, or will start its count again.
Restarting(tx) == Zeros(tx.todo) /\ (tx.todo # <<>> \/ tx.cnt = 0)

AtMost(q, n) == \A i \in 1..Len(q) : q[i].cnt <= n

Rising(q, n) ==
  /\ \A i, j \in 1..Len(q) : i < j => q[i].cnt < q[j].cnt
  /\ \A i \in 1..Len(q) : q[i].cnt \in 1..n

NormalOf(F) == IF "normal" \in DOMAIN F THEN F["normal"] ELSE <<>>

\* Device d and files F of a user whose records are numbered up to n.
Ordered(d, F, n) ==
  /\ Rising(NormalOf(F), n)
  /\ "init" \notin DOMAIN F /\ "recovery" \notin DOMAIN F => d.cnt <= n
  /\ "recovery" \in DOMAIN F => ClearFirst(F["recovery"])
  /\ d.open /\ d.pc = "recovery" => Restarting(d.tx)
  /\ d.open /\ d.pc = "normal" => d.tx.cnt <= n /\ AtMost(d.tx.todo, n)

\* The inductive invariant of the numbers.
NumberInv ==
  \A u \in User :
    /\ dev[u].open /\ dev[u].pc = "init" => Restarting(dev[u].tx)
    /\ Present(u) /\ (u \notin recovery \/ sends # <<>> \/ expiring) =>
         Ordered(dev[u], file[u], update_counter[u])

LEMMA InitFileRestarts ==
  ASSUME NEW u, NEW q, InitLike(u, q)
  PROVE  Zeros(q) /\ q # <<>>
<1>1. PICK c : q = <<Record(0, c)>>
  BY DEF InitLike
<1>2. Record(0, c).cnt = 0
  BY DEF Record
<1> HIDE DEF InitLike
<1> QED BY <1>1, <1>2, NoneAndOneSeq DEF Zeros

LEMMA NoneRising ==
  ASSUME NEW n \in Nat
  PROVE  Rising(<<>>, n)
BY NoneAndOneSeq DEF Rising

\* A step of a device keeps its count.
LEMMA DeviceStepCounts ==
  ASSUME NEW u, NEW d, NEW F, NEW D, NEW G, NEW n \in Nat, IsDevice(d), IsFiles(F), FlowAt(d, F),
         "init" \in DOMAIN F => InitLike(u, F["init"]),
         d.open /\ d.pc = "init" => Restarting(d.tx),
         DeviceStep(u, d, F, D, G)
  PROVE  /\ D.open /\ D.pc = "init" => Restarting(D.tx)
         /\ Ordered(d, F, n) => Ordered(D, G, n)
<1>0. /\ IsDevice(D) /\ IsFiles(G) /\ DOMAIN G \subseteq DOMAIN F
      /\ \A f \in DOMAIN G : G[f] = F[f]
  BY DeviceStepShape
<1>1. /\ Lasting(d) /\ Lasting(Done(d, u)) /\ Done(d, u).pc = d.pc
      /\ d = [z \in DeviceField |-> d[z]] /\ Done(d, u) = [z \in DeviceField |-> Done(d, u)[z]]
      /\ Done(d, u).cnt = IF u \in DOMAIN d.tx.db.users THEN d.tx.cnt ELSE 0
  BY DoneLasts, DoneFacts DEF Lasting
<1>2. Ordered(d, F, n) =>
        /\ Rising(NormalOf(G), n)
        /\ "recovery" \in DOMAIN G => ClearFirst(G["recovery"])
  BY <1>0, NoneRising DEF Ordered, NormalOf
<1>3. d.cnt \in Nat /\ d.tx.cnt \in Nat /\ IsRecords(d.tx.todo)
  BY DEF IsDevice
\* The steps after which no file is open and the count is as it was.
<1>4. ASSUME D.open = FALSE, D.cnt = d.cnt, G = F
      PROVE  /\ D.open /\ D.pc = "init" => Restarting(D.tx)
             /\ Ordered(d, F, n) => Ordered(D, G, n)
  BY <1>2, <1>4 DEF Ordered
<1>5. CASE Started(d, F, D, G)
  <2>1. D.open = FALSE /\ D.cnt = d.cnt /\ G = F
    BY <1>5 DEF Started, Same, FlowAt, IsDevice
  <2> QED BY <1>4, <2>1
<1>6. CASE Skipped(u, d, F, D, G)
  <2>1. D.open = FALSE /\ D.cnt = d.cnt /\ G = F
    BY <1>1, <1>6, FollowingFacts DEF Skipped
  <2> QED BY <1>4, <2>1
<1>7. CASE Halted(d, F, D, G)
  <2>1. D.open = FALSE /\ D.cnt = d.cnt /\ G = F
    BY <1>1, <1>7, StoppedFacts DEF Halted
  <2> QED BY <1>4, <2>1
<1>8. CASE Opened(d, F, D, G)
  <2>1. /\ d.pc \in DOMAIN F /\ D.pc = d.pc /\ D.cnt = d.cnt /\ G = F
        /\ D.tx.cnt = d.cnt /\ D.tx.todo = F[d.pc]
    BY <1>8 DEF Opened, Same
  <2>2. d.pc = "init" => Restarting(D.tx)
    BY <2>1, InitFileRestarts DEF Restarting
  <2>3. Ordered(d, F, n) /\ d.pc = "recovery" => Restarting(D.tx)
    BY <2>1 DEF Restarting, ClearFirst, Ordered
  <2>4. Ordered(d, F, n) /\ d.pc = "normal" => D.tx.cnt <= n /\ AtMost(D.tx.todo, n)
    <3>1. d.pc = "normal" => "init" \notin DOMAIN F /\ "recovery" \notin DOMAIN F
      BY DEF FlowAt
    <3>2. d.pc = "normal" => NormalOf(F) = D.tx.todo
      BY <2>1 DEF NormalOf
    <3>3. \A i : i \in 1..n => i <= n
      OBVIOUS
    <3> QED BY <2>1, <3>1, <3>2, <3>3 DEF Ordered, Rising, AtMost
  <2> QED BY <1>2, <2>1, <2>2, <2>3, <2>4 DEF Ordered
<1>9. CASE Executing(u, d, F, D, G)
  <2> DEFINE r == Head(d.tx.todo)
             e == Apply(Work(d), u, r)
  <2>0. /\ d.open /\ d.tx.todo # <<>> /\ D.cnt = d.cnt /\ D.pc = d.pc /\ D.open = d.open
        /\ D.tx = [db |-> e.db, cnt |-> e.cnt, todo |-> Tail(d.tx.todo)] /\ G = F
    BY <1>9 DEF Executing, Same
  <2> HIDE DEF e
  <2>1. D.tx.cnt = e.cnt /\ D.tx.todo = Tail(d.tx.todo)
    BY <2>0
  <2> USE <2>0
  <2>2. /\ r = d.tx.todo[1] /\ r.cnt \in Nat /\ IsCommand(r.cmd)
        /\ Len(d.tx.todo) \in Nat \ {0}
        /\ \A i \in 1..Len(Tail(d.tx.todo)) :
             i + 1 \in 1..Len(d.tx.todo) /\ Tail(d.tx.todo)[i] = d.tx.todo[i + 1]
    BY <1>3, <2>1, RecordsTail
  <2>3. IsWork(Work(d)) /\ Work(d).cnt = d.tx.cnt /\ Work(d).ok = TRUE
    BY WorkFacts
  <2>4. e.cnt \in {d.tx.cnt, r.cnt} /\ (r.cnt = 0 => e.cnt = 0)
    BY <2>2, <2>3, ApplyShape DEF e
  <2>5. 1 \in 1..Len(d.tx.todo)
    BY <2>2
  <2> HIDE DEF r, e
  <2>6. Restarting(d.tx) => Restarting(D.tx)
    BY <2>1, <2>2, <2>4, <2>5 DEF Restarting, Zeros
  <2>7. d.tx.cnt <= n /\ AtMost(d.tx.todo, n) => D.tx.cnt <= n /\ AtMost(D.tx.todo, n)
    BY <2>1, <2>2, <2>4, <2>5 DEF AtMost
  <2> QED BY <1>2, <2>1, <2>6, <2>7 DEF Ordered
<1>10. CASE Closed(u, d, F, D, G)
  <2>1. D.open = FALSE /\ D.cnt = Done(d, u).cnt
    <3> DEFINE e == Done(d, u)
    <3>1. e.pc \in File
      BY <1>1, <1>10 DEF Closed, FlowAt, IsDevice
    <3>2. D = Following(e, u) \/ D = Finished(e, u) \/ D = Stopped(e)
      BY <1>10 DEF Closed
    <3>3. e = [z \in DeviceField |-> e[z]]
      BY <1>1
    <3> HIDE DEF e
    <3>4. ASSUME D = Following(e, u)
          PROVE  D.open = FALSE /\ D.cnt = e.cnt
      BY <3>1, <3>3, <3>4, FollowingFacts
    <3>5. ASSUME D = Finished(e, u)
          PROVE  D.open = FALSE /\ D.cnt = e.cnt
      BY <3>3, <3>5, FinishedFacts
    <3>6. ASSUME D = Stopped(e)
          PROVE  D.open = FALSE /\ D.cnt = e.cnt
      BY <3>3, <3>6, StoppedFacts
    <3> QED BY <3>2, <3>4, <3>5, <3>6 DEF e
  <2>2. D.cnt = d.tx.cnt \/ D.cnt = 0
    BY <1>1, <2>1
  <2>3. Ordered(d, F, n) => d.tx.cnt <= n
    <3>1. d.open /\ d.tx.todo = <<>> /\ d.pc \in File
      BY <1>10 DEF Closed, FlowAt, IsDevice
    <3>2. CASE d.pc = "init"
      BY <1>3, <3>1, <3>2 DEF Restarting
    <3>3. CASE d.pc = "recovery"
      BY <1>3, <3>1, <3>3 DEF Ordered, Restarting
    <3>4. CASE d.pc = "normal"
      BY <3>1, <3>4 DEF Ordered
    <3> QED BY <3>1, <3>2, <3>3, <3>4 DEF File
  <2>4. Ordered(d, F, n) => D.cnt <= n
    BY <2>2, <2>3
  <2> QED BY <1>2, <2>1, <2>4 DEF Ordered
<1> QED BY <1>5, <1>6, <1>7, <1>8, <1>9, <1>10 DEF DeviceStep

-----------------------------------------------------------------------------
\* The numbers hold at the start.
LEMMA NumberInit ==
  Init => NumberInv
<1> SUFFICES ASSUME Init, NEW u \in User
             PROVE  /\ dev[u].open /\ dev[u].pc = "init" => Restarting(dev[u].tx)
                    /\ Ordered(dev[u], file[u], update_counter[u])
  BY DEF NumberInv
<1>1. PICK s \in Starts : /\ adm = StartTables(s) /\ aflash = DOMAIN s.owner
                          /\ dev = [v \in User |-> IF v \in s.users THEN UpToDate(v) ELSE Blank]
  BY DEF Init
<1>2. update_counter[u] = 0 /\ file[u] = NoFiles
  BY DEF Init
<1>3. dev[u].open = FALSE /\ dev[u].cnt = 0
  <2>1. Tidy(adm)
    BY <1>1, StartTidy
  <2>2. UpToDate(u).open = FALSE /\ UpToDate(u).cnt = 0
    BY <2>1, UpToDateDevice
  <2>3. Blank.open = FALSE /\ Blank.cnt = 0
    BY DEF Blank
  <2> QED BY <1>1, <2>2, <2>3
<1> QED BY <1>2, <1>3, NoFilesFacts, NoneRising DEF Ordered, NormalOf

\* The administrator's counter only rises.
LEMMA OrderedUpTo ==
  ASSUME NEW d, IsDevice(d), NEW F, IsFiles(F), NEW n \in Nat, Ordered(d, F, n), d.open = FALSE
  PROVE  Ordered(d, F, n + 1)
<1>1. d.cnt \in Nat
  BY DEF IsDevice
<1>2. Rising(NormalOf(F), n + 1)
  BY DEF Ordered, Rising
<1> QED BY <1>1, <1>2 DEF Ordered

LEMMA OrderedAppend ==
  ASSUME NEW d, IsDevice(d), NEW F, IsFiles(F), NEW n \in Nat, Ordered(d, F, n), d.open = FALSE,
         NEW c, IsRecords(Append(NormalOf(F), Record(n + 1, c)))
  PROVE  Ordered(d, WithFile(F, "normal", Append(NormalOf(F), Record(n + 1, c))), n + 1)
<1> DEFINE p == NormalOf(F)
           r == Record(n + 1, c)
           q == Append(p, r)
           G == WithFile(F, "normal", q)
<1>1. IsSeq(p)
  BY NoneAndOneSeq DEF IsFiles, IsRecords, NormalOf
<1>2. Rising(p, n)
  BY DEF Ordered
<1>3. r.cnt = n + 1
  BY DEF Record
<1>4. Len(p) \in Nat /\ Len(q) = Len(p) + 1 /\ q[Len(p) + 1] = r /\ \A i \in 1..Len(p) : q[i] = p[i]
  BY <1>1, AppendSeq, SeqFacts
<1>5. IsRecords(q)
  OBVIOUS
<1> HIDE DEF p, r, q
<1>6. Rising(q, n + 1)
  <2>1. \A i \in 1..Len(p) : p[i].cnt \in 1..n /\ q[i] = p[i]
    BY <1>2, <1>4 DEF Rising
  <2>2. \A i \in 1..Len(q) : i \in 1..Len(p) \/ i = Len(p) + 1
    BY <1>4
  <2>3. \A i \in 1..Len(q) : q[i].cnt \in 1..(n + 1)
    BY <1>3, <1>4, <2>1, <2>2
  <2>4. ASSUME NEW i \in 1..Len(q), NEW j \in 1..Len(q), i < j
        PROVE  q[i].cnt < q[j].cnt
    <3>1. i \in 1..Len(p)
      BY <1>4, <2>4
    <3>2. CASE j \in 1..Len(p)
      BY <1>2, <2>1, <2>4, <3>1, <3>2 DEF Rising
    <3>3. CASE j = Len(p) + 1
      BY <1>3, <1>4, <2>1, <3>1, <3>3
    <3> QED BY <2>2, <3>2, <3>3
  <2> QED BY <2>3, <2>4 DEF Rising
<1>7. /\ DOMAIN G = DOMAIN F \cup {"normal"} /\ G["normal"] = q
      /\ \A f \in DOMAIN F : f # "normal" => G[f] = F[f]
  BY <1>5, WithNormal, SMTT(40)
<1>8. d.cnt \in Nat
  BY DEF IsDevice
<1> HIDE DEF G
<1>9. NormalOf(G) = q
  BY <1>7 DEF NormalOf
<1>10. Ordered(d, G, n + 1)
  BY <1>6, <1>7, <1>8, <1>9 DEF Ordered
<1> QED BY <1>10 DEF G, q, r, p

\* The files of a user whom a recovery takes out of the Recovery table.
LEMMA RecoveredUser ==
  ASSUME Base, NEW u \in User, sekey_write_recovery(u), Present(u), u \notin recovery'
  PROVE  /\ "normal" \notin DOMAIN file'[u] /\ "recovery" \in DOMAIN file'[u]
         /\ file'[u]["recovery"] = RecoveryFile(adm, u)
         /\ update_counter'[u] = 0
         /\ GroupsOf(adm, u) = {} => u \in forgotten'
         /\ "init" \in DOMAIN file'[u] <=> "init" \in DOMAIN file[u]
         /\ "init" \in DOMAIN file'[u] => file'[u]["init"] = file[u]["init"]
<1> DEFINE q == RecoveryFile(adm, u)
           H == WithoutFile(file[u], "normal")
           G == WithFile(H, "recovery", q)
<1>1. /\ update_counter' = [update_counter EXCEPT ![u] = 0]
      /\ file' = [file EXCEPT ![u] = G]
      /\ GroupsOf(adm, u) = {} => u \in forgotten'
  BY DEF sekey_write_recovery, RecoveryWritten, RecoveryFails
<1>2. /\ file = [v \in User |-> file[v]] /\ IsFiles(file[u]) /\ AreTables(adm)
      /\ update_counter \in [User -> Nat]
  BY DEF Base, Tidy
<1>3. IsRecords(q)
  BY <1>2, RecoveryFileShape DEF ClearFirst
<1>4. IsFiles(H) /\ DOMAIN H = DOMAIN file[u] \ {"normal"} /\ \A h \in DOMAIN H : H[h] = file[u][h]
  BY <1>2, WithoutFileFacts
<1> HIDE DEF H, q
<1> DEFINE f == "recovery"
<1>5. f \in File /\ f = "recovery" /\ "normal" # "recovery" /\ "init" # "recovery" /\ "init" # "normal"
  BY DEF File
<1> HIDE DEF f
<1>6. LET K == WithFile(H, f, q)
      IN  IsFiles(K) /\ DOMAIN K = DOMAIN H \cup {f} /\ K[f] = q
          /\ \A h \in DOMAIN H : h # f => K[h] = H[h]
  BY <1>3, <1>4, <1>5, WithFileFacts
<1>7. DOMAIN G = DOMAIN H \cup {"recovery"} /\ G["recovery"] = q
      /\ \A h \in DOMAIN H : h # "recovery" => G[h] = H[h]
  BY <1>5, <1>6
<1>8. file'[u] = G /\ update_counter'[u] = 0
  BY <1>1, <1>2
<1> HIDE DEF G
<1>9. file'[u]["recovery"] = RecoveryFile(adm, u)
  BY <1>7, <1>8 DEF q
<1> QED BY <1>1, <1>4, <1>5, <1>7, <1>8, <1>9

\* Records and counters that a device at rest was given.
LEMMA NumberKept ==
  ASSUME Base, Flow, NumberInv, UNCHANGED <<file, dev>>,
         \A u \in User : u \in DOMAIN adm'.users /\ (u \notin recovery' \/ sends' # <<>> \/ expiring') =>
           Ordered(dev[u], file[u], update_counter'[u])
  PROVE  NumberInv'
BY DEF NumberInv, Present

LEMMA NumberAdmin ==
  ASSUME Base, Flow, Exclusive, NumberInv, AdminCall
  PROVE  NumberInv'
<1>0. /\ dev = [v \in User |-> dev[v]] /\ file = [v \in User |-> file[v]]
      /\ update_counter \in [User -> Nat]
      /\ \A v \in User : /\ IsFiles(file[v]) /\ IsDevice(dev[v]) /\ FlowAt(dev[v], file[v])
  BY DEF Base, Flow
<1>1. CASE Changed
  BY <1>1, NumberKept DEF Changed, Settled, NumberInv, Present
<1>2. CASE Leaked
  BY <1>2, NumberKept DEF Leaked, NumberInv, Present
<1>3. ASSUME NEW u \in User, sekey_add_user(u)
      PROVE  NumberInv'
  <2>1. /\ DOMAIN adm'.users = DOMAIN adm.users \cup {u}
        /\ UNCHANGED <<aflash, update_counter, recovery, sends, file, dev, forgotten>>
        /\ file[u] = NoFiles /\ dev[u] = Blank /\ expiring' = FALSE
    BY <1>0, <1>3, AddUserIs DEF sekey_add_user, Call, FlowAt
  <2>2. Ordered(dev[u], file[u], update_counter[u])
    BY <1>0, <2>1, NoFilesFacts, NoneRising DEF Ordered, NormalOf, Blank
  <2> QED BY <2>1, <2>2, NumberKept DEF NumberInv, Present
<1>4. ASSUME NEW u \in User, sekey_init_user_SEcube(u)
      PROVE  NumberInv'
  <2> DEFINE q == InitFile(u)
             F == file[u]
             W == WithFile(F, "init", q)
             O == WithoutFile(F, "init")
             G == file'[u]
  <2>1. /\ sends = <<>> /\ IsRecords(q) /\ expiring' = FALSE
        /\ dev' = [dev EXCEPT ![u] = Provisioned]
        /\ \/ file' = [file EXCEPT ![u] = W]
           \/ file' = file
           \/ file' = [file EXCEPT ![u] = O]
        /\ UNCHANGED <<adm, aflash, update_counter, recovery, sends>>
    BY <1>4, InitUserIs DEF sekey_init_user_SEcube, Call
  <2>2. IsFiles(file[u]) /\ IsRecords(q)
    BY <1>0, <2>1
  <2> HIDE DEF q
  <2>3. /\ DOMAIN W = DOMAIN F \cup {"init"} /\ DOMAIN O = DOMAIN F \ {"init"}
        /\ \A f \in DOMAIN F : f # "init" => W[f] = F[f] /\ O[f] = F[f]
    <3>1. IsFiles(F) /\ IsRecords(q)
      BY <2>2
    <3> HIDE DEF F
    <3>2. /\ DOMAIN W = DOMAIN F \cup {"init"}
          /\ \A f \in DOMAIN F : f # "init" => W[f] = F[f]
      BY <3>1, WithInit
    <3>3. /\ DOMAIN O = DOMAIN F \ {"init"}
          /\ \A f \in DOMAIN F : f # "init" => O[f] = F[f]
      BY <3>1, WithoutInit
    <3> HIDE DEF W, O
    <3> QED BY <3>2, <3>3
  <2> HIDE DEF W, O
  <2>7. /\ file'[u] \in {W, O, F}
        /\ \A v \in User : v # u => file'[v] = file[v]
    BY <1>0, <2>1
  <2>8. /\ DOMAIN G \ {"init"} = DOMAIN F \ {"init"}
        /\ \A f \in DOMAIN F : f # "init" => G[f] = F[f]
    BY <2>3, <2>7
  <2> HIDE DEF G
  <2>4. /\ dev'[u] = Provisioned /\ file'[u] = G
        /\ \A v \in User : v # u => dev'[v] = dev[v] /\ file'[v] = file[v]
    BY <1>0, <2>1, <2>7 DEF G
  <2>5. Provisioned.open = FALSE /\ Provisioned.cnt = 0 /\ update_counter[u] \in Nat
    BY <1>0, BlankDevice DEF Provisioned, Blank
  <2>6. Ordered(dev[u], F, update_counter[u]) => Ordered(Provisioned, G, update_counter[u])
    <3>1. NormalOf(G) = NormalOf(F) /\ ("recovery" \in DOMAIN G => G["recovery"] = F["recovery"])
          /\ ("recovery" \in DOMAIN G <=> "recovery" \in DOMAIN F)
      BY <2>8 DEF NormalOf
    <3> QED BY <2>5, <3>1 DEF Ordered
  <2> QED BY <2>1, <2>4, <2>5, <2>6 DEF NumberInv, Present
<1>5. ASSUME NEW u \in User, sekey_write_recovery(u)
      PROVE  NumberInv'
  <2>1. /\ sends = <<>> /\ Free /\ UNCHANGED <<adm, sends, dev>> /\ expiring' = FALSE
        /\ recovery' = recovery \cup {u} \/ recovery' = recovery \ {u}
        /\ \/ update_counter' = update_counter
           \/ update_counter' = [update_counter EXCEPT ![u] = 0]
        /\ file' = [file EXCEPT ![u] = file'[u]]
    BY <1>5, RecoveryIs
  <2>2. /\ \A v \in User : v # u => file'[v] = file[v] /\ update_counter'[v] = update_counter[v]
    BY <1>0, <2>1
  <2>3. \A v \in User : dev[v].open = FALSE
    BY <1>0, <2>1, IdleWhenFree DEF FlowAt, IsDevice
  <2>4. Present(u) /\ u \notin recovery' => Ordered(dev[u], file'[u], update_counter'[u])
    <3> HAVE Present(u) /\ u \notin recovery'
    <3>1. /\ "normal" \notin DOMAIN file'[u] /\ "recovery" \in DOMAIN file'[u]
          /\ file'[u]["recovery"] = RecoveryFile(adm, u)
          /\ update_counter'[u] = 0
      BY <1>5, RecoveredUser
    <3>2. ClearFirst(RecoveryFile(adm, u))
      BY RecoveryFileShape DEF Base, Tidy
    <3> QED BY <2>3, <3>1, <3>2, NoneRising DEF Ordered, NormalOf
  <2> QED BY <2>1, <2>2, <2>3, <2>4 DEF NumberInv, Present
<1> QED BY <1>1, <1>2, <1>3, <1>4, <1>5, AdminCases

LEMMA NumberSend ==
  ASSUME Base, Flow, NumberInv, SendNext
  PROVE  NumberInv'
<1> DEFINE u == Head(sends).to
           c == Head(sends).cmd
           q == WrittenFor(u, c)
           n == update_counter[u]
           G == WithFile(file[u], "normal", q)
<1>0. /\ file = [v \in User |-> file[v]] /\ update_counter \in [User -> Nat]
      /\ \A v \in User : /\ IsFiles(file[v]) /\ IsDevice(dev[v]) /\ FlowAt(dev[v], file[v])
  BY DEF Base, Flow
<1>1. /\ sends # <<>> /\ u \in User
      /\ IsRecords(q) /\ file' = [file EXCEPT ![u] = G]
      /\ update_counter' = IF Present(u) THEN [update_counter EXCEPT ![u] = @ + 1]
                                         ELSE update_counter
      /\ UNCHANGED <<adm, dev>>
  BY SendNextIs
<1>2. \A v \in User : dev[v].open = FALSE
  BY <1>0, <1>1 DEF Flow, FlowAt, IsDevice
<1>3. /\ file'[u] = G
      /\ Present(u) => update_counter'[u] = n + 1
      /\ \A v \in User : v # u => file'[v] = file[v] /\ update_counter'[v] = update_counter[v]
  BY <1>0, <1>1
<1>4. n \in Nat /\ IsFiles(file[u]) /\ IsDevice(dev[u])
  BY <1>0, <1>1
<1>5. Present(u) => q = Append(NormalOf(file[u]), Record(n + 1, c))
  BY DEF WrittenFor, Records, Pending, NormalOf
<1>6. Present(u) => Ordered(dev[u], file[u], n)
  BY <1>1 DEF NumberInv
<1> HIDE DEF u, c, n, q
<1>7. Present(u) => Ordered(dev[u], G, n + 1)
  BY <1>1, <1>2, <1>4, <1>5, <1>6, OrderedAppend
<1> HIDE DEF G
<1>8. ASSUME NEW v \in User, Present(v)
      PROVE  Ordered(dev'[v], file'[v], update_counter'[v])
  <2>1. ASSUME v = u
        PROVE  Ordered(dev'[v], file'[v], update_counter'[v])
    <3>1. Present(u)
      BY <1>8, <2>1
    <3>2. dev'[v] = dev[u] /\ file'[v] = G /\ update_counter'[v] = n + 1
      BY <1>1, <1>3, <2>1, <3>1
    <3> QED BY <1>7, <3>1, <3>2
  <2>2. v # u => Ordered(dev'[v], file'[v], update_counter'[v])
    BY <1>1, <1>3, <1>8 DEF NumberInv
  <2> QED BY <2>1, <2>2
<1> QED BY <1>1, <1>2, <1>8 DEF NumberInv, Present

LEMMA NumberLoss ==
  ASSUME Base, Flow, NumberInv, SendFails \/ AdminCrash
  PROVE  NumberInv'
<1>0. /\ update_counter \in [User -> Nat]
      /\ \A v \in User : /\ IsFiles(file[v]) /\ IsDevice(dev[v]) /\ FlowAt(dev[v], file[v])
  BY DEF Base, Flow
<1>1. sends # <<>> /\ UNCHANGED <<adm, file, dev, recovery>>
  BY SendFailsIs DEF AdminCrash
<1>2. \A v \in User : dev[v].open = FALSE
  BY <1>0, <1>1 DEF Flow, FlowAt, IsDevice
<1>3. \A v \in User : update_counter'[v] = update_counter[v] \/ update_counter'[v] = update_counter[v] + 1
  BY <1>0, SendFailsIs DEF AdminCrash
<1>4. \A v \in User : Present(v) => Ordered(dev[v], file[v], update_counter[v])
  BY <1>1 DEF NumberInv
<1>5. \A v \in User : Present(v) => Ordered(dev[v], file[v], update_counter'[v])
  BY <1>0, <1>2, <1>3, <1>4, OrderedUpTo
<1> QED BY <1>1, <1>5, NumberKept DEF Present

LEMMA NumberUser ==
  ASSUME Base, Flow, Exclusive, NumberInv, NEW u \in User, UserStep(u) \/ RollBack(u)
  PROVE  NumberInv'
<1>0. /\ dev = [v \in User |-> dev[v]] /\ file = [v \in User |-> file[v]]
      /\ update_counter \in [User -> Nat]
      /\ \A v \in User : /\ IsFiles(file[v]) /\ IsDevice(dev[v]) /\ FlowAt(dev[v], file[v])
                         /\ "init" \in DOMAIN file[v] => InitLike(v, file[v]["init"])
  BY DEF Base, Flow, Pending
<1>1. /\ UserOnly /\ sends = <<>>
      /\ dev' = [dev EXCEPT ![u] = dev'[u]] /\ file' = [file EXCEPT ![u] = file'[u]]
      /\ DeviceStep(u, dev[u], file[u], dev'[u], file'[u])
  BY UserStepIs
<1>2. \A v \in User : v # u => dev'[v] = dev[v] /\ file'[v] = file[v]
  BY <1>0, <1>1
<1>3. dev[u].open /\ dev[u].pc = "init" => Restarting(dev[u].tx)
  BY DEF NumberInv
<1>4. /\ dev'[u].open /\ dev'[u].pc = "init" => Restarting(dev'[u].tx)
      /\ Ordered(dev[u], file[u], update_counter[u]) => Ordered(dev'[u], file'[u], update_counter[u])
  BY <1>0, <1>1, <1>3, DeviceStepCounts
<1> QED BY <1>1, <1>2, <1>4 DEF NumberInv, Present, UserOnly

LEMMA NumberNext ==
  ASSUME Exclusive, Base, Flow, NumberInv, [Next]_vars
  PROVE  NumberInv'
<1>1. CASE UNCHANGED vars
  BY <1>1 DEF vars, NumberInv, Present
<1>2. CASE Next
  BY <1>2, NumberAdmin, NumberSend, NumberLoss, NumberUser DEF Next
<1> QED BY <1>1, <1>2

-----------------------------------------------------------------------------
LEMMA NumberInvNumbered ==
  ASSUME Base, NumberInv
  PROVE  Numbered
<1> SUFFICES ASSUME NEW u \in User, Ordered(dev[u], file[u], update_counter[u])
             PROVE  NumberedAt(u)
  BY DEF NumberInv, Numbered
<1>1. Records(u, "normal") = NormalOf(file[u])
  BY DEF Records, Pending, NormalOf
<1>2. DOMAIN NormalOf(file[u]) = 1..Len(NormalOf(file[u]))
  BY SeqFacts, NoneAndOneSeq DEF Base, IsFiles, IsRecords, NormalOf
<1> QED BY <1>1, <1>2 DEF NumberedAt, Ordered, Rising, Pending

\* Of a user who is not in the Recovery table, no record is numbered at or below
\* what the device has counted unless the device has executed it, whatever was
\* lost, stopped or executed twice.
THEOREM NumberedAlways ==
  ASSUME Exclusive
  PROVE  Spec => []Numbered
<1> DEFINE IInv == Base /\ Flow /\ NumberInv
<1>1. Init => IInv
  BY InitBase, NumberInit
<1>2. IInv /\ [Next]_vars => IInv'
  BY BaseNext, NumberNext
<1>3. IInv => Numbered
  BY NumberInvNumbered
<1> HIDE DEF IInv
<1> QED BY <1>1, <1>2, <1>3, PTL DEF Spec
=============================================================================
