----------------------------- MODULE KeyUseProofs -----------------------------
(***************************************************************************)
(* Theorems about the keys of SEkey, for any users, groups, keys, margins  *)
(* and calls of the administrator.                                         *)
(*                                                                         *)
(* The invariant is about what a device will be: when everything that is   *)
(* pending for a user has been executed, its tables are the part of the    *)
(* administrator's that is about its groups, but for the keys that the     *)
(* device has deactivated by its own clock.  That the next statement of    *)
(* the administrator keeps it so is a fact about one statement at the end  *)
(* of the queue; that a check of the device in the middle of it all keeps  *)
(* it so is a fact about two executions of one queue.                      *)
(***************************************************************************)
EXTENDS KeyUse, WellFoundedInduction, FiniteSetTheorems, TLAPS

\* A set of numbers that is not empty has a least one.
LEMMA LeastNumber ==
  ASSUME NEW T \in SUBSET Nat, T # {}
  PROVE  \E m \in T : \A n \in T : m <= n
<1> DEFINE R == OpToRel(<, Nat)
<1>1. IsWellFoundedOn(R, Nat)
  BY NatLessThanWellFounded
<1>2. PICK m \in T : \A n \in T : ~(<<n, m>> \in R)
  <2> HIDE DEF R
  <2> QED BY <1>1, WFMin
<1>3. \A n \in T : ~(n < m)
  BY <1>2 DEF OpToRel
<1> QED BY <1>3

-----------------------------------------------------------------------------
(* Rows, tables and statements.                                            *)

TableSet == UNION {[K -> Rows] : K \in SUBSET Key}
Columns == [status : Status] \cup [status : Status, deactivation : Nat]
             \cup [status : Status, activation : Nat, expiration : Nat]
Statement ==
  [do : {"change"}, columns : UNION {[K -> Columns] : K \in SUBSET Key}]
    \cup [do : {"key"}, key : Key, row : Rows]
    \cup [do : {"leave"}, user : User, group : Group]
    \cup [do : {"join"}, pairs : SUBSET (User \X Group), rows : TableSet]
TablePair == [member : SUBSET (User \X Group), keys : TableSet]

LEMMA TableFacts ==
  ASSUME NEW rows
  PROVE  rows \in TableSet <=> Table(rows)
BY DEF TableSet, Table

\* What columns make of a row: the owner stays, and the status is theirs.
LEMMA ColumnFacts ==
  ASSUME NEW c \in Columns, NEW r \in Rows
  PROVE  /\ Over(c, r) \in Rows
         /\ Over(c, r).owner = r.owner /\ Over(c, r).status = c.status
         /\ Over(c, r).activation = IF "activation" \in DOMAIN c THEN c.activation ELSE r.activation
         /\ Over(c, r).expiration = IF "activation" \in DOMAIN c THEN c.expiration ELSE r.expiration
<1> DEFINE e == Over(c, r)
<1>1. e = [x \in (DOMAIN c) \cup (DOMAIN r) |-> IF x \in DOMAIN c THEN c[x] ELSE r[x]]
  BY DEF Over
<1>2. DOMAIN r = {"owner", "status", "activation", "expiration", "cryptoperiod", "deactivation"}
  BY DEF Rows
<1>3. CASE c \in [status : Status]
  <2>1. DOMAIN c = {"status"}
    BY <1>3
  <2> QED BY <1>1, <1>2, <1>3, <2>1 DEF Rows
<1>4. CASE c \in [status : Status, deactivation : Nat]
  <2>1. DOMAIN c = {"status", "deactivation"}
    BY <1>4
  <2> QED BY <1>1, <1>2, <1>4, <2>1 DEF Rows
<1>5. CASE c \in [status : Status, activation : Nat, expiration : Nat]
  <2>1. DOMAIN c = {"status", "activation", "expiration"}
    BY <1>5
  <2> QED BY <1>1, <1>2, <1>5, <2>1 DEF Rows
<1> QED BY <1>3, <1>4, <1>5 DEF Columns

LEMMA AfterFacts ==
  ASSUME NEW rows \in TableSet, NEW K \in SUBSET Key, NEW c \in [K -> Columns]
  PROVE  /\ After(rows, c) \in TableSet /\ DOMAIN After(rows, c) = DOMAIN rows
         /\ \A k \in DOMAIN rows :
              /\ k \in K => After(rows, c)[k] = Over(c[k], rows[k])
              /\ k \notin K => After(rows, c)[k] = rows[k]
<1>1. rows \in [DOMAIN rows -> Rows] /\ DOMAIN rows \subseteq Key
  BY TableFacts DEF Table
<1> DEFINE a == After(rows, c)
<1>2. a = [k \in DOMAIN rows |-> IF k \in DOMAIN c THEN Over(c[k], rows[k]) ELSE rows[k]]
  BY DEF After
<1> HIDE DEF a
<1>3. \A k \in DOMAIN rows : IF k \in K THEN a[k] = Over(c[k], rows[k]) ELSE a[k] = rows[k]
  BY <1>2
<1>4. \A k \in DOMAIN rows : a[k] \in Rows
  BY <1>1, <1>3, ColumnFacts
<1>5. a \in [DOMAIN rows -> Rows] /\ DOMAIN a = DOMAIN rows
  BY <1>2, <1>4
<1> QED BY <1>1, <1>3, <1>5, TableFacts DEF Table, a

\* One table over another.
LEMMA OverFacts ==
  ASSUME NEW new \in TableSet, NEW rows \in TableSet
  PROVE  /\ Over(new, rows) \in TableSet /\ DOMAIN Over(new, rows) = DOMAIN new \cup DOMAIN rows
         /\ \A k \in DOMAIN new : Over(new, rows)[k] = new[k]
         /\ \A k \in DOMAIN rows \ DOMAIN new : Over(new, rows)[k] = rows[k]
<1> DEFINE e == Over(new, rows)
<1>1. e = [x \in (DOMAIN new) \cup (DOMAIN rows) |-> IF x \in DOMAIN new THEN new[x] ELSE rows[x]]
  BY DEF Over
<1> HIDE DEF e
<1>2. Table(new) /\ Table(rows)
  BY TableFacts
<1>3. Table(e)
  BY <1>1, <1>2 DEF Table
<1> QED BY <1>1, <1>3, TableFacts DEF e

LEMMA OneRowFacts ==
  ASSUME NEW k \in Key, NEW row \in Rows
  PROVE  Only(k, row) \in TableSet /\ DOMAIN Only(k, row) = {k} /\ Only(k, row)[k] = row
BY TableFacts DEF Only, Table

LEMMA RestrictFacts ==
  ASSUME NEW rows \in TableSet, NEW K \in SUBSET DOMAIN rows
  PROVE  /\ Restrict(rows, K) \in TableSet /\ DOMAIN Restrict(rows, K) = K
         /\ \A k \in K : Restrict(rows, K)[k] = rows[k]
BY TableFacts DEF Restrict, Table

-----------------------------------------------------------------------------
(* Statements one after the other.                                         *)

IsRun(f, t, u, q) ==
  f = [i \in 0..Len(q) |-> IF i = 0 THEN t ELSE Execute(f[i - 1], u, q[i])]

\* There is such a function: otherwise there would be a shortest beginning of the
\* queue without one.
LEMMA RunExists ==
  ASSUME NEW t, NEW u, NEW S, NEW q \in Seq(S)
  PROVE  \E f : IsRun(f, t, u, q)
<1> DEFINE IsPart(f, n) == f = [i \in 0..n |-> IF i = 0 THEN t ELSE Execute(f[i - 1], u, q[i])]
           T == {n \in 0..Len(q) : ~\E f : IsPart(f, n)}
<1>1. CASE T = {}
  <2>1. Len(q) \in 0..Len(q)
    OBVIOUS
  <2> QED BY <1>1, <2>1 DEF IsRun
<1>2. CASE T # {}
  <2>1. T \in SUBSET Nat
    OBVIOUS
  <2>2. PICK n \in T : \A m \in T : n <= m
    <3> HIDE DEF T
    <3> QED BY <1>2, <2>1, LeastNumber
  <2>3. n \in 0..Len(q) /\ ~\E f : IsPart(f, n)
    OBVIOUS
  <2>4. n # 0
    <3>1. IsPart([i \in 0..0 |-> t], 0)
      OBVIOUS
    <3> QED BY <2>3, <3>1
  <2>5. n - 1 \in 0..Len(q) /\ ~(n <= n - 1)
    BY <2>3, <2>4
  <2>6. PICK g : IsPart(g, n - 1)
    BY <2>2, <2>5
  <2> DEFINE h == [i \in 0..n |-> IF i = n THEN Execute(g[n - 1], u, q[n]) ELSE g[i]]
  <2>7. \A i \in 0..n : h[i] = IF i = 0 THEN t ELSE Execute(h[i - 1], u, q[i])
    <3> TAKE i \in 0..n
    <3> HIDE DEF h
    <3>1. \A j \in 0..(n - 1) : g[j] = IF j = 0 THEN t ELSE Execute(g[j - 1], u, q[j])
      BY <2>6
    <3>2. \A j \in 0..(n - 1) : h[j] = g[j]
      BY <2>3 DEF h
    <3>3. h[n] = Execute(g[n - 1], u, q[n])
      BY <2>3 DEF h
    <3>4. CASE i = n
      <4>1. n - 1 \in 0..(n - 1) /\ i # 0
        BY <2>3, <2>4, <3>4
      <4> QED BY <3>2, <3>3, <3>4, <4>1
    <3>5. CASE i # n
      <4>1. i \in 0..(n - 1) /\ (i # 0 => i - 1 \in 0..(n - 1))
        BY <2>3, <3>5
      <4> QED BY <3>1, <3>2, <4>1
    <3> QED BY <3>4, <3>5
  <2>8. h = [i \in 0..n |-> h[i]]
    OBVIOUS
  <2> HIDE DEF h
  <2>9. IsPart(h, n)
    BY <2>7, <2>8
  <2> QED BY <2>3, <2>9
<1> QED BY <1>1, <1>2

\* Two runs agree as far as their queues do.
LEMMA RunsAgree ==
  ASSUME NEW t, NEW u, NEW q, NEW p, NEW f, NEW g, IsRun(f, t, u, q), IsRun(g, t, u, p),
         Len(q) \in Nat, Len(p) \in Nat, Len(q) <= Len(p),
         \A i \in 1..Len(q) : p[i] = q[i]
  PROVE  \A i \in 0..Len(q) : g[i] = f[i]
<1> DEFINE T == {i \in 0..Len(q) : g[i] # f[i]}
<1>1. CASE T = {}
  BY <1>1
<1>2. CASE T # {}
  <2>1. PICK n \in T : \A m \in T : n <= m
    <3>1. T \in SUBSET Nat
      OBVIOUS
    <3> HIDE DEF T
    <3> QED BY <1>2, <3>1, LeastNumber
  <2>2. n \in 0..Len(q) /\ g[n] # f[n] /\ n \in 0..Len(p)
    OBVIOUS
  <2>3. f[n] = IF n = 0 THEN t ELSE Execute(f[n - 1], u, q[n])
    BY <2>2 DEF IsRun
  <2>4. g[n] = IF n = 0 THEN t ELSE Execute(g[n - 1], u, p[n])
    BY <2>2 DEF IsRun
  <2>5. n # 0
    BY <2>2, <2>3, <2>4
  <2>6. n - 1 \in 0..Len(q) /\ ~(n <= n - 1) /\ n \in 1..Len(q)
    BY <2>2, <2>5
  <2>7. g[n - 1] = f[n - 1]
    BY <2>1, <2>6
  <2> QED BY <2>2, <2>3, <2>4, <2>6, <2>7
<1> QED BY <1>1, <1>2

LEMMA ExecutedRun ==
  ASSUME NEW t, NEW u, NEW S, NEW q \in Seq(S), NEW f, IsRun(f, t, u, q)
  PROVE  Executed(t, u, q) = f[Len(q)]
<1> DEFINE r == CHOOSE g : g = [i \in 0..Len(q) |-> IF i = 0 THEN t ELSE Execute(g[i - 1], u, q[i])]
<1>1. IsRun(r, t, u, q)
  BY DEF IsRun
<1>2. r[Len(q)] = f[Len(q)]
  <2> HIDE DEF r
  <2>1. \A i \in 0..Len(q) : r[i] = f[i]
    <3>1. Len(q) \in Nat
      OBVIOUS
    <3> QED BY <1>1, <3>1, RunsAgree
  <2> QED BY <2>1
<1>3. Executed(t, u, q) = r[Len(q)]
  BY DEF Executed
<1> QED BY <1>2, <1>3

LEMMA ExecutedNone ==
  ASSUME NEW t, NEW u
  PROVE  Executed(t, u, <<>>) = t
<1>1. <<>> \in Seq({})
  OBVIOUS
<1>2. PICK f : IsRun(f, t, u, <<>>)
  BY <1>1, RunExists
<1>3. Executed(t, u, <<>>) = f[Len(<<>>)]
  BY <1>1, <1>2, ExecutedRun
<1>4. f[0] = t
  BY <1>2 DEF IsRun
<1> QED BY <1>3, <1>4

LEMMA ExecutedOneMore ==
  ASSUME NEW t, NEW u, NEW S, NEW q \in Seq(S), NEW s \in S
  PROVE  Executed(t, u, Append(q, s)) = Execute(Executed(t, u, q), u, s)
<1> DEFINE p == Append(q, s)
<1>1. p \in Seq(S) /\ Len(p) = Len(q) + 1 /\ p[Len(q) + 1] = s
      /\ \A i \in 1..Len(q) : p[i] = q[i]
  OBVIOUS
<1> HIDE DEF p
<1>2. PICK f : IsRun(f, t, u, q)
  BY RunExists
<1>3. PICK g : IsRun(g, t, u, p)
  BY <1>1, RunExists
<1>4. Len(q) \in 0..Len(q) /\ Len(q) <= Len(p)
  BY <1>1
<1>5. g[Len(q)] = f[Len(q)]
  <2>1. Len(q) \in Nat /\ Len(p) \in Nat /\ \A i \in 1..Len(q) : p[i] = q[i]
    BY <1>1
  <2>2. \A i \in 0..Len(q) : g[i] = f[i]
    BY <2>1, <1>2, <1>3, <1>4, RunsAgree
  <2> QED BY <1>4, <2>2
<1>6. g[Len(q) + 1] = Execute(g[Len(q)], u, p[Len(q) + 1])
  BY <1>1, <1>3 DEF IsRun
<1>7. Executed(t, u, q) = f[Len(q)] /\ Executed(t, u, p) = g[Len(q) + 1]
  BY <1>1, <1>2, <1>3, ExecutedRun
<1> QED BY <1>1, <1>5, <1>6, <1>7 DEF p

\* The tables stay tables.
LEMMA ExecuteType ==
  ASSUME NEW t \in TablePair, NEW u \in User, NEW s \in Statement
  PROVE  Execute(t, u, s) \in TablePair
<1>1. t.member \subseteq User \X Group /\ t.keys \in TableSet
      /\ t = [member |-> t.member, keys |-> t.keys]
  BY DEF TablePair
<1>2. CASE s \in [do : {"change"}, columns : UNION {[K -> Columns] : K \in SUBSET Key}]
  <2>1. PICK K \in SUBSET Key : s.columns \in [K -> Columns]
    BY <1>2
  <2>2. After(t.keys, s.columns) \in TableSet
    BY <1>1, <2>1, AfterFacts
  <2>3. Execute(t, u, s) = [t EXCEPT !.keys = After(@, s.columns)]
    BY <1>2 DEF Execute
  <2> QED BY <1>1, <2>2, <2>3 DEF TablePair
<1>3. CASE s \in [do : {"key"}, key : Key, row : Rows]
  <2>1. Only(s.key, s.row) \in TableSet
    BY <1>3, OneRowFacts
  <2>2. Over(Only(s.key, s.row), t.keys) \in TableSet
    BY <1>1, <2>1, OverFacts
  <2>3. Execute(t, u, s) = [t EXCEPT !.keys = Over(Only(s.key, s.row), @)]
    BY <1>3 DEF Execute
  <2> QED BY <1>1, <2>2, <2>3 DEF TablePair
<1>4. CASE s \in [do : {"leave"}, user : User, group : Group]
  <2>1. CASE s.user # u
    <3>1. Execute(t, u, s) = [t EXCEPT !.member = @ \ {<<s.user, s.group>>}]
      BY <1>4, <2>1 DEF Execute
    <3> QED BY <1>1, <3>1 DEF TablePair
  <2>2. CASE s.user = u
    <3> DEFINE K == (DOMAIN t.keys) \ Owned(t.keys, {s.group})
    <3>1. Execute(t, u, s) = [t EXCEPT !.member = {m \in @ : m[2] # s.group},
                                       !.keys = Restrict(@, DOMAIN @ \ Owned(@, {s.group}))]
      BY <1>4, <2>2 DEF Execute
    <3>2. Restrict(t.keys, K) \in TableSet
      <4>1. K \in SUBSET DOMAIN t.keys
        OBVIOUS
      <4> HIDE DEF K
      <4> QED BY <1>1, <4>1, RestrictFacts
    <3> QED BY <1>1, <3>1, <3>2 DEF TablePair
  <2> QED BY <2>1, <2>2
<1>5. CASE s \in [do : {"join"}, pairs : SUBSET (User \X Group), rows : TableSet]
  <2>1. Over(s.rows, t.keys) \in TableSet
    BY <1>1, <1>5, OverFacts
  <2>2. Execute(t, u, s) = [t EXCEPT !.member = @ \cup s.pairs, !.keys = Over(s.rows, @)]
    BY <1>5 DEF Execute
  <2> QED BY <1>1, <1>5, <2>1, <2>2 DEF TablePair
<1> QED BY <1>2, <1>3, <1>4, <1>5 DEF Statement

\* What holds of the tables, and is kept by each statement, holds of them after all:
\* the two instances of that induction that are needed.
LEMMA RunType ==
  ASSUME NEW t \in TablePair, NEW u \in User, NEW q \in Seq(Statement), NEW f, IsRun(f, t, u, q)
  PROVE  \A i \in 0..Len(q) : f[i] \in TablePair
<1> DEFINE T == {i \in 0..Len(q) : f[i] \notin TablePair}
<1>1. CASE T = {}
  BY <1>1
<1>2. CASE T # {}
  <2>1. PICK n \in T : \A m \in T : n <= m
    <3>1. T \in SUBSET Nat
      OBVIOUS
    <3> HIDE DEF T
    <3> QED BY <1>2, <3>1, LeastNumber
  <2>2. n \in 0..Len(q) /\ f[n] \notin TablePair
    OBVIOUS
  <2>3. f[n] = IF n = 0 THEN t ELSE Execute(f[n - 1], u, q[n])
    BY <2>2 DEF IsRun
  <2>4. n # 0
    BY <2>2, <2>3
  <2>5. n - 1 \in 0..Len(q) /\ ~(n <= n - 1) /\ n \in 1..Len(q)
    BY <2>2, <2>4
  <2>6. f[n - 1] \in TablePair /\ q[n] \in Statement
    BY <2>1, <2>5
  <2> QED BY <2>2, <2>3, <2>4, <2>6, ExecuteType
<1> QED BY <1>1, <1>2

LEMMA ExecutedType ==
  ASSUME NEW t \in TablePair, NEW u \in User, NEW q \in Seq(Statement)
  PROVE  Executed(t, u, q) \in TablePair
<1>1. PICK f : IsRun(f, t, u, q)
  BY RunExists
<1>2. Executed(t, u, q) = f[Len(q)]
  BY <1>1, ExecutedRun
<1>3. Len(q) \in 0..Len(q)
  OBVIOUS
<1>4. \A i \in 0..Len(q) : f[i] \in TablePair
  BY <1>1, RunType
<1> QED BY <1>2, <1>3, <1>4

-----------------------------------------------------------------------------
(* A table that is another's but for what its own clock has made of it.     *)

Agrees(row, its, n) ==
  /\ row.owner = its.owner /\ row.activation = its.activation /\ row.expiration = its.expiration
  /\ \/ row.status = its.status
     \/ row.status = "deactivated" /\ its.expiration # 0 /\ its.expiration <= n + Margin

Kept(t, its, n) ==
  /\ t.member = its.member /\ DOMAIN t.keys = DOMAIN its.keys
  /\ \A k \in DOMAIN its.keys : Agrees(t.keys[k], its.keys[k], n)

LEMMA OverKeeps ==
  ASSUME NEW new \in TableSet, NEW a \in TableSet, NEW b \in TableSet, NEW n,
         DOMAIN a = DOMAIN b, \A k \in DOMAIN b : Agrees(a[k], b[k], n)
  PROVE  /\ DOMAIN Over(new, a) = DOMAIN Over(new, b)
         /\ \A k \in DOMAIN Over(new, b) : Agrees(Over(new, a)[k], Over(new, b)[k], n)
<1> DEFINE x == Over(new, a)
           y == Over(new, b)
<1>1. /\ DOMAIN x = DOMAIN new \cup DOMAIN a
      /\ \A k \in DOMAIN new : x[k] = new[k]
      /\ \A k \in DOMAIN a \ DOMAIN new : x[k] = a[k]
  BY OverFacts
<1>2. /\ DOMAIN y = DOMAIN new \cup DOMAIN b
      /\ \A k \in DOMAIN new : y[k] = new[k]
      /\ \A k \in DOMAIN b \ DOMAIN new : y[k] = b[k]
  BY OverFacts
<1> HIDE DEF x, y
<1>3. DOMAIN x = DOMAIN y
  BY <1>1, <1>2
<1>4. \A k \in DOMAIN y : Agrees(x[k], y[k], n)
  <2> TAKE k \in DOMAIN y
  <2>1. CASE k \in DOMAIN new
    <3>1. x[k] = y[k]
      BY <1>1, <1>2, <2>1
    <3> QED BY <3>1 DEF Agrees
  <2>2. CASE k \notin DOMAIN new
    <3>1. k \in DOMAIN b /\ x[k] = a[k] /\ y[k] = b[k]
      BY <1>1, <1>2, <2>2
    <3> QED BY <3>1
  <2> QED BY <2>1, <2>2
<1> QED BY <1>3, <1>4 DEF x, y

LEMMA ExecuteKeeps ==
  ASSUME NEW t \in TablePair, NEW o \in TablePair, NEW u \in User, NEW s \in Statement,
         NEW n \in Nat, Kept(t, o, n)
  PROVE  Kept(Execute(t, u, s), Execute(o, u, s), n)
<1>1. /\ t.keys \in TableSet /\ t = [member |-> t.member, keys |-> t.keys]
      /\ o.keys \in TableSet /\ o = [member |-> o.member, keys |-> o.keys]
  BY DEF TablePair
<1>2. /\ t.member = o.member /\ DOMAIN t.keys = DOMAIN o.keys
      /\ \A k \in DOMAIN o.keys : Agrees(t.keys[k], o.keys[k], n)
  BY DEF Kept
<1>3. \A k \in DOMAIN o.keys : t.keys[k] \in Rows /\ o.keys[k] \in Rows
  BY <1>1, <1>2, TableFacts DEF Table
<1>4. CASE s \in [do : {"change"}, columns : UNION {[K -> Columns] : K \in SUBSET Key}]
  <2>1. PICK K \in SUBSET Key : s.columns \in [K -> Columns]
    BY <1>4
  <2> DEFINE a == After(t.keys, s.columns)
             b == After(o.keys, s.columns)
  <2>2. /\ Execute(t, u, s).member = t.member /\ Execute(t, u, s).keys = a
        /\ Execute(o, u, s).member = o.member /\ Execute(o, u, s).keys = b
    BY <1>1, <1>4 DEF Execute
  <2>3. /\ DOMAIN a = DOMAIN o.keys /\ DOMAIN b = DOMAIN o.keys
        /\ \A k \in DOMAIN o.keys :
             IF k \in K THEN a[k] = Over(s.columns[k], t.keys[k]) /\ b[k] = Over(s.columns[k], o.keys[k])
             ELSE a[k] = t.keys[k] /\ b[k] = o.keys[k]
    <3> HIDE DEF a, b
    <3>1. /\ DOMAIN a = DOMAIN t.keys
          /\ \A k \in DOMAIN t.keys : /\ k \in K => a[k] = Over(s.columns[k], t.keys[k])
                                      /\ k \notin K => a[k] = t.keys[k]
      BY <1>1, <2>1, AfterFacts DEF a
    <3>2. /\ DOMAIN b = DOMAIN o.keys
          /\ \A k \in DOMAIN o.keys : /\ k \in K => b[k] = Over(s.columns[k], o.keys[k])
                                      /\ k \notin K => b[k] = o.keys[k]
      BY <1>1, <2>1, AfterFacts DEF b
    <3> QED BY <1>2, <3>1, <3>2
  <2>4. \A k \in DOMAIN o.keys : Agrees(a[k], b[k], n)
    <3> TAKE k \in DOMAIN o.keys
    <3> HIDE DEF a, b
    <3>1. CASE k \in K
      <4> DEFINE c == s.columns[k]
      <4>1. c \in Columns
        BY <2>1, <3>1
      <4>2. a[k] = Over(c, t.keys[k]) /\ b[k] = Over(c, o.keys[k])
        BY <2>3, <3>1
      <4> HIDE DEF c
      <4>3. /\ a[k].owner = t.keys[k].owner /\ a[k].status = c.status
            /\ a[k].activation = IF "activation" \in DOMAIN c THEN c.activation ELSE t.keys[k].activation
            /\ a[k].expiration = IF "activation" \in DOMAIN c THEN c.expiration ELSE t.keys[k].expiration
        BY <1>3, <4>1, <4>2, ColumnFacts
      <4>4. /\ b[k].owner = o.keys[k].owner /\ b[k].status = c.status
            /\ b[k].activation = IF "activation" \in DOMAIN c THEN c.activation ELSE o.keys[k].activation
            /\ b[k].expiration = IF "activation" \in DOMAIN c THEN c.expiration ELSE o.keys[k].expiration
        BY <1>3, <4>1, <4>2, ColumnFacts
      <4>5. /\ t.keys[k].owner = o.keys[k].owner /\ t.keys[k].activation = o.keys[k].activation
            /\ t.keys[k].expiration = o.keys[k].expiration
        BY <1>2 DEF Agrees
      <4> QED BY <4>3, <4>4, <4>5 DEF Agrees
    <3>2. CASE k \notin K
      BY <1>2, <2>3, <3>2
    <3> QED BY <3>1, <3>2
  <2> HIDE DEF a, b
  <2> QED BY <1>2, <2>2, <2>3, <2>4 DEF Kept
<1>5. CASE s \in [do : {"key"}, key : Key, row : Rows]
  <2> DEFINE new == Only(s.key, s.row)
  <2>1. new \in TableSet
    BY <1>5, OneRowFacts
  <2>2. /\ Execute(t, u, s).member = t.member /\ Execute(t, u, s).keys = Over(new, t.keys)
        /\ Execute(o, u, s).member = o.member /\ Execute(o, u, s).keys = Over(new, o.keys)
    BY <1>1, <1>5 DEF Execute
  <2> HIDE DEF new
  <2>3. /\ DOMAIN Over(new, t.keys) = DOMAIN Over(new, o.keys)
        /\ \A k \in DOMAIN Over(new, o.keys) : Agrees(Over(new, t.keys)[k], Over(new, o.keys)[k], n)
    BY <1>1, <1>2, <2>1, OverKeeps
  <2> QED BY <1>2, <2>2, <2>3 DEF Kept
<1>6. CASE s \in [do : {"leave"}, user : User, group : Group]
  <2>1. CASE s.user # u
    <3>1. /\ Execute(t, u, s).member = t.member \ {<<s.user, s.group>>} /\ Execute(t, u, s).keys = t.keys
          /\ Execute(o, u, s).member = o.member \ {<<s.user, s.group>>} /\ Execute(o, u, s).keys = o.keys
      BY <1>1, <1>6, <2>1 DEF Execute
    <3> QED BY <1>2, <3>1 DEF Kept
  <2>2. CASE s.user = u
    <3> DEFINE K == (DOMAIN t.keys) \ Owned(t.keys, {s.group})
               L == (DOMAIN o.keys) \ Owned(o.keys, {s.group})
    <3>1. /\ Execute(t, u, s).member = {m \in t.member : m[2] # s.group}
          /\ Execute(t, u, s).keys = Restrict(t.keys, K)
          /\ Execute(o, u, s).member = {m \in o.member : m[2] # s.group}
          /\ Execute(o, u, s).keys = Restrict(o.keys, L)
      BY <1>1, <1>6, <2>2 DEF Execute
    <3>2. K = L /\ K \in SUBSET DOMAIN t.keys
      BY <1>2 DEF Owned, Agrees
    <3> HIDE DEF K, L
    <3>3. /\ DOMAIN Restrict(t.keys, K) = K /\ DOMAIN Restrict(o.keys, K) = K
          /\ \A k \in K : Restrict(t.keys, K)[k] = t.keys[k] /\ Restrict(o.keys, K)[k] = o.keys[k]
      BY <1>1, <1>2, <3>2, RestrictFacts
    <3> QED BY <1>2, <3>1, <3>2, <3>3 DEF Kept
  <2> QED BY <2>1, <2>2
<1>7. CASE s \in [do : {"join"}, pairs : SUBSET (User \X Group), rows : TableSet]
  <2>1. /\ Execute(t, u, s).member = t.member \cup s.pairs /\ Execute(t, u, s).keys = Over(s.rows, t.keys)
        /\ Execute(o, u, s).member = o.member \cup s.pairs /\ Execute(o, u, s).keys = Over(s.rows, o.keys)
    BY <1>1, <1>7 DEF Execute
  <2>2. s.rows \in TableSet
    BY <1>7
  <2>3. /\ DOMAIN Over(s.rows, t.keys) = DOMAIN Over(s.rows, o.keys)
        /\ \A k \in DOMAIN Over(s.rows, o.keys) :
             Agrees(Over(s.rows, t.keys)[k], Over(s.rows, o.keys)[k], n)
    BY <1>1, <1>2, <2>2, OverKeeps
  <2> QED BY <1>2, <2>1, <2>3 DEF Kept
<1> QED BY <1>4, <1>5, <1>6, <1>7 DEF Statement

LEMMA RunKeeps ==
  ASSUME NEW t \in TablePair, NEW o \in TablePair, NEW u \in User, NEW q \in Seq(Statement),
         NEW n \in Nat, NEW f, NEW g, IsRun(f, t, u, q), IsRun(g, o, u, q), Kept(t, o, n)
  PROVE  \A i \in 0..Len(q) : Kept(f[i], g[i], n)
<1>0. \A i \in 0..Len(q) : f[i] \in TablePair /\ g[i] \in TablePair
  BY RunType
<1> DEFINE T == {i \in 0..Len(q) : ~Kept(f[i], g[i], n)}
<1>1. CASE T = {}
  BY <1>1
<1>2. CASE T # {}
  <2>1. PICK j \in T : \A m \in T : j <= m
    <3>1. T \in SUBSET Nat
      OBVIOUS
    <3> HIDE DEF T
    <3> QED BY <1>2, <3>1, LeastNumber
  <2>2. j \in 0..Len(q) /\ ~Kept(f[j], g[j], n)
    OBVIOUS
  <2>3. f[j] = IF j = 0 THEN t ELSE Execute(f[j - 1], u, q[j])
    BY <2>2 DEF IsRun
  <2>4. g[j] = IF j = 0 THEN o ELSE Execute(g[j - 1], u, q[j])
    BY <2>2 DEF IsRun
  <2>5. j # 0
    BY <2>2, <2>3, <2>4
  <2>6. j - 1 \in 0..Len(q) /\ ~(j <= j - 1) /\ j \in 1..Len(q)
    BY <2>2, <2>5
  <2>7. Kept(f[j - 1], g[j - 1], n) /\ q[j] \in Statement
    BY <2>1, <2>6
  <2>8. f[j - 1] \in TablePair /\ g[j - 1] \in TablePair
    BY <1>0, <2>6
  <2>9. Kept(Execute(f[j - 1], u, q[j]), Execute(g[j - 1], u, q[j]), n)
    BY <2>7, <2>8, ExecuteKeeps
  <2> QED BY <2>2, <2>3, <2>4, <2>5, <2>9
<1> QED BY <1>1, <1>2

LEMMA ExecutedKeeps ==
  ASSUME NEW t \in TablePair, NEW o \in TablePair, NEW u \in User, NEW q \in Seq(Statement),
         NEW n \in Nat, Kept(t, o, n)
  PROVE  Kept(Executed(t, u, q), Executed(o, u, q), n)
<1>1. PICK f : IsRun(f, t, u, q)
  BY RunExists
<1>2. PICK g : IsRun(g, o, u, q)
  BY RunExists
<1>3. Executed(t, u, q) = f[Len(q)]
  BY <1>1, ExecutedRun
<1>4. Executed(o, u, q) = g[Len(q)]
  BY <1>2, ExecutedRun
<1>5. Len(q) \in 0..Len(q)
  OBVIOUS
<1>6. \A i \in 0..Len(q) : Kept(f[i], g[i], n)
  BY <1>1, <1>2, RunKeeps
<1> QED BY <1>3, <1>4, <1>5, <1>6

-----------------------------------------------------------------------------
(* The part of the administrator's tables that is about a user's groups.    *)

InSync(t, u, m, rows, n) ==
  /\ t.member = {p \in m : p[2] \in GroupsOf(m, u)}
  /\ DOMAIN t.keys = Owned(rows, GroupsOf(m, u))
  /\ \A k \in DOMAIN t.keys : Agrees(t.keys[k], rows[k], n)

\* What a device does to its own tables meanwhile, and the clock, do not matter.
LEMMA KeptInSync ==
  ASSUME NEW t, NEW o, NEW u, NEW m, NEW rows, NEW n, Kept(t, o, n), InSync(o, u, m, rows, n)
  PROVE  InSync(t, u, m, rows, n)
BY DEF Kept, InSync, Agrees

LEMMA LaterInSync ==
  ASSUME NEW t, NEW u, NEW m, NEW rows \in TableSet, NEW n \in Nat, NEW l \in Nat, n <= l,
         InSync(t, u, m, rows, n)
  PROVE  InSync(t, u, m, rows, l)
<1>1. \A k \in DOMAIN rows : rows[k].expiration \in Nat
  BY TableFacts DEF Table, Rows
<1>2. \A k \in DOMAIN t.keys : k \in DOMAIN rows /\ Agrees(t.keys[k], rows[k], n)
  BY DEF InSync, Owned
<1>3. \A k \in DOMAIN t.keys : Agrees(t.keys[k], rows[k], l)
  BY <1>1, <1>2, KeyUseAssumption DEF Agrees
<1> QED BY <1>3 DEF InSync

\* One statement of the administrator about its keys: the members of the groups
\* concerned execute it, or their part of it, and it is nothing to the others.
LEMMA ChangeInSync ==
  ASSUME NEW t \in TablePair, NEW u \in User, NEW m \in SUBSET (User \X Group),
         NEW rows \in TableSet, NEW n \in Nat, InSync(t, u, m, rows, n),
         NEW K \in SUBSET DOMAIN rows, NEW c \in [K -> Columns],
         NEW L \in SUBSET K, L = {k \in K : <<u, rows[k].owner>> \in m},
         NEW d \in [L -> Columns], \A k \in L : d[k] = c[k]
  PROVE  /\ InSync(Execute(t, u, Change(d)), u, m, After(rows, c), n)
         /\ L = {} => InSync(t, u, m, After(rows, c), n)
<1>1. t.keys \in TableSet /\ t = [member |-> t.member, keys |-> t.keys]
  BY DEF TablePair
<1>2. /\ DOMAIN rows \subseteq Key /\ \A k \in DOMAIN rows : rows[k] \in Rows /\ rows[k].owner \in Group
      /\ DOMAIN t.keys \subseteq Key /\ \A k \in DOMAIN t.keys : t.keys[k] \in Rows
  BY <1>1, TableFacts DEF Table, Rows
<1> DEFINE G == GroupsOf(m, u)
           a == After(rows, c)
           b == After(t.keys, d)
<1>3. /\ DOMAIN a = DOMAIN rows
      /\ \A k \in DOMAIN rows : /\ k \in K => a[k] = Over(c[k], rows[k])
                                /\ k \notin K => a[k] = rows[k]
  <2>1. K \in SUBSET Key
    BY <1>2
  <2> QED BY <2>1, AfterFacts
<1>4. /\ DOMAIN b = DOMAIN t.keys
      /\ \A k \in DOMAIN t.keys : /\ k \in L => b[k] = Over(d[k], t.keys[k])
                                  /\ k \notin L => b[k] = t.keys[k]
  <2>1. L \in SUBSET Key
    BY <1>2
  <2> QED BY <1>1, <2>1, AfterFacts
<1> HIDE DEF a, b
<1>5. /\ t.member = {p \in m : p[2] \in G}
      /\ DOMAIN t.keys = Owned(rows, G)
      /\ \A k \in DOMAIN t.keys : Agrees(t.keys[k], rows[k], n)
  BY DEF InSync
<1>6. \A k \in DOMAIN rows : a[k].owner = rows[k].owner
  BY <1>2, <1>3, ColumnFacts
<1>7. Owned(a, G) = Owned(rows, G)
  BY <1>3, <1>6 DEF Owned
<1>8. \A k \in DOMAIN t.keys : k \in DOMAIN rows /\ (k \in K <=> k \in L)
  BY <1>2, <1>5 DEF Owned, GroupsOf
<1>9. \A k \in DOMAIN t.keys : Agrees(b[k], a[k], n)
  <2> TAKE k \in DOMAIN t.keys
  <2>1. CASE k \in L
    <3> DEFINE e == c[k]
    <3>1. e \in Columns /\ d[k] = e
      BY <2>1
    <3>2. b[k] = Over(e, t.keys[k]) /\ a[k] = Over(e, rows[k])
      BY <1>3, <1>4, <1>8, <2>1, <3>1
    <3> HIDE DEF e
    <3>3. /\ b[k].owner = t.keys[k].owner /\ b[k].status = e.status
          /\ b[k].activation = IF "activation" \in DOMAIN e THEN e.activation ELSE t.keys[k].activation
          /\ b[k].expiration = IF "activation" \in DOMAIN e THEN e.expiration ELSE t.keys[k].expiration
      BY <1>2, <3>1, <3>2, ColumnFacts
    <3>4. /\ a[k].owner = rows[k].owner /\ a[k].status = e.status
          /\ a[k].activation = IF "activation" \in DOMAIN e THEN e.activation ELSE rows[k].activation
          /\ a[k].expiration = IF "activation" \in DOMAIN e THEN e.expiration ELSE rows[k].expiration
      BY <1>2, <1>8, <3>1, <3>2, ColumnFacts
    <3>5. /\ t.keys[k].owner = rows[k].owner /\ t.keys[k].activation = rows[k].activation
          /\ t.keys[k].expiration = rows[k].expiration
      BY <1>5 DEF Agrees
    <3> QED BY <3>3, <3>4, <3>5 DEF Agrees
  <2>2. CASE k \notin L
    BY <1>3, <1>4, <1>5, <1>8, <2>2
  <2> QED BY <2>1, <2>2
<1>10. /\ Execute(t, u, Change(d)).member = t.member
       /\ Execute(t, u, Change(d)).keys = b
  BY <1>1 DEF Execute, Change, b
<1>11. InSync(Execute(t, u, Change(d)), u, m, a, n)
  BY <1>4, <1>5, <1>7, <1>9, <1>10 DEF InSync
<1>12. ASSUME L = {} PROVE InSync(t, u, m, a, n)
  <2>1. \A k \in DOMAIN t.keys : Agrees(t.keys[k], a[k], n)
    BY <1>3, <1>5, <1>8, <1>12
  <2> QED BY <1>5, <1>7, <2>1 DEF InSync
<1> QED BY <1>11, <1>12 DEF a

LEMMA NewKeyInSync ==
  ASSUME NEW t \in TablePair, NEW u \in User, NEW m \in SUBSET (User \X Group),
         NEW rows \in TableSet, NEW n \in Nat, InSync(t, u, m, rows, n),
         NEW k \in Key, k \notin DOMAIN rows, NEW row \in Rows
  PROVE  LET new == Over(Only(k, row), rows)
         IN  /\ <<u, row.owner>> \in m => InSync(Execute(t, u, NewKey(k, row)), u, m, new, n)
             /\ <<u, row.owner>> \notin m => InSync(t, u, m, new, n)
<1>1. t.keys \in TableSet /\ t = [member |-> t.member, keys |-> t.keys]
  BY DEF TablePair
<1> DEFINE G == GroupsOf(m, u)
           o == Only(k, row)
           a == Over(o, rows)
           b == Over(o, t.keys)
<1>2. o \in TableSet /\ DOMAIN o = {k} /\ o[k] = row
  BY OneRowFacts
<1>3. row.owner \in Group
  BY DEF Rows
<1> HIDE DEF o
<1>4. /\ DOMAIN a = {k} \cup DOMAIN rows /\ a[k] = row
      /\ \A x \in DOMAIN rows : a[x] = rows[x]
  BY <1>2, OverFacts
<1>5. /\ DOMAIN b = {k} \cup DOMAIN t.keys /\ b[k] = row
      /\ \A x \in DOMAIN t.keys \ {k} : b[x] = t.keys[x]
  <2>1. /\ DOMAIN b = DOMAIN o \cup DOMAIN t.keys
        /\ \A x \in DOMAIN o : b[x] = o[x]
        /\ \A x \in DOMAIN t.keys \ DOMAIN o : b[x] = t.keys[x]
    BY <1>1, <1>2, OverFacts
  <2> HIDE DEF b
  <2> QED BY <1>2, <2>1
<1> HIDE DEF a, b
<1>6. /\ t.member = {p \in m : p[2] \in G}
      /\ DOMAIN t.keys = Owned(rows, G)
      /\ \A x \in DOMAIN t.keys : Agrees(t.keys[x], rows[x], n)
  BY DEF InSync
<1>7. \A x \in DOMAIN t.keys : x \in DOMAIN rows /\ x # k
  BY <1>6 DEF Owned
<1>8. row.owner \in G <=> <<u, row.owner>> \in m
  BY <1>3 DEF GroupsOf
<1>9. Owned(a, G) = Owned(rows, G) \cup (IF row.owner \in G THEN {k} ELSE {})
  BY <1>4 DEF Owned
<1>10. CASE <<u, row.owner>> \in m
  <2>1. /\ Execute(t, u, NewKey(k, row)).member = t.member
        /\ Execute(t, u, NewKey(k, row)).keys = b
    BY <1>1 DEF Execute, NewKey, b, o
  <2>2. DOMAIN b = Owned(a, G)
    BY <1>5, <1>6, <1>8, <1>9, <1>10
  <2>3. \A x \in DOMAIN b : Agrees(b[x], a[x], n)
    <3> TAKE x \in DOMAIN b
    <3>1. CASE x = k
      BY <1>4, <1>5, <3>1 DEF Agrees
    <3>2. CASE x # k
      BY <1>4, <1>5, <1>6, <1>7, <3>2
    <3> QED BY <3>1, <3>2
  <2>4. InSync(Execute(t, u, NewKey(k, row)), u, m, a, n)
    BY <1>6, <2>1, <2>2, <2>3 DEF InSync
  <2> QED BY <1>10, <2>4 DEF a, o
<1>11. CASE <<u, row.owner>> \notin m
  <2>1. \A x \in DOMAIN t.keys : Agrees(t.keys[x], a[x], n)
    BY <1>4, <1>6, <1>7
  <2>2. InSync(t, u, m, a, n)
    BY <1>6, <1>8, <1>9, <1>11, <2>1 DEF InSync
  <2> QED BY <1>11, <2>2 DEF a, o
<1> QED BY <1>10, <1>11

\* A user leaves a group: itself and the others of the group, and who is not in it.
LEMMA LeaveInSync ==
  ASSUME NEW t \in TablePair, NEW u \in User, NEW m \in SUBSET (User \X Group),
         NEW rows \in TableSet, NEW n \in Nat, InSync(t, u, m, rows, n),
         NEW v \in User, NEW g \in Group, <<v, g>> \in m
  PROVE  LET new == m \ {<<v, g>>}
         IN  /\ <<u, g>> \in m => InSync(Execute(t, u, Leave(v, g)), u, new, rows, n)
             /\ <<u, g>> \notin m => InSync(t, u, new, rows, n)
<1>1. t.keys \in TableSet /\ t = [member |-> t.member, keys |-> t.keys]
  BY DEF TablePair
<1> DEFINE G == GroupsOf(m, u)
           new == m \ {<<v, g>>}
           H == GroupsOf(new, u)
<1>2. /\ t.member = {p \in m : p[2] \in G}
      /\ DOMAIN t.keys = Owned(rows, G)
      /\ \A x \in DOMAIN t.keys : Agrees(t.keys[x], rows[x], n)
  BY DEF InSync
<1>3. \A p \in m : p = <<p[1], p[2]>> /\ p[1] \in User /\ p[2] \in Group
  OBVIOUS
<1>4. CASE <<u, g>> \in m /\ v # u
  <2>1. H = G /\ g \in G
    BY <1>4 DEF GroupsOf
  <2>2. /\ Execute(t, u, Leave(v, g)).member = t.member \ {<<v, g>>}
        /\ Execute(t, u, Leave(v, g)).keys = t.keys
    BY <1>1, <1>4 DEF Execute, Leave
  <2> HIDE DEF G, H
  <2>3. t.member \ {<<v, g>>} = {p \in new : p[2] \in H}
    BY <1>2, <2>1
  <2>4. InSync(Execute(t, u, Leave(v, g)), u, new, rows, n)
    BY <1>2, <2>1, <2>2, <2>3 DEF InSync, H
  <2> QED BY <1>4, <2>4
<1>5. CASE <<u, g>> \in m /\ v = u
  <2> DEFINE K == (DOMAIN t.keys) \ Owned(t.keys, {g})
  <2>1. H = G \ {g}
    BY <1>5 DEF GroupsOf
  <2>2. /\ Execute(t, u, Leave(v, g)).member = {p \in t.member : p[2] # g}
        /\ Execute(t, u, Leave(v, g)).keys = Restrict(t.keys, K)
    BY <1>1, <1>5 DEF Execute, Leave
  <2> HIDE DEF G, H
  <2>3. {p \in t.member : p[2] # g} = {p \in new : p[2] \in H}
    <3>1. \A p \in m : p # <<v, g>> /\ p[2] \in G /\ p[2] # g <=> p[2] \in G /\ p[2] # g
      BY <1>3
    <3> QED BY <1>2, <2>1, <3>1
  <2>4. \A x \in DOMAIN t.keys : x \in DOMAIN rows /\ t.keys[x].owner = rows[x].owner
    BY <1>2 DEF Owned, Agrees
  <2>5. K = Owned(rows, H) /\ K \in SUBSET DOMAIN t.keys
    BY <1>2, <2>1, <2>4 DEF Owned
  <2> HIDE DEF K
  <2>6. /\ DOMAIN Restrict(t.keys, K) = K
        /\ \A x \in K : Restrict(t.keys, K)[x] = t.keys[x]
    BY <1>1, <2>5, RestrictFacts
  <2>7. InSync(Execute(t, u, Leave(v, g)), u, new, rows, n)
    BY <1>2, <2>2, <2>3, <2>5, <2>6 DEF InSync, H
  <2> QED BY <1>5, <2>7
<1>6. CASE <<u, g>> \notin m
  <2>1. H = G /\ g \notin G
    BY <1>6 DEF GroupsOf
  <2> HIDE DEF G, H
  <2>2. t.member = {p \in new : p[2] \in H}
    BY <1>2, <2>1
  <2>3. InSync(t, u, new, rows, n)
    BY <1>2, <2>1, <2>2 DEF InSync, H
  <2> QED BY <1>6, <2>3
<1> QED BY <1>4, <1>5, <1>6

\* A user joins a group: it gets the rows that are about the group, and the others
\* of the group one row.
LEMMA JoinInSync ==
  ASSUME NEW t \in TablePair, NEW u \in User, NEW m \in SUBSET (User \X Group),
         NEW rows \in TableSet, NEW n \in Nat, InSync(t, u, m, rows, n),
         NEW v \in User, NEW g \in Group, <<v, g>> \notin m
  PROVE  LET new == m \cup {<<v, g>>}
             mine == Join({p \in new : p[2] = g}, Restrict(rows, Owned(rows, {g})))
         IN  /\ u = v => InSync(Execute(t, u, mine), u, new, rows, n)
             /\ u # v /\ <<u, g>> \in m =>
                  InSync(Execute(t, u, Join({<<v, g>>}, <<>>)), u, new, rows, n)
             /\ u # v /\ <<u, g>> \notin m => InSync(t, u, new, rows, n)
<1>1. t.keys \in TableSet /\ t = [member |-> t.member, keys |-> t.keys]
  BY DEF TablePair
<1> DEFINE G == GroupsOf(m, u)
           new == m \cup {<<v, g>>}
           H == GroupsOf(new, u)
           K == Owned(rows, {g})
           its == Restrict(rows, K)
           mine == Join({p \in new : p[2] = g}, its)
<1>2. /\ t.member = {p \in m : p[2] \in G}
      /\ DOMAIN t.keys = Owned(rows, G)
      /\ \A x \in DOMAIN t.keys : Agrees(t.keys[x], rows[x], n)
  BY DEF InSync
<1>3. CASE u = v
  <2>1. H = G \cup {g}
    BY <1>3 DEF GroupsOf
  <2>2. K \in SUBSET DOMAIN rows
    BY DEF Owned
  <2>3. its \in TableSet /\ DOMAIN its = K /\ \A x \in K : its[x] = rows[x]
    <3> HIDE DEF K
    <3> QED BY <2>2, RestrictFacts
  <2>4. /\ Execute(t, u, mine).member = t.member \cup {p \in new : p[2] = g}
        /\ Execute(t, u, mine).keys = Over(its, t.keys)
    BY <1>1 DEF Execute, Join
  <2> HIDE DEF G, H, its, mine
  <2>5. t.member \cup {p \in new : p[2] = g} = {p \in new : p[2] \in H}
    BY <1>2, <2>1
  <2>6. K \cup DOMAIN t.keys = Owned(rows, H)
    BY <1>2, <2>1 DEF Owned
  <2> HIDE DEF K
  <2>7. /\ DOMAIN Over(its, t.keys) = K \cup DOMAIN t.keys
        /\ \A x \in K : Over(its, t.keys)[x] = rows[x]
        /\ \A x \in DOMAIN t.keys \ K : Over(its, t.keys)[x] = t.keys[x]
    BY <1>1, <2>3, OverFacts
  <2>8. \A x \in DOMAIN Over(its, t.keys) : Agrees(Over(its, t.keys)[x], rows[x], n)
    <3> DEFINE e == Over(its, t.keys)
    <3> HIDE DEF e
    <3>1. \A x \in K : Agrees(e[x], rows[x], n)
      BY <2>7 DEF e, Agrees
    <3> QED BY <1>2, <2>7, <3>1 DEF e
  <2>9. InSync(Execute(t, u, mine), u, new, rows, n)
    BY <2>4, <2>5, <2>6, <2>7, <2>8 DEF InSync, H
  <2> QED BY <1>3, <2>9 DEF mine, its, K
<1>4. CASE u # v /\ <<u, g>> \in m
  <2>1. H = G /\ g \in G
    BY <1>4 DEF GroupsOf
  <2>2. <<>> \in TableSet /\ DOMAIN <<>> = {}
    <3>1. DOMAIN <<>> = {} /\ <<>> \in [{} -> Rows]
      OBVIOUS
    <3> QED BY <3>1, TableFacts DEF Table
  <2>3. Over(<<>>, t.keys) \in TableSet /\ DOMAIN Over(<<>>, t.keys) = DOMAIN t.keys
        /\ \A x \in DOMAIN t.keys : Over(<<>>, t.keys)[x] = t.keys[x]
    <3> DEFINE none == <<>>
    <3>1. none \in TableSet /\ DOMAIN none = {}
      BY <2>2
    <3> HIDE DEF none
    <3>2. /\ Over(none, t.keys) \in TableSet
          /\ DOMAIN Over(none, t.keys) = DOMAIN none \cup DOMAIN t.keys
          /\ \A x \in DOMAIN t.keys \ DOMAIN none : Over(none, t.keys)[x] = t.keys[x]
      BY <1>1, <3>1, OverFacts
    <3>3. /\ Over(none, t.keys) \in TableSet
          /\ DOMAIN Over(none, t.keys) = DOMAIN t.keys
          /\ \A x \in DOMAIN t.keys : Over(none, t.keys)[x] = t.keys[x]
      BY <3>1, <3>2
    <3> QED BY <3>3 DEF none
  <2>4. /\ Execute(t, u, Join({<<v, g>>}, <<>>)).member = t.member \cup {<<v, g>>}
        /\ Execute(t, u, Join({<<v, g>>}, <<>>)).keys = Over(<<>>, t.keys)
    BY <1>1 DEF Execute, Join
  <2> HIDE DEF G, H
  <2>5. t.member \cup {<<v, g>>} = {p \in new : p[2] \in H}
    BY <1>2, <2>1
  <2>6. \A x \in DOMAIN Over(<<>>, t.keys) : Agrees(Over(<<>>, t.keys)[x], rows[x], n)
    BY <1>2, <2>3
  <2>7. InSync(Execute(t, u, Join({<<v, g>>}, <<>>)), u, new, rows, n)
    BY <1>2, <2>1, <2>3, <2>4, <2>5, <2>6 DEF InSync, H
  <2> QED BY <1>4, <2>7
<1>5. CASE u # v /\ <<u, g>> \notin m
  <2>1. H = G /\ g \notin G
    BY <1>5 DEF GroupsOf
  <2> HIDE DEF G, H
  <2>2. t.member = {p \in new : p[2] \in H}
    BY <1>2, <2>1
  <2>3. InSync(t, u, new, rows, n)
    BY <1>2, <2>1, <2>2 DEF InSync, H
  <2> QED BY <1>5, <2>3
<1> QED BY <1>3, <1>4, <1>5

-----------------------------------------------------------------------------
(* The invariant.                                                          *)

PC == {"idle", "updated", "checked", "found", "asking", "asked", "usable"}
DeviceRecord ==
  [program : SUBSET {"messages", "files"}, member : SUBSET (User \X Group), keys : TableSet,
   pc : PC, request : Request \cup {NoRequest}, checked : Nat, key : Nat, direction : Direction,
   currtime : Nat, file : Nat, last : [Direction -> Nat],
   told : [member : SUBSET (User \X Group), active : SUBSET Key]]

Types ==
  /\ now \in Nat \ {0} /\ now <= Horizon /\ calls \in Nat
  /\ policy \in [Group -> Nat] /\ member \in SUBSET (User \X Group)
  /\ keys \in TableSet /\ Bounded(keys)
  /\ pending \in [User -> Seq(Statement)]
  /\ dev \in [User -> DeviceRecord]

\* What a device will be when it has executed everything.
Future(u) == Executed(Tables(dev[u]), u, pending[u])
Synced == \A u \in User : InSync(Future(u), u, member, keys, now)

\* A key was in use and will be when the second t + Margin begins.
Claim(k, t, rows) ==
  k \in DOMAIN rows /\ rows[k].activation # 0 /\ t + Margin < rows[k].expiration

\* The times of a key are set once: a device's rows have them, or none yet.
OwnRows(table, rows) ==
  /\ Bounded(table)
  /\ \A k \in DOMAIN table :
       /\ k \in DOMAIN rows
       /\ table[k].activation # 0 => /\ table[k].activation = rows[k].activation
                                     /\ table[k].expiration = rows[k].expiration

\* What a call knows at each of its points.
InCall(u, d, n, rows) ==
  /\ d.checked # Never => d.checked <= n /\ n <= d.checked + Margin
  /\ d.currtime <= n /\ \A x \in Direction : d.last[x] <= n
  /\ d.pc \in {"updated", "checked", "found"} =>
       d.member \subseteq d.told.member /\ Active(d.keys) \subseteq d.told.active
  /\ d.pc \in {"checked", "found"} =>
       d.checked # Never /\ \A k \in Active(d.keys) : d.checked + Margin < d.keys[k].expiration
  /\ d.pc = "found" =>
       /\ d.key \in Active(d.keys) /\ <<u, d.keys[d.key].owner>> \in d.member
       /\ \A v \in d.request.users : <<v, d.keys[d.key].owner>> \in d.member
  /\ d.pc \in {"asking", "asked"} => d.key = d.file
  /\ d.pc = "usable" /\ d.direction = "encrypt" => d.checked # Never /\ Claim(d.key, d.checked, rows)
  /\ d.last["encrypt"] # Never => Claim(d.file, d.last["encrypt"], rows)

Devices == \A u \in User : OwnRows(dev[u].keys, keys) /\ InCall(u, dev[u], now, keys)

Inv == Types /\ Synced /\ Devices

-----------------------------------------------------------------------------
(* The administrator.                                                      *)

Later(rows, new) ==
  \A k \in DOMAIN rows :
    /\ k \in DOMAIN new
    /\ rows[k].activation # 0 => /\ new[k].activation = rows[k].activation
                                 /\ new[k].expiration = rows[k].expiration

LEMMA LaterDevices ==
  ASSUME NEW u, NEW d, NEW n, NEW rows, NEW new, Later(rows, new),
         OwnRows(d.keys, rows), InCall(u, d, n, rows)
  PROVE  OwnRows(d.keys, new) /\ InCall(u, d, n, new)
<1>1. OwnRows(d.keys, new)
  BY DEF OwnRows, Later
<1>2. \A k, t : Claim(k, t, rows) => Claim(k, t, new)
  BY DEF Claim, Later
<1>3. InCall(u, d, n, new)
  BY <1>2 DEF InCall
<1> QED BY <1>1, <1>3

LEMMA TablesType ==
  ASSUME Types, NEW u \in User
  PROVE  /\ Tables(dev[u]) \in TablePair /\ Future(u) \in TablePair
         /\ pending[u] \in Seq(Statement) /\ dev[u] \in DeviceRecord
<1>1. pending[u] \in Seq(Statement) /\ dev[u] \in DeviceRecord
  BY DEF Types
<1>2. Tables(dev[u]) \in TablePair
  BY <1>1 DEF Tables, TablePair, DeviceRecord
<1> QED BY <1>1, <1>2, ExecutedType DEF Future

\* A step of the administrator, from what it does to each user.
LEMMA AdminStep ==
  ASSUME Inv, AdminOnly, calls' \in Nat, member' \in SUBSET (User \X Group),
         keys' \in TableSet, Bounded(keys'), Later(keys, keys'),
         pending' = [u \in User |-> pending'[u]],
         \A u \in User :
           \/ pending'[u] = pending[u] /\ InSync(Future(u), u, member', keys', now)
           \/ \E s \in Statement :
                /\ pending'[u] = Append(pending[u], s)
                /\ InSync(Execute(Future(u), u, s), u, member', keys', now)
  PROVE  Inv'
<1>1. Types /\ Synced /\ Devices /\ now' = now /\ policy' = policy /\ dev' = dev
  BY DEF Inv, AdminOnly
<1>2. ASSUME NEW u \in User
      PROVE  pending'[u] \in Seq(Statement) /\ InSync(Future(u)', u, member', keys', now')
  <2>1. /\ Tables(dev[u]) \in TablePair /\ Future(u) \in TablePair
        /\ pending[u] \in Seq(Statement)
    BY <1>1, TablesType
  <2>2. Future(u)' = Executed(Tables(dev[u]), u, pending'[u])
    BY <1>1 DEF Future
  <2>3. CASE pending'[u] = pending[u] /\ InSync(Future(u), u, member', keys', now)
    BY <1>1, <2>1, <2>2, <2>3 DEF Future
  <2>4. CASE \E s \in Statement :
               /\ pending'[u] = Append(pending[u], s)
               /\ InSync(Execute(Future(u), u, s), u, member', keys', now)
    <3>1. PICK s \in Statement : /\ pending'[u] = Append(pending[u], s)
                                 /\ InSync(Execute(Future(u), u, s), u, member', keys', now)
      BY <2>4
    <3>2. Append(pending[u], s) \in Seq(Statement)
      BY <2>1
    <3>3. Executed(Tables(dev[u]), u, Append(pending[u], s)) = Execute(Future(u), u, s)
      BY <2>1, ExecutedOneMore DEF Future
    <3> QED BY <1>1, <2>2, <3>1, <3>2, <3>3
  <2> QED BY <2>3, <2>4
<1>3. pending' \in [User -> Seq(Statement)]
  BY <1>2
<1>4. Types'
  BY <1>1, <1>3 DEF Types
<1>5. Synced'
  BY <1>2 DEF Synced
<1>6. Devices'
  <2>1. \A u \in User : OwnRows(dev[u].keys, keys') /\ InCall(u, dev[u], now, keys')
    BY <1>1, LaterDevices DEF Devices
  <2> QED BY <1>1, <2>1 DEF Devices
<1> QED BY <1>4, <1>5, <1>6 DEF Inv

\* What a change may do to a row: the times are set once and together, and only a
\* key that has them is put in use.
Lawful(c, row) ==
  /\ "activation" \in DOMAIN c => row.activation = 0 /\ c.activation < c.expiration
  /\ c.status \in {"active", "suspended"} =>
       IF "activation" \in DOMAIN c THEN c.activation # 0 ELSE row.activation # 0

LEMMA LawfulAfter ==
  ASSUME NEW rows \in TableSet, Bounded(rows), NEW K \in SUBSET DOMAIN rows, NEW c \in [K -> Columns],
         \A k \in K : Lawful(c[k], rows[k])
  PROVE  /\ After(rows, c) \in TableSet /\ Bounded(After(rows, c)) /\ Later(rows, After(rows, c))
<1> DEFINE a == After(rows, c)
<1>1. DOMAIN rows \subseteq Key /\ \A k \in DOMAIN rows : rows[k] \in Rows
  BY TableFacts DEF Table
<1>2. /\ a \in TableSet /\ DOMAIN a = DOMAIN rows
      /\ \A k \in DOMAIN rows : /\ k \in K => a[k] = Over(c[k], rows[k])
                                /\ k \notin K => a[k] = rows[k]
  <2>1. K \in SUBSET Key
    BY <1>1
  <2> QED BY <2>1, AfterFacts
<1> HIDE DEF a
<1>3. ASSUME NEW k \in DOMAIN rows
      PROVE  /\ a[k].status \in {"active", "suspended"} => a[k].activation # 0
             /\ a[k].activation # 0 => a[k].activation < a[k].expiration
             /\ rows[k].activation # 0 => /\ a[k].activation = rows[k].activation
                                          /\ a[k].expiration = rows[k].expiration
  <2>1. CASE k \in K
    <3> DEFINE e == c[k]
    <3>1. e \in Columns /\ a[k] = Over(e, rows[k]) /\ Lawful(e, rows[k])
      BY <1>2, <2>1
    <3> HIDE DEF e
    <3>2. /\ a[k].status = e.status
          /\ a[k].activation = IF "activation" \in DOMAIN e THEN e.activation ELSE rows[k].activation
          /\ a[k].expiration = IF "activation" \in DOMAIN e THEN e.expiration ELSE rows[k].expiration
      BY <1>1, <3>1, ColumnFacts
    <3> QED BY <3>1, <3>2 DEF Lawful, Bounded
  <2>2. CASE k \notin K
    BY <1>2, <2>2 DEF Bounded
  <2> QED BY <2>1, <2>2
<1>4. Bounded(a) /\ Later(rows, a)
  BY <1>2, <1>3 DEF Bounded, Later
<1> QED BY <1>2, <1>4 DEF a

LEMMA AlterInv ==
  ASSUME Inv, NEW k \in DOMAIN keys, NEW c \in Columns, Lawful(c, keys[k]), Alter(k, c), calls' \in Nat
  PROVE  Inv'
<1>1. /\ keys' = After(keys, Only(k, c)) /\ member' = member /\ AdminOnly
      /\ pending' = [u \in User |-> IF u \in Members(keys[k].owner)
                                      THEN Append(pending[u], Change(Only(k, c))) ELSE pending[u]]
  BY DEF Alter, Queue
<1>2. Types /\ Synced
  BY DEF Inv
<1>3. keys \in TableSet /\ Bounded(keys) /\ now \in Nat /\ member \in SUBSET (User \X Group)
  BY <1>2 DEF Types
<1>4. k \in Key
  BY <1>3, TableFacts DEF Table
<1> DEFINE o == Only(k, c)
<1>5. o \in [{k} -> Columns] /\ o[k] = c
  BY DEF Only
<1> HIDE DEF o
<1>6. keys' \in TableSet /\ Bounded(keys') /\ Later(keys, keys')
  BY <1>1, <1>3, <1>5, LawfulAfter DEF o
<1>7. Change(o) \in Statement
  BY <1>4, <1>5 DEF Change, Statement
<1>8. ASSUME NEW u \in User
      PROVE  \/ pending'[u] = pending[u] /\ InSync(Future(u), u, member', keys', now)
             \/ \E s \in Statement :
                  /\ pending'[u] = Append(pending[u], s)
                  /\ InSync(Execute(Future(u), u, s), u, member', keys', now)
  <2>1. Future(u) \in TablePair /\ InSync(Future(u), u, member, keys, now)
    BY <1>2, TablesType DEF Synced
  <2>2. CASE u \in Members(keys[k].owner)
    <3>1. {k} = {x \in {k} : <<u, keys[x].owner>> \in member}
      BY <2>2 DEF Members, MembersOf
    <3>2. InSync(Execute(Future(u), u, Change(o)), u, member, After(keys, o), now)
      BY <1>3, <1>5, <2>1, <3>1, ChangeInSync
    <3> QED BY <1>1, <1>7, <2>2, <3>2 DEF o
  <2>3. CASE u \notin Members(keys[k].owner)
    <3>1. {} = {x \in {k} : <<u, keys[x].owner>> \in member}
      BY <2>3 DEF Members, MembersOf
    <3>2. [x \in {} |-> c] \in [{} -> Columns]
      OBVIOUS
    <3>3. InSync(Future(u), u, member, After(keys, o), now)
      <4> DEFINE d == [x \in {} |-> c]
      <4>1. d \in [{} -> Columns] /\ \A x \in {} : d[x] = o[x]
        BY <3>2
      <4> HIDE DEF d
      <4> QED BY <1>3, <1>5, <2>1, <3>1, <4>1, ChangeInSync
    <3> QED BY <1>1, <2>3, <3>3 DEF o
  <2> QED BY <2>2, <2>3
<1>9. pending' = [u \in User |-> pending'[u]]
  BY <1>1
<1> QED BY <1>1, <1>3, <1>6, <1>8, <1>9, AdminStep

LEMMA RowType ==
  ASSUME Types, NEW k \in DOMAIN keys
  PROVE  /\ k \in Key /\ keys[k] \in Rows /\ keys[k].owner \in Group /\ keys[k].status \in Status
         /\ keys[k].activation \in Nat /\ keys[k].expiration \in Nat
         /\ keys[k].cryptoperiod \in Nat
         /\ keys[k].status \in {"active", "suspended"} => keys[k].activation # 0
         /\ keys[k].activation # 0 => keys[k].activation < keys[k].expiration
<1>1. k \in Key /\ keys[k] \in Rows
  BY TableFacts DEF Types, Table
<1> QED BY <1>1 DEF Types, Bounded, Rows

LEMMA StatusChangeFacts ==
  ASSUME Types, NEW k \in DOMAIN keys, NEW status \in Status,
         status \in {"active", "suspended"} => keys[k].activation # 0
  PROVE  StatusChange(k, status) \in Columns /\ Lawful(StatusChange(k, status), keys[k])
<1>1. keys[k].expiration \in Nat /\ now \in Nat
  BY RowType DEF Types
<1>2. CASE status = "deactivated"
  <2> DEFINE c == StatusChange(k, status)
  <2>1. c \in [status : Status, deactivation : Nat] /\ c.status = "deactivated"
    BY <1>1, <1>2 DEF StatusChange, Status
  <2>2. "activation" \notin DOMAIN c
    BY <2>1
  <2> HIDE DEF c
  <2> QED BY <2>1, <2>2 DEF Columns, Lawful, c
<1>3. CASE status # "deactivated"
  <2> DEFINE c == StatusChange(k, status)
  <2>1. c \in [status : Status] /\ c.status = status
    BY <1>3 DEF StatusChange
  <2>2. "activation" \notin DOMAIN c
    BY <2>1
  <2> HIDE DEF c
  <2> QED BY <2>1, <2>2 DEF Columns, Lawful, c
<1> QED BY <1>2, <1>3

LEMMA ActivateInv ==
  ASSUME Inv, NEW k \in Key, sekey_activate_key(k)
  PROVE  Inv'
<1>1. /\ calls' = calls - 1 /\ calls > 0 /\ k \in DOMAIN keys
      /\ check_key_transition_validity(keys[k].status, "active")
      /\ Types
  BY DEF sekey_activate_key, Call, Inv
<1>2. calls' \in Nat
  BY <1>1 DEF Types
<1>3. CASE keys[k].activation = 0
  <2> DEFINE c == [status |-> "active", activation |-> now, expiration |-> now + Cryptoperiod(k)]
  <2>1. Cryptoperiod(k) # 0 /\ Alter(k, c)
    BY <1>3 DEF sekey_activate_key
  <2>2. Cryptoperiod(k) \in Nat
    BY <1>1, RowType DEF Cryptoperiod, Types
  <2>3. now \in Nat \ {0}
    BY <1>1 DEF Types
  <2>4. /\ c \in [status : Status, activation : Nat, expiration : Nat]
        /\ c.status = "active" /\ c.activation = now /\ c.activation < c.expiration
    BY <2>1, <2>2, <2>3 DEF Status
  <2>5. "activation" \in DOMAIN c
    OBVIOUS
  <2> HIDE DEF c
  <2>6. c \in Columns /\ Lawful(c, keys[k])
    BY <1>3, <2>3, <2>4, <2>5 DEF Columns, Lawful
  <2> QED BY <1>1, <1>2, <2>1, <2>6, AlterInv
<1>4. CASE keys[k].activation # 0
  <2> DEFINE c == [status |-> "active"]
  <2>1. Alter(k, c)
    BY <1>4 DEF sekey_activate_key
  <2>2. c \in [status : Status] /\ c.status = "active" /\ "activation" \notin DOMAIN c
    BY DEF Status
  <2> HIDE DEF c
  <2>3. c \in Columns /\ Lawful(c, keys[k])
    BY <1>4, <2>2 DEF Columns, Lawful
  <2> QED BY <1>1, <1>2, <2>1, <2>3, AlterInv
<1> QED BY <1>3, <1>4

LEMMA ChangeStatusInv ==
  ASSUME Inv, NEW k \in Key, NEW status \in Status, sekey_key_change_status(k, status)
  PROVE  Inv'
<1>1. /\ calls' = calls - 1 /\ calls > 0 /\ k \in DOMAIN keys /\ status \in Changeable
      /\ check_key_transition_validity(keys[k].status, status)
      /\ Alter(k, StatusChange(k, status)) /\ Types
  BY DEF sekey_key_change_status, Call, Inv
<1>2. calls' \in Nat
  BY <1>1 DEF Types
<1>3. status = "suspended" => keys[k].status = "active"
  BY <1>1, RowType DEF check_key_transition_validity, Status
<1>4. status \in {"active", "suspended"} => keys[k].activation # 0
  BY <1>1, <1>3, RowType DEF Changeable
<1>5. StatusChange(k, status) \in Columns /\ Lawful(StatusChange(k, status), keys[k])
  BY <1>1, <1>4, StatusChangeFacts
<1> QED BY <1>1, <1>2, <1>5, AlterInv

LEMMA AddKeyInv ==
  ASSUME Inv, NEW k \in Key, NEW g \in Group, NEW p \in Nat, sekey_add_key(k, g, p)
  PROVE  Inv'
<1> DEFINE row == [owner |-> g, status |-> "preactive", activation |-> 0, expiration |-> 0,
                   cryptoperiod |-> p, deactivation |-> 0]
           o == Only(k, row)
<1>1. /\ calls' = calls - 1 /\ calls > 0 /\ k \notin DOMAIN keys /\ keys' = Over(o, keys)
      /\ pending' = [u \in User |-> IF u \in Members(g) THEN Append(pending[u], NewKey(k, row))
                                    ELSE pending[u]]
      /\ member' = member /\ AdminOnly
  BY DEF sekey_add_key, Call, Queue
<1>2. Types /\ Synced
  BY DEF Inv
<1>3. /\ keys \in TableSet /\ Bounded(keys) /\ now \in Nat /\ member \in SUBSET (User \X Group)
      /\ calls' \in Nat
  BY <1>1, <1>2 DEF Types
<1>4. row \in Rows /\ row.owner = g /\ row.status = "preactive" /\ row.activation = 0
  BY DEF Rows, Status
<1> HIDE DEF row
<1>5. o \in TableSet /\ DOMAIN o = {k} /\ o[k] = row
  BY <1>4, OneRowFacts
<1> HIDE DEF o
<1>6. /\ keys' \in TableSet /\ DOMAIN keys' = {k} \cup DOMAIN keys /\ keys'[k] = row
      /\ \A x \in DOMAIN keys : keys'[x] = keys[x]
  <2>1. /\ Over(o, keys) \in TableSet /\ DOMAIN Over(o, keys) = (DOMAIN o) \cup (DOMAIN keys)
        /\ \A x \in DOMAIN o : Over(o, keys)[x] = o[x]
        /\ \A x \in DOMAIN keys \ DOMAIN o : Over(o, keys)[x] = keys[x]
    BY <1>3, <1>5, OverFacts
  <2> QED BY <1>1, <1>5, <2>1
<1>7. Bounded(keys') /\ Later(keys, keys')
  BY <1>3, <1>4, <1>6 DEF Bounded, Later
<1>8. NewKey(k, row) \in Statement
  BY <1>4 DEF NewKey, Statement
<1>9. ASSUME NEW u \in User
      PROVE  \/ pending'[u] = pending[u] /\ InSync(Future(u), u, member', keys', now)
             \/ \E s \in Statement :
                  /\ pending'[u] = Append(pending[u], s)
                  /\ InSync(Execute(Future(u), u, s), u, member', keys', now)
  <2>1. Future(u) \in TablePair /\ InSync(Future(u), u, member, keys, now)
    BY <1>2, TablesType DEF Synced
  <2>2. /\ <<u, g>> \in member => InSync(Execute(Future(u), u, NewKey(k, row)), u, member, Over(o, keys), now)
        /\ <<u, g>> \notin member => InSync(Future(u), u, member, Over(o, keys), now)
    BY <1>1, <1>3, <1>4, <2>1, NewKeyInSync DEF o
  <2>3. u \in Members(g) <=> <<u, g>> \in member
    BY DEF Members, MembersOf
  <2> QED BY <1>1, <1>8, <2>2, <2>3
<1>10. pending' = [u \in User |-> pending'[u]]
  BY <1>1
<1> QED BY <1>1, <1>3, <1>6, <1>7, <1>9, <1>10, AdminStep

LEMMA AdminExpiredInv ==
  ASSUME Inv, sekey_check_expired_keys
  PROVE  Inv'
<1> DEFINE K == Expired(keys)
           c == [k \in K |-> StatusChange(k, "deactivated")]
           L(u) == {k \in K : u \in Members(keys[k].owner)}
           d(u) == [k \in L(u) |-> StatusChange(k, "deactivated")]
<1>1. /\ keys' = After(keys, c) /\ member' = member /\ calls' = calls /\ AdminOnly
      /\ pending' = [u \in User |-> IF L(u) = {} THEN pending[u] ELSE Append(pending[u], Change(d(u)))]
  BY DEF sekey_check_expired_keys
<1>2. Types /\ Synced
  BY DEF Inv
<1>3. /\ keys \in TableSet /\ Bounded(keys) /\ now \in Nat /\ member \in SUBSET (User \X Group)
      /\ calls' \in Nat
  BY <1>1, <1>2 DEF Types
<1>4. K \in SUBSET DOMAIN keys /\ DOMAIN keys \subseteq Key
  BY <1>3, TableFacts DEF Expired, Table
<1>5. \A k \in K : StatusChange(k, "deactivated") \in Columns
                   /\ Lawful(StatusChange(k, "deactivated"), keys[k])
  BY <1>2, <1>4, StatusChangeFacts DEF Status
<1>6. c \in [K -> Columns] /\ \A k \in K : Lawful(c[k], keys[k])
  BY <1>5
<1>7. \A u \in User : /\ L(u) \in SUBSET K /\ L(u) = {k \in K : <<u, keys[k].owner>> \in member}
                      /\ d(u) \in [L(u) -> Columns] /\ \A k \in L(u) : d(u)[k] = c[k]
  BY <1>5 DEF Members, MembersOf
<1>8. \A u \in User : Change(d(u)) \in Statement
  <2> TAKE u \in User
  <2>1. L(u) \in SUBSET Key /\ d(u) \in [L(u) -> Columns]
    BY <1>4, <1>7
  <2> HIDE DEF L, d
  <2> QED BY <2>1 DEF Change, Statement
<1> HIDE DEF K, c, L, d
<1>9. keys' \in TableSet /\ Bounded(keys') /\ Later(keys, keys')
  BY <1>1, <1>3, <1>4, <1>6, LawfulAfter
<1>10. ASSUME NEW u \in User
       PROVE  \/ pending'[u] = pending[u] /\ InSync(Future(u), u, member', keys', now)
              \/ \E s \in Statement :
                   /\ pending'[u] = Append(pending[u], s)
                   /\ InSync(Execute(Future(u), u, s), u, member', keys', now)
  <2>1. Future(u) \in TablePair /\ InSync(Future(u), u, member, keys, now)
    BY <1>2, TablesType DEF Synced
  <2>2. /\ InSync(Execute(Future(u), u, Change(d(u))), u, member, After(keys, c), now)
        /\ L(u) = {} => InSync(Future(u), u, member, After(keys, c), now)
    BY <1>3, <1>4, <1>6, <1>7, <2>1, ChangeInSync
  <2> QED BY <1>1, <1>8, <2>2
<1>11. pending' = [u \in User |-> pending'[u]]
  BY <1>1
<1> QED BY <1>1, <1>3, <1>9, <1>10, <1>11, AdminStep

LEMMA LeaveInv ==
  ASSUME Inv, NEW v \in User, NEW g \in Group, sekey_delete_user_group(v, g)
  PROVE  Inv'
<1>1. /\ calls' = calls - 1 /\ calls > 0 /\ <<v, g>> \in member /\ member' = member \ {<<v, g>>}
      /\ pending' = [u \in User |-> IF u \in Members(g) THEN Append(pending[u], Leave(v, g))
                                    ELSE pending[u]]
      /\ keys' = keys /\ AdminOnly
  BY DEF sekey_delete_user_group, Call, Queue
<1>2. Types /\ Synced
  BY DEF Inv
<1>3. /\ keys \in TableSet /\ Bounded(keys) /\ now \in Nat /\ member \in SUBSET (User \X Group)
      /\ calls' \in Nat /\ member' \in SUBSET (User \X Group)
  BY <1>1, <1>2 DEF Types
<1>4. Later(keys, keys')
  BY <1>1 DEF Later
<1>5. Leave(v, g) \in Statement
  BY DEF Leave, Statement
<1>6. ASSUME NEW u \in User
      PROVE  \/ pending'[u] = pending[u] /\ InSync(Future(u), u, member', keys', now)
             \/ \E s \in Statement :
                  /\ pending'[u] = Append(pending[u], s)
                  /\ InSync(Execute(Future(u), u, s), u, member', keys', now)
  <2>1. Future(u) \in TablePair /\ InSync(Future(u), u, member, keys, now)
    BY <1>2, TablesType DEF Synced
  <2>2. /\ <<u, g>> \in member => InSync(Execute(Future(u), u, Leave(v, g)), u, member', keys, now)
        /\ <<u, g>> \notin member => InSync(Future(u), u, member', keys, now)
    BY <1>1, <1>3, <2>1, LeaveInSync
  <2>3. u \in Members(g) <=> <<u, g>> \in member
    BY DEF Members, MembersOf
  <2> QED BY <1>1, <1>5, <2>2, <2>3
<1>7. pending' = [u \in User |-> pending'[u]]
  BY <1>1
<1> QED BY <1>1, <1>3, <1>4, <1>6, <1>7, AdminStep

LEMMA JoinInv ==
  ASSUME Inv, NEW v \in User, NEW g \in Group, sekey_add_user_group(v, g)
  PROVE  Inv'
<1> DEFINE new == member \cup {<<v, g>>}
           mine == Join({p \in new : p[2] = g}, Restrict(keys, Owned(keys, {g})))
           one == Join({<<v, g>>}, <<>>)
<1>1. /\ calls' = calls - 1 /\ calls > 0 /\ <<v, g>> \notin member /\ member' = new
      /\ pending' = [u \in User |-> IF u = v THEN Append(pending[u], mine)
                                    ELSE IF u \in Members(g) THEN Append(pending[u], one)
                                    ELSE pending[u]]
      /\ keys' = keys /\ AdminOnly
  BY DEF sekey_add_user_group, Call
<1>2. Types /\ Synced
  BY DEF Inv
<1>3. /\ keys \in TableSet /\ Bounded(keys) /\ now \in Nat /\ member \in SUBSET (User \X Group)
      /\ calls' \in Nat /\ new \in SUBSET (User \X Group)
  BY <1>1, <1>2 DEF Types
<1>4. Later(keys, keys')
  BY <1>1 DEF Later
<1>5. mine \in Statement /\ one \in Statement
  <2>1. Owned(keys, {g}) \in SUBSET DOMAIN keys
    BY DEF Owned
  <2>2. Restrict(keys, Owned(keys, {g})) \in TableSet
    BY <1>3, <2>1, RestrictFacts
  <2>3. <<>> \in TableSet
    <3>1. DOMAIN <<>> = {} /\ <<>> \in [{} -> Rows]
      OBVIOUS
    <3> QED BY <3>1, TableFacts DEF Table
  <2>4. {p \in new : p[2] = g} \in SUBSET (User \X Group) /\ {<<v, g>>} \in SUBSET (User \X Group)
    BY <1>3
  <2> HIDE DEF new
  <2> QED BY <2>2, <2>3, <2>4 DEF Join, Statement
<1>6. ASSUME NEW u \in User
      PROVE  \/ pending'[u] = pending[u] /\ InSync(Future(u), u, new, keys, now)
             \/ \E s \in Statement :
                  /\ pending'[u] = Append(pending[u], s)
                  /\ InSync(Execute(Future(u), u, s), u, new, keys, now)
  <2>1. Future(u) \in TablePair /\ InSync(Future(u), u, member, keys, now)
    BY <1>2, TablesType DEF Synced
  <2>2. /\ u = v => InSync(Execute(Future(u), u, mine), u, new, keys, now)
        /\ u # v /\ <<u, g>> \in member => InSync(Execute(Future(u), u, one), u, new, keys, now)
        /\ u # v /\ <<u, g>> \notin member => InSync(Future(u), u, new, keys, now)
    BY <1>1, <1>3, <2>1, JoinInSync
  <2>3. u \in Members(g) <=> <<u, g>> \in member
    BY DEF Members, MembersOf
  <2> HIDE DEF mine, one
  <2> QED BY <1>1, <1>5, <2>2, <2>3
<1>7. pending' = [u \in User |-> pending'[u]]
  BY <1>1
<1> HIDE DEF new
<1> QED BY <1>1, <1>3, <1>4, <1>6, <1>7, AdminStep

LEMMA AdminInv ==
  ASSUME Inv, Admin
  PROVE  Inv'
<1>1. CASE sekey_check_expired_keys
  BY <1>1, AdminExpiredInv
<1>2. ASSUME NEW k \in Key, NEW g \in Group, NEW p \in {0, Margin + 2}, sekey_add_key(k, g, p)
      PROVE  Inv'
  <2>1. p \in Nat
    BY KeyUseAssumption
  <2> QED BY <1>2, <2>1, AddKeyInv
<1>3. ASSUME NEW k \in Key, sekey_activate_key(k)
      PROVE  Inv'
  BY <1>3, ActivateInv
<1>4. ASSUME NEW k \in Key, NEW s \in Status, sekey_key_change_status(k, s)
      PROVE  Inv'
  BY <1>4, ChangeStatusInv
<1>5. ASSUME NEW u \in User, NEW g \in Group, sekey_delete_user_group(u, g)
      PROVE  Inv'
  BY <1>5, LeaveInv
<1>6. ASSUME NEW u \in User, NEW g \in Group, sekey_add_user_group(u, g)
      PROVE  Inv'
  BY <1>6, JoinInv
<1> QED BY <1>1, <1>2, <1>3, <1>4, <1>5, <1>6 DEF Admin

-----------------------------------------------------------------------------
(* The users.                                                              *)

\* A step of a user, from what it does to its device.
LEMMA UserStepInv ==
  ASSUME Inv, UserOnly, NEW u \in User, NEW d \in DeviceRecord, Becomes(u, d),
         OwnRows(d.keys, keys), InCall(u, d, now, keys),
         NEW q \in Seq(Statement), pending' = [pending EXCEPT ![u] = q],
         InSync(Executed(Tables(d), u, q), u, member, keys, now)
  PROVE  Inv'
<1>1. Types /\ Synced /\ Devices
  BY DEF Inv
<1>2. /\ now' = now /\ policy' = policy /\ member' = member /\ keys' = keys /\ calls' = calls
      /\ dev' = [dev EXCEPT ![u] = d]
  BY DEF UserOnly, Becomes
<1>3. pending \in [User -> Seq(Statement)] /\ dev \in [User -> DeviceRecord]
  BY <1>1 DEF Types
<1>4. /\ pending' \in [User -> Seq(Statement)] /\ dev' \in [User -> DeviceRecord]
      /\ pending'[u] = q /\ dev'[u] = d
      /\ \A v \in User : v # u => pending'[v] = pending[v] /\ dev'[v] = dev[v]
  BY <1>2, <1>3
<1>5. Types'
  BY <1>1, <1>2, <1>4 DEF Types
<1>6. ASSUME NEW v \in User PROVE InSync(Future(v)', v, member', keys', now')
  <2>1. CASE v = u
    BY <1>2, <1>4, <2>1 DEF Future
  <2>2. CASE v # u
    BY <1>1, <1>2, <1>4, <2>2 DEF Future, Synced
  <2> QED BY <2>1, <2>2
<1>7. ASSUME NEW v \in User PROVE OwnRows(dev'[v].keys, keys') /\ InCall(v, dev'[v], now', keys')
  <2>1. CASE v = u
    BY <1>2, <1>4, <2>1
  <2>2. CASE v # u
    BY <1>1, <1>2, <1>4, <2>2 DEF Devices
  <2> QED BY <2>1, <2>2
<1>8. Synced'
  BY <1>6 DEF Synced
<1>9. Devices'
  BY <1>7 DEF Devices
<1> QED BY <1>5, <1>8, <1>9 DEF Inv

\* It leaves the tables alone.
LEMMA SameTablesInv ==
  ASSUME Inv, UserOnly, UNCHANGED pending, NEW u \in User, NEW d \in DeviceRecord, Becomes(u, d),
         d.member = dev[u].member, d.keys = dev[u].keys, InCall(u, d, now, keys)
  PROVE  Inv'
<1>1. Types /\ Synced /\ Devices
  BY DEF Inv
<1>2. pending[u] \in Seq(Statement) /\ pending' = [pending EXCEPT ![u] = pending[u]]
  BY <1>1 DEF Types
<1>3. Tables(d) = Tables(dev[u]) /\ OwnRows(d.keys, keys)
  BY <1>1 DEF Tables, Devices
<1>4. InSync(Executed(Tables(d), u, pending[u]), u, member, keys, now)
  BY <1>1, <1>3 DEF Synced, Future
<1> QED BY <1>2, <1>3, <1>4, UserStepInv

\* It executes everything that is pending.
LEMMA UpdatedInv ==
  ASSUME Inv, NEW u \in User
  PROVE  LET t == Future(u)
             e == Updated(dev[u], u)
         IN  /\ e = [dev[u] EXCEPT !.member = t.member, !.keys = t.keys,
                                   !.told = [member |-> member, active |-> Active(keys)]]
             /\ e \in DeviceRecord
             /\ t.member \subseteq member /\ Active(t.keys) \subseteq Active(keys)
             /\ OwnRows(t.keys, keys)
             /\ InSync(Executed(t, u, <<>>), u, member, keys, now)
<1>1. Types /\ Synced
  BY DEF Inv
<1> DEFINE t == Future(u)
           e == Updated(dev[u], u)
<1>2. t \in TablePair /\ dev[u] \in DeviceRecord
  BY <1>1, TablesType
<1>3. e = [dev[u] EXCEPT !.member = t.member, !.keys = t.keys,
                         !.told = [member |-> member, active |-> Active(keys)]]
  BY DEF Updated, Future
<1> HIDE DEF t, e
<1>4. t.member \in SUBSET (User \X Group) /\ t.keys \in TableSet
  BY <1>2 DEF TablePair
<1>5. keys \in TableSet /\ member \in SUBSET (User \X Group) /\ Bounded(keys)
  BY <1>1 DEF Types
<1>6. [member |-> member, active |-> Active(keys)] \in [member : SUBSET (User \X Group), active : SUBSET Key]
  <2>1. Active(keys) \in SUBSET Key
    BY <1>5, TableFacts DEF Active, Table
  <2> QED BY <1>5, <2>1
<1>7. e \in DeviceRecord
  BY <1>2, <1>3, <1>4, <1>6 DEF DeviceRecord
<1>8. InSync(t, u, member, keys, now)
  BY <1>1 DEF Synced, t
<1>9. InSync(Executed(t, u, <<>>), u, member, keys, now)
  BY <1>8, ExecutedNone
<1>10. t.member \subseteq member
  BY <1>8 DEF InSync
<1>11. \A k \in DOMAIN t.keys : k \in DOMAIN keys /\ Agrees(t.keys[k], keys[k], now)
  BY <1>8 DEF InSync, Owned
<1>12. Active(t.keys) \subseteq Active(keys)
  BY <1>11 DEF Active, Agrees
<1>13. OwnRows(t.keys, keys)
  <2>1. Bounded(t.keys)
    BY <1>5, <1>11 DEF Bounded, Agrees
  <2> QED BY <1>11, <2>1 DEF OwnRows, Agrees
<1> QED BY <1>3, <1>7, <1>9, <1>10, <1>12, <1>13 DEF t, e

\* It checks its tables for expired keys: they are as they were but for the status
\* of these, and what is active afterwards lasts for more than Margin seconds.
LEMMA CheckedFacts ==
  ASSUME Inv, NEW u \in User, NEW e \in Checked(dev[u])
  PROVE  /\ e \in DeviceRecord /\ e.checked = now
         /\ e = [dev[u] EXCEPT !.checked = now, !.keys = e.keys]
         /\ OwnRows(e.keys, keys) /\ Active(e.keys) \subseteq Active(dev[u].keys)
         /\ \A k \in Active(e.keys) : now + Margin < e.keys[k].expiration
         /\ InSync(Executed(Tables(e), u, pending[u]), u, member, keys, now)
<1>1. Types /\ Synced /\ Devices
  BY DEF Inv
<1>2. dev[u] \in DeviceRecord /\ now \in Nat /\ keys \in TableSet /\ member \in SUBSET (User \X Group)
  BY <1>1 DEF Types
<1> DEFINE d == dev[u]
           late == Expired(d.keys)
<1>3. d.keys \in TableSet /\ DOMAIN d.keys \subseteq Key /\ \A k \in DOMAIN d.keys : d.keys[k] \in Rows
  <2>1. d.keys \in TableSet
    BY <1>2 DEF DeviceRecord
  <2> QED BY <2>1, TableFacts DEF Table
<1>4. late \subseteq DOMAIN d.keys
  BY DEF Expired
<1>5. PICK n \in Nat : e.keys = [x \in DOMAIN d.keys |->
        IF x \in late THEN [d.keys[x] EXCEPT !.status = "deactivated", !.deactivation = n]
        ELSE d.keys[x]]
  <2>1. CASE late = {}
    <3>1. e = [d EXCEPT !.checked = now]
      BY <2>1 DEF Checked
    <3>2. e.keys = d.keys
      BY <1>2, <3>1 DEF DeviceRecord
    <3>3. d.keys = [x \in DOMAIN d.keys |-> d.keys[x]]
      BY <1>3, TableFacts DEF Table
    <3>4. 0 \in Nat
      OBVIOUS
    <3> HIDE DEF late
    <3> QED BY <2>1, <3>2, <3>3, <3>4
  <2>2. CASE late # {}
    <3>1. PICK k \in DOMAIN d.keys : e = CheckedAs(d, k)
      BY <2>2 DEF Checked
    <3>2. d.keys[k].expiration \in Nat
      BY <1>3 DEF Rows
    <3>3. e.keys = [x \in DOMAIN d.keys |->
            IF x \in late THEN [d.keys[x] EXCEPT !.status = "deactivated",
                                                 !.deactivation = d.keys[k].expiration]
            ELSE d.keys[x]]
      BY <1>2, <3>1 DEF CheckedAs, DeviceRecord
    <3> HIDE DEF late
    <3> QED BY <3>2, <3>3
  <2> QED BY <2>1, <2>2
<1>6. e = [d EXCEPT !.checked = now, !.keys = e.keys]
  <2>1. CASE late = {}
    BY <1>2, <2>1 DEF Checked, DeviceRecord
  <2>2. CASE late # {}
    <3>1. PICK k \in DOMAIN d.keys : e = CheckedAs(d, k)
      BY <2>2 DEF Checked
    <3> DEFINE rows == [x \in DOMAIN d.keys |->
                 IF x \in late THEN [d.keys[x] EXCEPT !.status = "deactivated",
                                                      !.deactivation = d.keys[k].expiration]
                 ELSE d.keys[x]]
    <3>2. e = [d EXCEPT !.checked = now, !.keys = rows]
      BY <3>1 DEF CheckedAs
    <3> HIDE DEF rows, late
    <3>3. e.keys = rows
      BY <1>2, <3>2 DEF DeviceRecord
    <3> QED BY <3>2, <3>3
  <2> QED BY <2>1, <2>2
<1> HIDE DEF d, late
<1>7. DOMAIN e.keys = DOMAIN d.keys
  BY <1>5
<1>8. \A k \in DOMAIN d.keys :
        /\ e.keys[k] \in Rows
        /\ e.keys[k].owner = d.keys[k].owner /\ e.keys[k].activation = d.keys[k].activation
        /\ e.keys[k].expiration = d.keys[k].expiration
        /\ e.keys[k].status = IF k \in late THEN "deactivated" ELSE d.keys[k].status
  <2> TAKE k \in DOMAIN d.keys
  <2>1. d.keys[k] \in Rows
    BY <1>3
  <2>2. e.keys[k] = IF k \in late THEN [d.keys[k] EXCEPT !.status = "deactivated", !.deactivation = n]
                    ELSE d.keys[k]
    BY <1>5
  <2>3. CASE k \in late
    <3>1. e.keys[k] = [d.keys[k] EXCEPT !.status = "deactivated", !.deactivation = n]
      BY <2>2, <2>3
    <3> QED BY <2>1, <2>3, <3>1 DEF Rows, Status
  <2>4. CASE k \notin late
    BY <2>1, <2>2, <2>4
  <2> QED BY <2>3, <2>4
<1>9. e.keys \in TableSet
  <2>1. e.keys = [x \in DOMAIN d.keys |-> e.keys[x]]
    BY <1>5
  <2> QED BY <1>3, <1>7, <1>8, <2>1, TableFacts DEF Table
<1>10. e \in DeviceRecord /\ e.checked = now /\ e.member = d.member
  BY <1>2, <1>6, <1>9 DEF DeviceRecord, d
<1>11. OwnRows(d.keys, keys)
  BY <1>1 DEF Devices, d
<1>12. OwnRows(e.keys, keys)
  BY <1>7, <1>8, <1>11 DEF OwnRows, Bounded
<1>13. Active(e.keys) \subseteq Active(d.keys)
  BY <1>7, <1>8 DEF Active
<1>14. \A k \in DOMAIN d.keys :
         k \in late <=> /\ d.keys[k].status \in {"active", "suspended"}
                        /\ d.keys[k].expiration # 0 /\ d.keys[k].expiration <= now + Margin
  BY DEF late, Expired
<1>15. \A k \in Active(e.keys) : now + Margin < e.keys[k].expiration
  <2> TAKE k \in Active(e.keys)
  <2>1. k \in DOMAIN d.keys /\ k \notin late /\ d.keys[k].status = "active"
    BY <1>7, <1>8 DEF Active
  <2>2. d.keys[k].activation \in Nat /\ d.keys[k].expiration \in Nat
    BY <1>3, <2>1 DEF Rows
  <2>3. d.keys[k].activation < d.keys[k].expiration
    BY <1>11, <2>1 DEF OwnRows, Bounded
  <2>4. ~(d.keys[k].expiration <= now + Margin)
    BY <1>14, <2>1, <2>2, <2>3
  <2> QED BY <1>2, <1>8, <2>1, <2>2, <2>4, KeyUseAssumption
<1>16. Kept(Tables(e), Tables(d), now)
  <2>1. \A k \in DOMAIN d.keys : Agrees(e.keys[k], d.keys[k], now)
    BY <1>8, <1>14 DEF Agrees
  <2> QED BY <1>7, <1>10, <2>1 DEF Kept, Tables
<1>17. Tables(e) \in TablePair /\ Tables(d) \in TablePair /\ pending[u] \in Seq(Statement)
  <2>1. e.member \in SUBSET (User \X Group)
    BY <1>10 DEF DeviceRecord
  <2>2. Tables(e) \in TablePair
    BY <1>9, <2>1 DEF Tables, TablePair
  <2> QED BY <1>1, <2>2, TablesType DEF d
<1>18. Kept(Executed(Tables(e), u, pending[u]), Executed(Tables(d), u, pending[u]), now)
  BY <1>2, <1>16, <1>17, ExecutedKeeps
<1>19. InSync(Executed(Tables(d), u, pending[u]), u, member, keys, now)
  BY <1>1 DEF Synced, Future, d
<1>20. InSync(Executed(Tables(e), u, pending[u]), u, member, keys, now)
  BY <1>18, <1>19, KeptInSync
<1> QED BY <1>6, <1>10, <1>12, <1>13, <1>15, <1>20 DEF d

\* The types of the fields of a device.
LEMMA DeviceType ==
  ASSUME Types, NEW u \in User
  PROVE  /\ dev[u] \in DeviceRecord /\ now \in Nat /\ keys \in TableSet
         /\ dev[u].pc \in PC /\ dev[u].request \in Request \cup {NoRequest}
         /\ dev[u].checked \in Nat /\ dev[u].key \in Nat /\ dev[u].direction \in Direction
         /\ dev[u].currtime \in Nat /\ dev[u].file \in Nat /\ dev[u].last \in [Direction -> Nat]
         /\ dev[u].keys \in TableSet /\ dev[u].member \in SUBSET (User \X Group)
BY DEF Types, DeviceRecord

\* The end of a call.
LEMMA DoneFacts ==
  ASSUME NEW u, NEW d \in DeviceRecord, NEW n \in Nat, NEW rows, InCall(u, d, n, rows)
  PROVE  /\ Done(d) \in DeviceRecord /\ InCall(u, Done(d), n, rows)
         /\ Done(d).member = d.member /\ Done(d).keys = d.keys /\ Done(d).last = d.last
         /\ Done(d).pc = "idle" /\ Done(d).file = d.file
         /\ Done(d).direction = "encrypt" /\ Done(d).checked = Never /\ Done(d).currtime = Never
<1> DEFINE e == Done(d)
<1>1. e = [d EXCEPT !.pc = "idle", !.request = NoRequest, !.key = NoKey, !.checked = Never,
                    !.currtime = Never, !.direction = "encrypt", !.told = NotTold]
  BY DEF Done
<1> HIDE DEF e
<1>2. /\ e.member = d.member /\ e.keys = d.keys /\ e.last = d.last /\ e.file = d.file
      /\ e.pc = "idle" /\ e.direction = "encrypt" /\ e.checked = Never /\ e.currtime = Never
  BY <1>1 DEF DeviceRecord
<1>3. e \in DeviceRecord
  <2>1. NotTold \in [member : SUBSET (User \X Group), active : SUBSET Key]
    BY DEF NotTold
  <2>2. "idle" \in PC /\ NoKey \in Nat /\ Never \in Nat /\ "encrypt" \in Direction
    BY DEF PC, NoKey, Never, Direction
  <2> HIDE DEF NotTold
  <2> QED BY <1>1, <2>1, <2>2 DEF DeviceRecord
<1>4. InCall(u, e, n, rows)
  BY <1>2 DEF InCall, Never
<1> QED BY <1>2, <1>3, <1>4 DEF e

LEMMA FindKeyInv ==
  ASSUME Inv, NEW u \in User, NEW r \in Request, FindKey(u, r)
  PROVE  Inv'
<1> DEFINE t == Future(u)
           e == Updated(dev[u], u)
           d == [e EXCEPT !.pc = "updated", !.request = r]
<1>1. Types /\ Devices /\ dev[u].pc = "idle" /\ Becomes(u, d)
      /\ pending' = [pending EXCEPT ![u] = <<>>] /\ UserOnly
  BY DEF FindKey, Inv, At
<1>2. /\ e = [dev[u] EXCEPT !.member = t.member, !.keys = t.keys,
                            !.told = [member |-> member, active |-> Active(keys)]]
      /\ e \in DeviceRecord
      /\ t.member \subseteq member /\ Active(t.keys) \subseteq Active(keys)
      /\ OwnRows(t.keys, keys)
      /\ InSync(Executed(t, u, <<>>), u, member, keys, now)
  BY UpdatedInv
<1>3. dev[u] \in DeviceRecord /\ t \in TablePair
  BY <1>1, TablesType
<1> HIDE DEF e, t
<1>4. /\ e.member = t.member /\ e.keys = t.keys
      /\ e.told.member = member /\ e.told.active = Active(keys)
      /\ e.checked = dev[u].checked /\ e.currtime = dev[u].currtime /\ e.last = dev[u].last
      /\ e.file = dev[u].file
  BY <1>2, <1>3 DEF DeviceRecord
<1>5. d \in DeviceRecord
  BY <1>2 DEF DeviceRecord, PC
<1>6. /\ d.member = t.member /\ d.keys = t.keys
      /\ d.told.member = member /\ d.told.active = Active(keys)
      /\ d.checked = dev[u].checked /\ d.currtime = dev[u].currtime /\ d.last = dev[u].last
      /\ d.file = dev[u].file /\ d.pc = "updated"
  BY <1>2, <1>4 DEF DeviceRecord
<1> HIDE DEF d
<1>7. InCall(u, dev[u], now, keys)
  BY <1>1 DEF Devices
<1>8. InCall(u, d, now, keys)
  BY <1>2, <1>6, <1>7 DEF InCall
<1>9. Tables(d) = t
  BY <1>3, <1>6 DEF Tables, TablePair
<1>10. <<>> \in Seq(Statement)
  OBVIOUS
<1> QED BY <1>1, <1>2, <1>5, <1>6, <1>8, <1>9, <1>10, UserStepInv

LEMMA CheckExpiredInv ==
  ASSUME Inv, NEW u \in User, CheckExpired(u)
  PROVE  Inv'
<1>1. Types /\ Devices /\ dev[u].pc = "updated" /\ UserOnly /\ pending' = pending
  BY DEF CheckExpired, Inv, At
<1>2. PICK e \in Checked(dev[u]) : Becomes(u, [e EXCEPT !.pc = "checked"])
  BY DEF CheckExpired
<1> DEFINE d == [e EXCEPT !.pc = "checked"]
<1>3. /\ e \in DeviceRecord /\ e.checked = now
      /\ e = [dev[u] EXCEPT !.checked = now, !.keys = e.keys]
      /\ OwnRows(e.keys, keys) /\ Active(e.keys) \subseteq Active(dev[u].keys)
      /\ \A k \in Active(e.keys) : now + Margin < e.keys[k].expiration
      /\ InSync(Executed(Tables(e), u, pending[u]), u, member, keys, now)
  BY CheckedFacts
<1>4. dev[u] \in DeviceRecord /\ pending[u] \in Seq(Statement)
  BY <1>1, TablesType
<1>5. /\ e.member = dev[u].member /\ e.told = dev[u].told /\ e.currtime = dev[u].currtime
      /\ e.last = dev[u].last /\ e.file = dev[u].file
  BY <1>3, <1>4 DEF DeviceRecord
<1>6. d \in DeviceRecord
  BY <1>3 DEF DeviceRecord, PC
<1>7. /\ d.member = dev[u].member /\ d.keys = e.keys /\ d.told = dev[u].told /\ d.checked = now
      /\ d.currtime = dev[u].currtime /\ d.last = dev[u].last /\ d.file = dev[u].file
      /\ d.pc = "checked"
  BY <1>3, <1>5 DEF DeviceRecord
<1> HIDE DEF d
<1>8. InCall(u, dev[u], now, keys)
  BY <1>1 DEF Devices
<1>9. now \in Nat \ {0}
  BY <1>1 DEF Types
<1>10. InCall(u, d, now, keys)
  BY <1>1, <1>3, <1>7, <1>8, <1>9, KeyUseAssumption DEF InCall, Never
<1>11. Tables(d) = Tables(e)
  BY <1>5, <1>7 DEF Tables
<1>12. pending' = [pending EXCEPT ![u] = pending[u]]
  BY <1>1 DEF Types
<1> QED BY <1>1, <1>2, <1>3, <1>4, <1>6, <1>7, <1>10, <1>11, <1>12, UserStepInv DEF d

\* A key that is chosen is active, and its group is one of everybody concerned.
LEMMA ChosenFacts ==
  ASSUME NEW d, NEW u, NEW r \in Request \cup {NoRequest}, NEW k \in Chosen(d, u, r)
  PROVE  /\ k \in Active(d.keys) /\ <<u, d.keys[k].owner>> \in d.member
         /\ \A v \in r.users : <<v, d.keys[k].owner>> \in d.member
<1>1. k \in Active(d.keys) /\ d.keys[k].owner \in SelectedGroups(d, u, r)
  BY DEF Chosen, Owned
<1>2. r.users = {} \/ r.groups = {}
  BY KeyUseAssumption DEF NoRequest
<1>3. CASE r.groups # {}
  BY <1>1, <1>2, <1>3 DEF SelectedGroups, GroupsOf
<1>4. CASE r.groups = {}
  BY <1>1, <1>4 DEF SelectedGroups, Smallest, CommonGroups, GroupsOf
<1> QED BY <1>1, <1>3, <1>4

LEMMA ChooseKeyInv ==
  ASSUME Inv, NEW u \in User, ChooseKey(u)
  PROVE  Inv'
<1>1. Types /\ Devices /\ dev[u].pc = "checked" /\ UserOnly /\ UNCHANGED pending
  BY DEF ChooseKey, Inv, At
<1>2. dev[u] \in DeviceRecord /\ now \in Nat /\ InCall(u, dev[u], now, keys)
      /\ dev[u].request \in Request \cup {NoRequest}
  BY <1>1, DeviceType DEF Devices
<1>3. CASE Becomes(u, Done(dev[u]))
  <2>1. /\ Done(dev[u]) \in DeviceRecord /\ InCall(u, Done(dev[u]), now, keys)
        /\ Done(dev[u]).member = dev[u].member /\ Done(dev[u]).keys = dev[u].keys
    BY <1>2, DoneFacts
  <2> QED BY <1>1, <1>3, <2>1, SameTablesInv
<1>4. ASSUME NEW k \in Chosen(dev[u], u, dev[u].request),
             Becomes(u, [dev[u] EXCEPT !.pc = "found", !.key = k])
      PROVE  Inv'
  <2> DEFINE d == [dev[u] EXCEPT !.pc = "found", !.key = k]
  <2>1. /\ k \in Active(dev[u].keys) /\ <<u, dev[u].keys[k].owner>> \in dev[u].member
        /\ \A v \in dev[u].request.users : <<v, dev[u].keys[k].owner>> \in dev[u].member
    BY <1>2, <1>4, ChosenFacts
  <2>2. k \in Nat
    <3>1. dev[u].keys \in TableSet
      BY <1>2 DEF DeviceRecord
    <3>2. k \in Key
      BY <2>1, <3>1, TableFacts DEF Active, Table
    <3> QED BY <3>2, KeyUseAssumption
  <2>3. d \in DeviceRecord
    BY <1>2, <2>2 DEF DeviceRecord, PC
  <2>4. /\ d.member = dev[u].member /\ d.keys = dev[u].keys /\ d.told = dev[u].told
        /\ d.checked = dev[u].checked /\ d.currtime = dev[u].currtime /\ d.last = dev[u].last
        /\ d.file = dev[u].file /\ d.request = dev[u].request /\ d.pc = "found" /\ d.key = k
    BY <1>2 DEF DeviceRecord
  <2> HIDE DEF d
  <2>5. InCall(u, d, now, keys)
    BY <1>1, <1>2, <2>1, <2>4 DEF InCall
  <2> QED BY <1>1, <1>4, <2>3, <2>4, <2>5, SameTablesInv DEF d
<1> QED BY <1>3, <1>4 DEF ChooseKey

LEMMA EncryptInv ==
  ASSUME Inv, NEW u \in User, Encrypt(u)
  PROVE  Inv'
<1>1. Types /\ Devices /\ UserOnly /\ UNCHANGED pending /\ Becomes(u, Done(dev[u]))
  BY DEF Encrypt, Inv
<1>2. dev[u] \in DeviceRecord /\ now \in Nat /\ InCall(u, dev[u], now, keys)
  BY <1>1, DeviceType DEF Devices
<1>3. /\ Done(dev[u]) \in DeviceRecord /\ InCall(u, Done(dev[u]), now, keys)
      /\ Done(dev[u]).member = dev[u].member /\ Done(dev[u]).keys = dev[u].keys
  BY <1>2, DoneFacts
<1> QED BY <1>1, <1>3, SameTablesInv

\* Another file, or none, and the times of its key are forgotten.
LEMMA FileInv ==
  ASSUME Inv, NEW u \in User, NEW k \in Nat, dev[u].pc = "idle", UserOnly, UNCHANGED pending,
         Becomes(u, [dev[u] EXCEPT !.file = k, !.last = [x \in Direction |-> Never]])
  PROVE  Inv'
<1> DEFINE d == [dev[u] EXCEPT !.file = k, !.last = [x \in Direction |-> Never]]
<1>1. Types /\ Devices
  BY DEF Inv
<1>2. dev[u] \in DeviceRecord /\ now \in Nat /\ InCall(u, dev[u], now, keys)
  BY <1>1, DeviceType DEF Devices
<1>3. d \in DeviceRecord
  BY <1>2 DEF DeviceRecord, Never
<1>4. /\ d.member = dev[u].member /\ d.keys = dev[u].keys /\ d.pc = "idle"
      /\ d.checked = dev[u].checked /\ d.currtime = dev[u].currtime
      /\ d.last = [x \in Direction |-> Never]
  BY <1>2 DEF DeviceRecord
<1> HIDE DEF d
<1>5. "encrypt" \in Direction
  BY DEF Direction
<1>6. InCall(u, d, now, keys)
  BY <1>2, <1>4, <1>5 DEF InCall, Never
<1> QED BY <1>3, <1>4, <1>6, SameTablesInv DEF d

LEMMA secure_initInv ==
  ASSUME Inv, NEW u \in User, NEW k \in Key, secure_init(u, k)
  PROVE  Inv'
<1>1. k \in Nat
  BY KeyUseAssumption
<1> QED BY <1>1, FileInv DEF secure_init, At

LEMMA secure_finitInv ==
  ASSUME Inv, NEW u \in User, secure_finit(u)
  PROVE  Inv'
<1>1. NoKey \in Nat
  BY DEF NoKey
<1> QED BY <1>1, FileInv DEF secure_finit, At

\* A key that is not asked for again was found usable within this second.
LEMMA secure_key_checkInv ==
  ASSUME Inv, NEW u \in User, NEW x \in Direction, secure_key_check(u, x)
  PROVE  Inv'
<1>1. Types /\ Devices /\ dev[u].pc = "idle" /\ UserOnly /\ pending' = pending
  BY DEF secure_key_check, Inv, At
<1> DEFINE D(e) == [e EXCEPT !.pc = IF e.last[x] # Never /\ now - e.last[x] < 1 THEN "usable" ELSE "asking",
                             !.key = e.file, !.direction = x, !.currtime = now]
<1>2. PICK e \in Checked(dev[u]) : Becomes(u, D(e))
  BY DEF secure_key_check
<1> DEFINE d == D(e)
<1>3. /\ e \in DeviceRecord /\ e.checked = now
      /\ e = [dev[u] EXCEPT !.checked = now, !.keys = e.keys]
      /\ OwnRows(e.keys, keys)
      /\ InSync(Executed(Tables(e), u, pending[u]), u, member, keys, now)
  BY CheckedFacts
<1>4. dev[u] \in DeviceRecord /\ pending[u] \in Seq(Statement) /\ InCall(u, dev[u], now, keys)
      /\ now \in Nat \ {0}
  BY <1>1, TablesType DEF Devices, Types
<1>5. e.member = dev[u].member /\ e.last = dev[u].last /\ e.file = dev[u].file
  BY <1>3, <1>4 DEF DeviceRecord
<1>6. d \in DeviceRecord
  <2> DEFINE p == IF e.last[x] # Never /\ now - e.last[x] < 1 THEN "usable" ELSE "asking"
  <2>1. p \in PC
    BY DEF PC
  <2> HIDE DEF p
  <2>2. [e EXCEPT !.pc = p, !.key = e.file, !.direction = x, !.currtime = now] \in DeviceRecord
    BY <1>3, <1>4, <2>1 DEF DeviceRecord
  <2> QED BY <2>2 DEF p
<1>7. /\ d.member = e.member /\ d.keys = e.keys /\ d.checked = now /\ d.currtime = now
      /\ d.last = e.last /\ d.file = e.file /\ d.key = e.file /\ d.direction = x
      /\ d.pc = IF e.last[x] # Never /\ now - e.last[x] < 1 THEN "usable" ELSE "asking"
  BY <1>3 DEF DeviceRecord
<1> HIDE DEF d
<1>8. \A y \in Direction : e.last[y] \in Nat /\ e.last[y] <= now
  BY <1>3, <1>4, <1>5 DEF InCall, DeviceRecord
<1>9. ASSUME d.pc = "usable", x = "encrypt" PROVE Claim(d.key, now, keys)
  <2>1. e.last[x] # Never /\ now - e.last[x] < 1
    BY <1>7, <1>9
  <2>2. e.last["encrypt"] = now
    BY <1>4, <1>8, <1>9, <2>1
  <2> QED BY <1>4, <1>5, <1>7, <1>9, <2>1, <2>2 DEF InCall
<1>10. InCall(u, d, now, keys)
  BY <1>4, <1>5, <1>7, <1>8, <1>9, KeyUseAssumption DEF InCall, Never
<1>11. Tables(d) = Tables(e)
  BY <1>7 DEF Tables
<1>12. pending' = [pending EXCEPT ![u] = pending[u]]
  BY <1>1 DEF Types
<1>13. Becomes(u, d) /\ OwnRows(d.keys, keys)
  BY <1>2, <1>3, <1>7 DEF d
<1> QED BY <1>1, <1>3, <1>4, <1>6, <1>10, <1>11, <1>12, <1>13, UserStepInv

\* A check that fails: it has no time any more.
LEMMA ForgottenFacts ==
  ASSUME NEW u, NEW d \in DeviceRecord, NEW n \in Nat, NEW rows, InCall(u, d, n, rows),
         NEW x \in Direction
  PROVE  LET e == [Done(d) EXCEPT !.last[x] = Never]
         IN  /\ e \in DeviceRecord /\ InCall(u, e, n, rows)
             /\ e.member = d.member /\ e.keys = d.keys
<1> DEFINE o == Done(d)
           e == [o EXCEPT !.last[x] = Never]
<1>1. o \in DeviceRecord /\ InCall(u, o, n, rows) /\ o.member = d.member /\ o.keys = d.keys
      /\ o.pc = "idle" /\ o.checked = Never /\ o.currtime = Never
  BY DoneFacts
<1> HIDE DEF o
<1>2. e \in DeviceRecord
  BY <1>1 DEF DeviceRecord, Never
<1>3. /\ e.member = o.member /\ e.keys = o.keys /\ e.pc = "idle" /\ e.checked = Never
      /\ e.currtime = Never /\ e.file = o.file
      /\ e.last = [o.last EXCEPT ![x] = Never]
  BY <1>1 DEF DeviceRecord
<1> HIDE DEF e
<1>4. o.last \in [Direction -> Nat]
  BY <1>1 DEF DeviceRecord
<1>5. \A y \in Direction : e.last[y] = IF y = x THEN Never ELSE o.last[y]
  BY <1>3, <1>4
<1>6. "encrypt" \in Direction
  BY DEF Direction
<1>7. InCall(u, e, n, rows)
  BY <1>1, <1>3, <1>5, <1>6 DEF InCall, Never
<1> QED BY <1>1, <1>2, <1>3, <1>7 DEF o, e

LEMMA sekey_key_get_infoInv ==
  ASSUME Inv, NEW u \in User, sekey_key_get_info(u)
  PROVE  Inv'
<1>1. Types /\ Devices /\ dev[u].pc = "asking" /\ UserOnly
  BY DEF sekey_key_get_info, Inv, At
<1>2. /\ dev[u] \in DeviceRecord /\ now \in Nat /\ InCall(u, dev[u], now, keys)
      /\ dev[u].direction \in Direction
  BY <1>1, DeviceType DEF Devices
<1> DEFINE t == Future(u)
           e == Updated(dev[u], u)
           d == [e EXCEPT !.pc = "asked"]
<1>3. CASE Becomes(u, d) /\ pending' = [pending EXCEPT ![u] = <<>>]
  <2>1. /\ e = [dev[u] EXCEPT !.member = t.member, !.keys = t.keys,
                              !.told = [member |-> member, active |-> Active(keys)]]
        /\ e \in DeviceRecord /\ OwnRows(t.keys, keys)
        /\ InSync(Executed(t, u, <<>>), u, member, keys, now)
    BY UpdatedInv
  <2>2. t \in TablePair
    BY <1>1, TablesType
  <2> HIDE DEF e, t
  <2>3. d \in DeviceRecord
    BY <2>1 DEF DeviceRecord, PC
  <2>4. /\ e.member = t.member /\ e.keys = t.keys /\ e.checked = dev[u].checked
        /\ e.currtime = dev[u].currtime /\ e.last = dev[u].last /\ e.file = dev[u].file
        /\ e.key = dev[u].key
    BY <1>2, <2>1 DEF DeviceRecord
  <2>5. /\ d.member = t.member /\ d.keys = t.keys /\ d.checked = dev[u].checked
        /\ d.currtime = dev[u].currtime /\ d.last = dev[u].last /\ d.file = dev[u].file
        /\ d.key = dev[u].key /\ d.pc = "asked"
    BY <2>1, <2>4 DEF DeviceRecord
  <2> HIDE DEF d
  <2>6. InCall(u, d, now, keys)
    BY <1>1, <1>2, <2>5 DEF InCall
  <2>7. Tables(d) = t
    BY <2>2, <2>5 DEF Tables, TablePair
  <2>8. <<>> \in Seq(Statement)
    OBVIOUS
  <2> QED BY <1>1, <1>3, <2>1, <2>3, <2>5, <2>6, <2>7, <2>8, UserStepInv
<1>4. CASE Becomes(u, [Done(dev[u]) EXCEPT !.last[dev[u].direction] = Never]) /\ UNCHANGED pending
  <2> DEFINE f == [Done(dev[u]) EXCEPT !.last[dev[u].direction] = Never]
  <2>1. f \in DeviceRecord /\ InCall(u, f, now, keys) /\ f.member = dev[u].member /\ f.keys = dev[u].keys
    BY <1>2, ForgottenFacts
  <2> HIDE DEF f
  <2> QED BY <1>1, <1>4, <2>1, SameTablesInv DEF f
<1> QED BY <1>3, <1>4 DEF sekey_key_get_info

LEMMA KeyStatusInv ==
  ASSUME Inv, NEW u \in User, KeyStatus(u)
  PROVE  Inv'
<1>1. Types /\ Devices /\ dev[u].pc = "asked" /\ UserOnly /\ pending' = pending
  BY DEF KeyStatus, Inv, At
<1> DEFINE Found(e) == [e EXCEPT !.pc = "usable", !.last[e.direction] = e.currtime]
           Not(e) == [Done(e) EXCEPT !.last[e.direction] = Never]
<1>2. PICK e \in Checked(dev[u]) :
        IF e.key \in DOMAIN e.keys /\ e.keys[e.key].status \in Usable(e.direction)
          THEN Becomes(u, Found(e)) ELSE Becomes(u, Not(e))
  BY DEF KeyStatus
<1>3. /\ e \in DeviceRecord /\ e.checked = now
      /\ e = [dev[u] EXCEPT !.checked = now, !.keys = e.keys]
      /\ OwnRows(e.keys, keys)
      /\ \A k \in Active(e.keys) : now + Margin < e.keys[k].expiration
      /\ InSync(Executed(Tables(e), u, pending[u]), u, member, keys, now)
  BY CheckedFacts
<1>4. dev[u] \in DeviceRecord /\ pending[u] \in Seq(Statement) /\ InCall(u, dev[u], now, keys)
      /\ now \in Nat \ {0}
  BY <1>1, TablesType DEF Devices, Types
<1>5. /\ e.member = dev[u].member /\ e.last = dev[u].last /\ e.file = dev[u].file
      /\ e.currtime = dev[u].currtime /\ e.key = dev[u].key /\ e.pc = "asked"
  BY <1>1, <1>3, <1>4 DEF DeviceRecord
<1>6. /\ e.direction \in Direction /\ e.currtime \in Nat /\ e.last \in [Direction -> Nat]
      /\ e.keys \in TableSet
  BY <1>3 DEF DeviceRecord
<1>7. InCall(u, e, now, keys)
  <2>1. /\ dev[u].currtime <= now /\ \A x \in Direction : dev[u].last[x] <= now
        /\ dev[u].key = dev[u].file
        /\ dev[u].last["encrypt"] # Never => Claim(dev[u].file, dev[u].last["encrypt"], keys)
    BY <1>1, <1>4 DEF InCall
  <2>2. e.checked <= now /\ now <= e.checked + Margin
    BY <1>3, <1>4, KeyUseAssumption
  <2> QED BY <1>5, <2>1, <2>2 DEF InCall
<1>8. pending' = [pending EXCEPT ![u] = pending[u]]
  BY <1>1 DEF Types
<1>9. CASE ~(e.key \in DOMAIN e.keys /\ e.keys[e.key].status \in Usable(e.direction))
  <2> DEFINE d == Not(e)
  <2>1. d \in DeviceRecord /\ InCall(u, d, now, keys) /\ d.member = e.member /\ d.keys = e.keys
    BY <1>3, <1>4, <1>6, <1>7, ForgottenFacts
  <2>2. Becomes(u, d)
    BY <1>2, <1>9
  <2> HIDE DEF d
  <2>3. Tables(d) = Tables(e)
    BY <2>1 DEF Tables
  <2> QED BY <1>1, <1>3, <1>4, <1>8, <2>1, <2>2, <2>3, UserStepInv
<1>10. CASE e.key \in DOMAIN e.keys /\ e.keys[e.key].status \in Usable(e.direction)
  <2> DEFINE d == Found(e)
  <2>1. Becomes(u, d)
    BY <1>2, <1>10
  <2>2. d \in DeviceRecord
    BY <1>3, <1>6 DEF DeviceRecord, PC
  <2>3. /\ d.member = e.member /\ d.keys = e.keys /\ d.checked = now /\ d.currtime = e.currtime
        /\ d.file = e.file /\ d.key = e.key /\ d.direction = e.direction /\ d.pc = "usable"
        /\ d.last = [e.last EXCEPT ![e.direction] = e.currtime]
    BY <1>3 DEF DeviceRecord
  <2> HIDE DEF d
  <2>4. \A x \in Direction : d.last[x] = IF x = e.direction THEN e.currtime ELSE e.last[x]
    BY <1>6, <2>3
  <2>5. ASSUME e.direction = "encrypt" PROVE Claim(e.key, now, keys)
    <3>1. e.key \in Active(e.keys)
      BY <1>10, <2>5 DEF Usable, Active
    <3>2. /\ e.key \in DOMAIN keys /\ e.keys[e.key].activation # 0
          /\ e.keys[e.key].activation = keys[e.key].activation
          /\ e.keys[e.key].expiration = keys[e.key].expiration
      BY <1>3, <3>1 DEF OwnRows, Bounded, Active
    <3> QED BY <1>3, <3>1, <3>2 DEF Claim
  <2>6. ASSUME e.direction = "encrypt" PROVE Claim(e.file, e.currtime, keys)
    <3>1. e.file = e.key /\ e.currtime <= now
      BY <1>5, <1>7 DEF InCall
    <3>2. Claim(e.key, now, keys)
      BY <2>5, <2>6
    <3>3. keys[e.key].expiration \in Nat
      BY <1>1, <3>2, RowType DEF Claim
    <3> QED BY <1>4, <1>6, <3>1, <3>2, <3>3, KeyUseAssumption DEF Claim
  <2>7. "encrypt" \in Direction
    BY DEF Direction
  <2>8. d.last["encrypt"] # Never => Claim(d.file, d.last["encrypt"], keys)
    <3>1. CASE e.direction = "encrypt"
      BY <2>3, <2>4, <2>6, <2>7, <3>1
    <3>2. CASE e.direction # "encrypt"
      <4>1. d.last["encrypt"] = e.last["encrypt"]
        BY <2>4, <2>7, <3>2
      <4> QED BY <1>7, <2>3, <4>1 DEF InCall
    <3> QED BY <3>1, <3>2
  <2>9. \A x \in Direction : d.last[x] <= now
    BY <1>7, <2>4 DEF InCall
  <2>10. InCall(u, d, now, keys)
    BY <1>4, <1>7, <2>3, <2>5, <2>8, <2>9, KeyUseAssumption DEF InCall, Never
  <2>11. Tables(d) = Tables(e)
    BY <2>3 DEF Tables
  <2> QED BY <1>1, <1>3, <1>4, <1>8, <2>1, <2>2, <2>3, <2>10, <2>11, UserStepInv
<1> QED BY <1>9, <1>10

LEMMA UserInv ==
  ASSUME Inv, NEW u \in User, UserStep(u)
  PROVE  Inv'
<1>1. ASSUME NEW r \in Request, FindKey(u, r) PROVE Inv'
  BY <1>1, FindKeyInv
<1>2. CASE CheckExpired(u)
  BY <1>2, CheckExpiredInv
<1>3. CASE ChooseKey(u)
  BY <1>3, ChooseKeyInv
<1>4. CASE Encrypt(u)
  BY <1>4, EncryptInv
<1>5. ASSUME NEW k \in Key, secure_init(u, k) PROVE Inv'
  BY <1>5, secure_initInv
<1>6. CASE secure_finit(u)
  BY <1>6, secure_finitInv
<1>7. ASSUME NEW x \in Direction, secure_key_check(u, x) PROVE Inv'
  BY <1>7, secure_key_checkInv
<1>8. CASE sekey_key_get_info(u)
  BY <1>8, sekey_key_get_infoInv
<1>9. CASE KeyStatus(u)
  BY <1>9, KeyStatusInv
<1> QED BY <1>1, <1>2, <1>3, <1>4, <1>5, <1>6, <1>7, <1>8, <1>9 DEF UserStep

-----------------------------------------------------------------------------
(* The clock, the start, and every step.                                   *)

LEMMA TickInv ==
  ASSUME Inv, Tick
  PROVE  Inv'
<1>1. Types /\ Synced /\ Devices
  BY DEF Inv
<1>2. /\ now < Horizon /\ now' = now + 1 /\ policy' = policy /\ member' = member /\ keys' = keys
      /\ pending' = pending /\ dev' = dev /\ calls' = calls
      /\ \A u \in User : dev[u].checked # Never => now < dev[u].checked + Margin
  BY DEF Tick
<1>3. now \in Nat \ {0} /\ keys \in TableSet
  BY <1>1 DEF Types
<1>4. Types'
  BY <1>1, <1>2, <1>3, KeyUseAssumption DEF Types
<1>5. ASSUME NEW u \in User
      PROVE  InSync(Future(u), u, member, keys, now + 1) /\ InCall(u, dev[u], now + 1, keys)
  <2>1. /\ dev[u].checked \in Nat /\ dev[u].currtime \in Nat /\ dev[u].last \in [Direction -> Nat]
    BY <1>1, DeviceType
  <2>2. InSync(Future(u), u, member, keys, now) /\ InCall(u, dev[u], now, keys)
    BY <1>1 DEF Synced, Devices
  <2>3. InSync(Future(u), u, member, keys, now + 1)
    <3>1. now + 1 \in Nat /\ now <= now + 1
      BY <1>3
    <3> QED BY <1>3, <2>2, <3>1, LaterInSync
  <2>4. dev[u].checked # Never => dev[u].checked <= now + 1 /\ now + 1 <= dev[u].checked + Margin
    BY <1>2, <1>3, <2>1, <2>2, KeyUseAssumption DEF InCall
  <2>5. dev[u].currtime <= now + 1 /\ \A x \in Direction : dev[u].last[x] <= now + 1
    BY <1>3, <2>1, <2>2 DEF InCall
  <2> QED BY <2>2, <2>3, <2>4, <2>5 DEF InCall
<1>6. Synced'
  BY <1>2, <1>5 DEF Synced, Future
<1>7. Devices'
  BY <1>1, <1>2, <1>5 DEF Devices
<1> QED BY <1>4, <1>6, <1>7 DEF Inv

LEMMA InitInv ==
  ASSUME Init
  PROVE  Inv
<1>1. PICK s \in Starts :
        /\ policy = s.policy /\ member = s.member /\ keys = s.keys /\ calls = s.calls
        /\ dev = [u \in User |->
             LET G == GroupsOf(s.member, u)
             IN  Device(s.program[u], {m \in s.member : m[2] \in G},
                        Restrict(s.keys, Owned(s.keys, G)))]
  BY DEF Init
<1>2. now = 1 /\ pending = [u \in User |-> <<>>]
  BY DEF Init
<1>3. /\ policy \in [Group -> Nat] /\ member \in SUBSET (User \X Group) /\ Table(keys)
      /\ Bounded(keys) /\ calls \in Nat /\ s.program \in [User -> SUBSET {"messages", "files"}]
  BY <1>1, KeyUseAssumption
<1>4. keys \in TableSet
  BY <1>3, TableFacts
<1> DEFINE G(u) == GroupsOf(member, u)
           m(u) == {p \in member : p[2] \in G(u)}
           rows(u) == Restrict(keys, Owned(keys, G(u)))
<1>5. ASSUME NEW u \in User
      PROVE  dev[u] = Device(s.program[u], m(u), rows(u))
  BY <1>1
<1>6. ASSUME NEW u \in User
      PROVE  /\ rows(u) \in TableSet /\ DOMAIN rows(u) = Owned(keys, G(u))
             /\ \A k \in DOMAIN rows(u) : k \in DOMAIN keys /\ rows(u)[k] = keys[k]
  <2>1. Owned(keys, G(u)) \in SUBSET DOMAIN keys
    BY DEF Owned
  <2> HIDE DEF G
  <2> QED BY <1>4, <2>1, RestrictFacts
<1> HIDE DEF rows, m
<1>7. ASSUME NEW u \in User
      PROVE  /\ dev[u] \in DeviceRecord /\ dev[u].member = m(u) /\ dev[u].keys = rows(u)
             /\ dev[u].pc = "idle" /\ dev[u].checked = Never /\ dev[u].currtime = Never
             /\ \A x \in Direction : dev[u].last[x] = Never
  <2>1. m(u) \in SUBSET (User \X Group)
    BY <1>3 DEF m
  <2>2. NotTold \in [member : SUBSET (User \X Group), active : SUBSET Key]
    BY DEF NotTold
  <2>3. s.program[u] \in SUBSET {"messages", "files"}
    BY <1>3
  <2>4. "idle" \in PC /\ NoKey \in Nat /\ Never \in Nat /\ "encrypt" \in Direction
        /\ NoRequest \in Request \cup {NoRequest}
        /\ [x \in Direction |-> Never] \in [Direction -> Nat]
    BY DEF PC, NoKey, Never, Direction
  <2> DEFINE l == [x \in Direction |-> Never]
  <2> HIDE DEF l
  <2>5. dev[u] = [program |-> s.program[u], member |-> m(u), keys |-> rows(u), pc |-> "idle",
                  request |-> NoRequest, checked |-> Never, key |-> NoKey,
                  direction |-> "encrypt", currtime |-> Never, file |-> NoKey, last |-> l,
                  told |-> NotTold]
    BY <1>5 DEF Device, l
  <2>6. dev[u] \in DeviceRecord
    <3> HIDE DEF NotTold, NoRequest, NoKey, Never
    <3> QED BY <1>6, <2>1, <2>2, <2>3, <2>4, <2>5 DEF DeviceRecord, l
  <2>7. /\ dev[u].member = m(u) /\ dev[u].keys = rows(u) /\ dev[u].pc = "idle"
        /\ dev[u].checked = Never /\ dev[u].currtime = Never /\ dev[u].last = l
    BY <2>5
  <2> QED BY <2>6, <2>7 DEF l
<1>8. Types
  <2>1. dev \in [User -> DeviceRecord]
    BY <1>1, <1>7
  <2>2. pending \in [User -> Seq(Statement)]
    BY <1>2
  <2> QED BY <1>2, <1>3, <1>4, <2>1, <2>2, KeyUseAssumption DEF Types
<1>9. ASSUME NEW u \in User
      PROVE  InSync(Future(u), u, member, keys, now)
  <2>1. Future(u) = Tables(dev[u])
    BY <1>2, ExecutedNone DEF Future
  <2>2. Tables(dev[u]) = [member |-> m(u), keys |-> rows(u)]
    BY <1>7 DEF Tables
  <2>3. InSync([member |-> m(u), keys |-> rows(u)], u, member, keys, now)
    BY <1>6 DEF InSync, Agrees, m
  <2> QED BY <2>1, <2>2, <2>3
<1>10. ASSUME NEW u \in User
       PROVE  OwnRows(dev[u].keys, keys) /\ InCall(u, dev[u], now, keys)
  <2>1. OwnRows(rows(u), keys)
    BY <1>3, <1>6 DEF OwnRows, Bounded
  <2>2. "encrypt" \in Direction
    BY DEF Direction
  <2>3. InCall(u, dev[u], now, keys)
    BY <1>2, <1>7, <2>2 DEF InCall, Never
  <2> QED BY <1>7, <2>1, <2>3
<1> QED BY <1>8, <1>9, <1>10 DEF Inv, Synced, Devices

LEMMA NextInv ==
  ASSUME Inv, [Next]_vars
  PROVE  Inv'
<1>1. CASE Admin
  BY <1>1, AdminInv
<1>2. ASSUME NEW u \in User, UserStep(u) PROVE Inv'
  BY <1>2, UserInv
<1>3. CASE Tick
  BY <1>3, TickInv
<1>4. CASE UNCHANGED vars
  <2>1. /\ now' = now /\ policy' = policy /\ member' = member /\ keys' = keys
        /\ pending' = pending /\ dev' = dev /\ calls' = calls
    BY <1>4 DEF vars
  <2>2. Types'
    BY <2>1 DEF Inv, Types
  <2>3. Synced'
    BY <2>1 DEF Inv, Synced, Future
  <2>4. Devices'
    BY <2>1 DEF Inv, Devices
  <2> QED BY <2>2, <2>3, <2>4 DEF Inv
<1> QED BY <1>1, <1>2, <1>3, <1>4 DEF Next

\* Whatever the administrator commits, in whatever order the users execute it and
\* their clocks deactivate keys meanwhile, a device that has executed everything is
\* in step with the administrator: this is the invariant, for any users, groups
\* and keys.
THEOREM InvAlways == Spec => []Inv
BY InitInv, NextInv, PTL DEF Spec

-----------------------------------------------------------------------------
(* What follows.                                                           *)

\* TypeOK: rows, devices and clocks have their types, and in every table, the
\* administrator's and each device's, a key that may be used has an expiration time.
THEOREM TypeOKAlways == Spec => []TypeOK
<1>1. Inv => TypeOK
  <2> SUFFICES ASSUME Inv PROVE TypeOK
    OBVIOUS
  <2>1. Types /\ Devices
    BY DEF Inv
  <2>2. now \in 1..Horizon /\ calls \in Nat /\ member \subseteq User \X Group
    BY <2>1, KeyUseAssumption DEF Types
  <2>3. Table(keys) /\ Bounded(keys)
    BY <2>1, TableFacts DEF Types
  <2>4. ASSUME NEW u \in User
        PROVE  /\ Table(dev[u].keys) /\ Bounded(dev[u].keys)
               /\ dev[u].pc \in {"idle", "updated", "checked", "found", "asking", "asked", "usable"}
               /\ dev[u].checked \in 0..now
               /\ \A d \in Direction : dev[u].last[d] \in 0..now
    <3>1. /\ dev[u].pc \in PC /\ dev[u].checked \in Nat /\ dev[u].last \in [Direction -> Nat]
          /\ dev[u].keys \in TableSet /\ now \in Nat
      BY <2>1, DeviceType
    <3>2. OwnRows(dev[u].keys, keys) /\ InCall(u, dev[u], now, keys)
      BY <2>1 DEF Devices
    <3>3. dev[u].checked \in 0..now
      BY <3>1, <3>2 DEF InCall, Never
    <3>4. \A d \in Direction : dev[u].last[d] \in 0..now
      BY <3>1, <3>2 DEF InCall
    <3> QED BY <3>1, <3>2, <3>3, <3>4, TableFacts DEF OwnRows, PC
  <2> QED BY <2>2, <2>3, <2>4 DEF TypeOK
<1> QED BY <1>1, InvAlways, PTL

\* FoundFresh: the key that sekey_find_key returns was active for the administrator
\* when the call asked for updates, and is the key of a group everybody concerned
\* was in.
THEOREM FoundFreshAlways == Spec => []FoundFresh
<1>1. Inv => FoundFresh
  BY DEF Inv, Devices, InCall, FoundFresh
<1> QED BY <1>1, InvAlways, PTL

\* InTime: what is encrypted, a message or a sector of a file, is with a key that
\* has not expired, for any margin and any lag up to it.
THEOREM InTimeAlways == Spec => []InTime
<1>1. Inv => InTime
  <2> SUFFICES ASSUME Inv, NEW u \in User, dev[u].pc \in {"found", "usable"},
                      dev[u].direction = "encrypt"
               PROVE  dev[u].key \in DOMAIN keys /\ now < keys[dev[u].key].expiration
    BY DEF InTime
  <2>1. Types /\ Devices
    BY DEF Inv
  <2>2. OwnRows(dev[u].keys, keys) /\ InCall(u, dev[u], now, keys)
    BY <2>1 DEF Devices
  <2>3. dev[u].checked \in Nat /\ now \in Nat
    BY <2>1, DeviceType
  <2>4. Claim(dev[u].key, dev[u].checked, keys) /\ dev[u].checked # Never
    <3>1. CASE dev[u].pc = "found"
      <4>1. dev[u].key \in Active(dev[u].keys) /\ dev[u].checked # Never
            /\ dev[u].checked + Margin < dev[u].keys[dev[u].key].expiration
        BY <2>2, <3>1 DEF InCall
      <4>2. /\ dev[u].key \in DOMAIN keys /\ dev[u].keys[dev[u].key].activation # 0
            /\ dev[u].keys[dev[u].key].activation = keys[dev[u].key].activation
            /\ dev[u].keys[dev[u].key].expiration = keys[dev[u].key].expiration
        BY <2>2, <4>1 DEF OwnRows, Bounded, Active
      <4> QED BY <4>1, <4>2 DEF Claim
    <3>2. CASE dev[u].pc = "usable"
      BY <2>2, <3>2 DEF InCall
    <3> QED BY <3>1, <3>2
  <2>5. keys[dev[u].key].expiration \in Nat
    BY <2>1, <2>4, RowType DEF Claim
  <2>6. now <= dev[u].checked + Margin
    BY <2>2, <2>4 DEF InCall
  <2> QED BY <2>3, <2>4, <2>5, <2>6, KeyUseAssumption DEF Claim
<1> QED BY <1>1, InvAlways, PTL

\* What a device that has everything and has just checked knows: the active keys of
\* its groups that last for more than Margin seconds, and who is in its groups.
LEMMA CurrentFacts ==
  ASSUME Inv, NEW u \in User, Current(u)
  PROVE  /\ dev[u].member = {p \in member : p[2] \in GroupsOf(member, u)}
         /\ \A k : k \in Active(dev[u].keys) <=>
                     /\ k \in Active(keys) /\ keys[k].owner \in GroupsOf(member, u)
                     /\ now + Margin < keys[k].expiration
         /\ \A k \in Active(dev[u].keys) :
              /\ dev[u].keys[k].owner = keys[k].owner
              /\ Span(dev[u].keys[k]) = Span(keys[k]) /\ Span(keys[k]) \in Nat
<1>1. Types /\ Synced /\ Devices /\ dev[u].pc = "checked" /\ pending[u] = <<>> /\ dev[u].checked = now
  BY DEF Inv, Current, At
<1>2. InSync(Tables(dev[u]), u, member, keys, now)
  BY <1>1, ExecutedNone DEF Synced, Future
<1>3. /\ dev[u].member = {p \in member : p[2] \in GroupsOf(member, u)}
      /\ DOMAIN dev[u].keys = Owned(keys, GroupsOf(member, u))
      /\ \A k \in DOMAIN dev[u].keys : Agrees(dev[u].keys[k], keys[k], now)
  BY <1>2 DEF InSync, Tables
<1>4. \A k \in Active(dev[u].keys) : now + Margin < dev[u].keys[k].expiration
  BY <1>1 DEF Devices, InCall
<1>5. now \in Nat
  BY <1>1 DEF Types
<1>6. ASSUME NEW k
      PROVE  k \in Active(dev[u].keys) <=>
               /\ k \in Active(keys) /\ keys[k].owner \in GroupsOf(member, u)
               /\ now + Margin < keys[k].expiration
  <2>1. CASE k \in Active(dev[u].keys)
    <3>1. k \in DOMAIN dev[u].keys /\ dev[u].keys[k].status = "active"
      BY <2>1 DEF Active
    <3>2. k \in DOMAIN keys /\ keys[k].owner \in GroupsOf(member, u) /\ Agrees(dev[u].keys[k], keys[k], now)
      BY <1>3, <3>1 DEF Owned
    <3> QED BY <1>4, <2>1, <3>1, <3>2 DEF Active, Agrees
  <2>2. ASSUME k \in Active(keys), keys[k].owner \in GroupsOf(member, u),
               now + Margin < keys[k].expiration
        PROVE  k \in Active(dev[u].keys)
    <3>1. k \in DOMAIN dev[u].keys /\ Agrees(dev[u].keys[k], keys[k], now)
      BY <1>3, <2>2 DEF Owned, Active
    <3>2. keys[k].expiration \in Nat
      BY <1>1, <2>2, RowType DEF Active
    <3>3. ~(keys[k].expiration <= now + Margin)
      BY <1>5, <2>2, <3>2, KeyUseAssumption
    <3> QED BY <2>2, <3>1, <3>3 DEF Active, Agrees
  <2> QED BY <2>1, <2>2
<1>7. ASSUME NEW k \in Active(dev[u].keys)
      PROVE  /\ dev[u].keys[k].owner = keys[k].owner
             /\ Span(dev[u].keys[k]) = Span(keys[k]) /\ Span(keys[k]) \in Nat
  <2>1. Agrees(dev[u].keys[k], keys[k], now)
    BY <1>3 DEF Active
  <2>2. k \in DOMAIN keys /\ keys[k].status = "active"
    BY <1>6 DEF Active
  <2>3. /\ keys[k].activation \in Nat /\ keys[k].expiration \in Nat
        /\ keys[k].activation < keys[k].expiration
    BY <1>1, <2>2, RowType
  <2> QED BY <2>1, <2>3 DEF Agrees, Span
<1> QED BY <1>3, <1>6, <1>7

\* Among some groups one has the fewest members.
LEMMA SmallestExists ==
  ASSUME NEW d, NEW G \in SUBSET Group, G # {}
  PROVE  Smallest(d, G) # {}
<1> DEFINE size(g) == Cardinality(MembersOf(d.member, g))
           T == {size(g) : g \in G}
<1>1. \A g \in G : size(g) \in Nat
  <2> TAKE g \in G
  <2>1. MembersOf(d.member, g) \subseteq User
    BY DEF MembersOf
  <2>2. IsFiniteSet(MembersOf(d.member, g))
    BY <2>1, FS_Subset, KeyUseAssumption
  <2> QED BY <2>2, FS_CardinalityType
<1> HIDE DEF size
<1>2. PICK n \in T : \A m \in T : n <= m
  <2>1. T \in SUBSET Nat /\ T # {}
    BY <1>1
  <2> HIDE DEF T
  <2> QED BY <2>1, LeastNumber
<1>3. PICK g \in G : n = size(g)
  BY <1>2
<1>4. \A h \in G : size(g) <= size(h)
  BY <1>2, <1>3
<1>5. g \in Smallest(d, G)
  BY <1>4 DEF Smallest, size
<1> QED BY <1>5

\* Among some keys that will have been used for some time, there is one that no
\* other is safer than.
LEMMA SafestExists ==
  ASSUME NEW rows, NEW S \in SUBSET Nat, S # {}, \A k \in S : Span(rows[k]) \in Nat
  PROVE  \E k \in S : \A c \in S : ~safer(rows, c, k)
<1> DEFINE span(k) == Span(rows[k])
           T == {span(k) : k \in S}
<1>1. \A k \in S : span(k) \in Nat
  OBVIOUS
<1> HIDE DEF span
<1>2. PICK n \in T : \A m \in T : n <= m
  <2>1. T \in SUBSET Nat /\ T # {}
    BY <1>1
  <2> HIDE DEF T
  <2> QED BY <2>1, LeastNumber
<1> DEFINE F == {k \in S : span(k) = n}
<1>3. PICK k \in F : \A c \in F : k <= c
  <2>1. F \in SUBSET Nat /\ F # {}
    BY <1>2
  <2> HIDE DEF F
  <2> QED BY <2>1, LeastNumber
<1>4. k \in S /\ span(k) = n
  BY <1>3
<1>5. ASSUME NEW c \in S PROVE ~safer(rows, c, k)
  <2>1. span(k) <= span(c) /\ span(c) \in Nat /\ span(k) \in Nat /\ c \in Nat /\ k \in Nat
    BY <1>1, <1>2, <1>4
  <2>2. span(c) = span(k) => k <= c
    BY <1>3, <1>4
  <2> QED BY <2>1, <2>2 DEF safer, span
<1> QED BY <1>4, <1>5

LEMMA ChosenExists ==
  ASSUME Inv, NEW u \in User, Current(u), NEW r,
         Owned(dev[u].keys, SelectedGroups(dev[u], u, r)) \cap Active(dev[u].keys) # {}
  PROVE  Chosen(dev[u], u, r) # {}
<1> DEFINE S == Owned(dev[u].keys, SelectedGroups(dev[u], u, r)) \cap Active(dev[u].keys)
<1>1. dev[u].keys \in TableSet
  BY DeviceType DEF Inv
<1>2. S \in SUBSET Nat
  BY <1>1, TableFacts, KeyUseAssumption DEF Table, Active
<1>3. \A k \in S : Span(dev[u].keys[k]) \in Nat
  BY CurrentFacts
<1> HIDE DEF S
<1>4. PICK k \in S : \A c \in S : ~safer(dev[u].keys, c, k)
  BY <1>2, <1>3, SafestExists DEF S
<1>5. k \in Chosen(dev[u], u, r)
  BY <1>4 DEF Chosen, S
<1> QED BY <1>5

\* Available: an up to date user finds a key whenever there is one, for any groups,
\* keys and statuses.
THEOREM AvailableAlways == Spec => []Available
<1>1. Inv => Available
  <2> SUFFICES ASSUME Inv, NEW u \in User, Current(u), NEW k \in Active(keys),
                      keys[k].expiration > now + Margin,
                      \A v \in {u} \cup dev[u].request.users : <<v, keys[k].owner>> \in member,
                      dev[u].request.groups \subseteq {keys[k].owner}
               PROVE  Chosen(dev[u], u, dev[u].request) # {}
    BY DEF Available
  <2> DEFINE r == dev[u].request
             g == keys[k].owner
             d == dev[u]
  <2>1. Types
    BY DEF Inv
  <2>2. keys[k].expiration \in Nat /\ now \in Nat /\ g \in Group
    BY <2>1, RowType DEF Active, Types
  <2>3. g \in GroupsOf(member, u)
    BY <2>2 DEF GroupsOf
  <2>4. now + Margin < keys[k].expiration
    BY <2>2, KeyUseAssumption
  <2>5. k \in Active(d.keys) /\ d.keys[k].owner = g
    BY <2>3, <2>4, CurrentFacts
  <2>6. d.member = {p \in member : p[2] \in GroupsOf(member, u)}
    BY CurrentFacts
  <2>7. \A v \in {u} \cup r.users : <<v, g>> \in d.member
    BY <2>3, <2>6
  <2>8. g \in GroupsOf(d.member, u)
    BY <2>2, <2>7 DEF GroupsOf
  <2> HIDE DEF g, d, r
  <2>9. Owned(d.keys, SelectedGroups(d, u, r)) \cap Active(d.keys) # {}
    <3>1. CASE r.groups # {}
      <4>1. r.groups = {g}
        BY <3>1 DEF r, g
      <4>2. g \in SelectedGroups(d, u, r)
        BY <2>8, <4>1 DEF SelectedGroups
      <4>3. k \in Owned(d.keys, SelectedGroups(d, u, r))
        BY <2>5, <4>2 DEF Owned, Active
      <4> QED BY <2>5, <4>3
    <3>2. CASE r.groups = {}
      <4> DEFINE C == CommonGroups(d, u, r.users)
      <4>1. k \in Owned(d.keys, {g}) \cap Active(d.keys)
        BY <2>5 DEF Owned, Active
      <4>2. g \in C
        BY <2>7, <2>8, <4>1 DEF CommonGroups
      <4>3. C \in SUBSET Group
        BY DEF CommonGroups, GroupsOf
      <4>4. \A h \in C : Owned(d.keys, {h}) \cap Active(d.keys) # {}
        BY DEF CommonGroups
      <4> HIDE DEF C
      <4>5. PICK h : h \in Smallest(d, C)
        BY <4>2, <4>3, SmallestExists
      <4>6. h \in C
        BY <4>5 DEF Smallest
      <4>7. h \in SelectedGroups(d, u, r)
        BY <3>2, <4>5 DEF SelectedGroups, C
      <4>8. PICK c : c \in Owned(d.keys, {h}) \cap Active(d.keys)
        BY <4>4, <4>6
      <4>9. c \in Owned(d.keys, SelectedGroups(d, u, r))
        BY <4>7, <4>8 DEF Owned
      <4> QED BY <4>8, <4>9
    <3> QED BY <3>1, <3>2
  <2> QED BY <2>9, ChosenExists DEF d, r
<1> QED BY <1>1, InvAlways, PTL

\* What two up to date users see of a key or a group that they share is the same.
LEMMA SharedFacts ==
  ASSUME Inv, NEW u \in User, NEW v \in User, Current(u), Current(v)
  PROVE  /\ CommonGroups(dev[u], u, {v}) = CommonGroups(dev[v], v, {u})
         /\ \A g \in CommonGroups(dev[u], u, {v}) :
              /\ MembersOf(dev[u].member, g) = MembersOf(dev[v].member, g)
              /\ Owned(dev[u].keys, {g}) \cap Active(dev[u].keys)
                   = Owned(dev[v].keys, {g}) \cap Active(dev[v].keys)
<1> DEFINE both == {g \in Group : <<u, g>> \in member /\ <<v, g>> \in member}
           its(w, g) == Owned(dev[w].keys, {g}) \cap Active(dev[w].keys)
           long(g) == {k \in Active(keys) : keys[k].owner = g /\ now + Margin < keys[k].expiration}
<1>1. ASSUME NEW w \in {u, v}, NEW g \in both
      PROVE  its(w, g) = long(g) /\ MembersOf(dev[w].member, g) = MembersOf(member, g)
  <2>1. g \in GroupsOf(member, w) /\ Current(w) /\ w \in User
    BY <1>1 DEF GroupsOf
  <2>2. /\ dev[w].member = {p \in member : p[2] \in GroupsOf(member, w)}
        /\ \A k : k \in Active(dev[w].keys) <=>
                    /\ k \in Active(keys) /\ keys[k].owner \in GroupsOf(member, w)
                    /\ now + Margin < keys[k].expiration
        /\ \A k \in Active(dev[w].keys) : dev[w].keys[k].owner = keys[k].owner
    BY <2>1, CurrentFacts
  <2>3. its(w, g) = long(g)
    BY <2>1, <2>2 DEF Owned, Active
  <2>4. MembersOf(dev[w].member, g) = MembersOf(member, g)
    BY <2>1, <2>2 DEF MembersOf
  <2> QED BY <2>3, <2>4
<1>2. ASSUME NEW w \in {u, v}
      PROVE  \A x \in {u, v} : \A g : <<x, g>> \in dev[w].member <=>
                                        <<x, g>> \in member /\ g \in GroupsOf(member, w)
  BY CurrentFacts
<1>3. CommonGroups(dev[u], u, {v}) = {g \in both : its(u, g) # {}}
  BY <1>2 DEF CommonGroups, GroupsOf
<1>4. CommonGroups(dev[v], v, {u}) = {g \in both : its(v, g) # {}}
  BY <1>2 DEF CommonGroups, GroupsOf
<1> HIDE DEF both, long
<1>5. \A g \in both : /\ its(u, g) = its(v, g)
                      /\ MembersOf(dev[u].member, g) = MembersOf(dev[v].member, g)
  BY <1>1
<1> HIDE DEF its
<1> QED BY <1>3, <1>4, <1>5 DEF its

\* Agree: two up to date users choose the same key for each other, and there is one
\* choice at most, whatever order their tables are in.
THEOREM AgreeAlways == Spec => []Agree
<1>1. Inv => Agree
  <2> SUFFICES ASSUME Inv, NEW u \in User, NEW v \in User, Current(u), Current(v)
               PROVE  LET mine == Chosen(dev[u], u, [users |-> {v}, groups |-> {}])
                      IN  /\ mine = Chosen(dev[v], v, [users |-> {u}, groups |-> {}])
                          /\ Cardinality(mine) <= 1
    BY DEF Agree
  <2> DEFINE ru == [users |-> {v}, groups |-> {}]
             rv == [users |-> {u}, groups |-> {}]
             C == CommonGroups(dev[u], u, {v})
             su == Owned(dev[u].keys, SelectedGroups(dev[u], u, ru)) \cap Active(dev[u].keys)
             sv == Owned(dev[v].keys, SelectedGroups(dev[v], v, rv)) \cap Active(dev[v].keys)
             mine == Chosen(dev[u], u, ru)
             its == Chosen(dev[v], v, rv)
  <2>1. /\ C = CommonGroups(dev[v], v, {u})
        /\ \A g \in C : /\ MembersOf(dev[u].member, g) = MembersOf(dev[v].member, g)
                        /\ Owned(dev[u].keys, {g}) \cap Active(dev[u].keys)
                             = Owned(dev[v].keys, {g}) \cap Active(dev[v].keys)
    BY SharedFacts
  <2>2. SelectedGroups(dev[u], u, ru) = Smallest(dev[u], C)
    BY DEF SelectedGroups
  <2>3. SelectedGroups(dev[v], v, rv) = Smallest(dev[v], C)
    BY <2>1 DEF SelectedGroups
  <2> HIDE DEF C, ru, rv
  <2>4. Smallest(dev[u], C) = Smallest(dev[v], C) /\ Smallest(dev[u], C) \subseteq C
    BY <2>1 DEF Smallest
  <2>5. su = sv
    <3>1. \A k : k \in su <=> \E g \in Smallest(dev[u], C) : k \in Owned(dev[u].keys, {g}) \cap Active(dev[u].keys)
      BY <2>2 DEF Owned
    <3>2. \A k : k \in sv <=> \E g \in Smallest(dev[v], C) : k \in Owned(dev[v].keys, {g}) \cap Active(dev[v].keys)
      BY <2>3 DEF Owned
    <3> HIDE DEF su, sv
    <3>3. \A k : k \in su <=> k \in sv
      BY <2>1, <2>4, <3>1, <3>2
    <3> QED BY <3>3
  <2>6. \A k \in su : /\ Span(dev[u].keys[k]) = Span(dev[v].keys[k])
                      /\ Span(dev[u].keys[k]) \in Nat /\ k \in Nat
    <3>1. \A k \in su : /\ Span(dev[u].keys[k]) = Span(keys[k]) /\ Span(keys[k]) \in Nat
      BY CurrentFacts
    <3>2. \A k \in su : Span(dev[v].keys[k]) = Span(keys[k])
      BY <2>5, CurrentFacts
    <3>3. dev[u].keys \in TableSet
      BY DeviceType DEF Inv
    <3>4. \A k \in su : k \in Nat
      BY <3>3, TableFacts, KeyUseAssumption DEF Table, Active
    <3> QED BY <3>1, <3>2, <3>4
  <2>7. mine = {k \in su : \A c \in su : ~safer(dev[u].keys, c, k)}
    BY DEF Chosen
  <2>8. its = {k \in sv : \A c \in sv : ~safer(dev[v].keys, c, k)}
    BY DEF Chosen
  <2> HIDE DEF su, sv, mine, its
  <2>9. \A k, c \in su : safer(dev[u].keys, c, k) <=> safer(dev[v].keys, c, k)
    BY <2>6 DEF safer
  <2>10. mine = its
    BY <2>5, <2>7, <2>8, <2>9
  <2>11. Cardinality(mine) <= 1
    <3>1. \A k, c \in su : safer(dev[u].keys, c, k) \/ safer(dev[u].keys, k, c) \/ k = c
      BY <2>6 DEF safer
    <3>2. \A k, c \in mine : k = c
      BY <2>7, <3>1
    <3>3. CASE mine = {}
      BY <3>3, FS_EmptySet
    <3>4. CASE mine # {}
      <4>1. PICK k : mine = {k}
        BY <3>2, <3>4
      <4>2. Cardinality({k}) = 1
        BY FS_Singleton
      <4> QED BY <4>1, <4>2
    <3> QED BY <3>3, <3>4
  <2> QED BY <2>10, <2>11 DEF mine, its, ru, rv
<1> QED BY <1>1, InvAlways, PTL
=============================================================================
