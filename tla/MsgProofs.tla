----------------------------- MODULE MsgProofs -----------------------------
(***************************************************************************)
(* Proof that the reference counts of Msg are right for any number of      *)
(* messages, contents and engines.                                         *)
(***************************************************************************)
EXTENDS Msg, FiniteSetTheorems, TLAPS

(* What handle d adds to the count of v.                                   *)
Has(f, d, v) == IF f[d] = v THEN 1 ELSE 0

(* The handles with a given value are counted by a natural number.         *)
LEMMA CountType ==
    ASSUME NEW f, NEW v
    PROVE  /\ IsFiniteSet({h \in Handles : f[h] = v})
           /\ Count(f, v) \in Nat
  <1>1. {h \in Handles : f[h] = v} \subseteq Handles
    OBVIOUS
  <1>2. IsFiniteSet({h \in Handles : f[h] = v})
    BY <1>1, MsgAssumption, FS_Subset
  <1> QED
    BY <1>2, FS_CardinalityType DEF Count

(* How a count changes when one handle gets a new value.                   *)
LEMMA CountUpdate ==
    ASSUME NEW f, NEW g, NEW d \in Handles, NEW v,
           \A h \in Handles \ {d} : g[h] = f[h]
    PROVE  Count(g, v) = Count(f, v) - Has(f, d, v) + Has(g, d, v)
  <1> DEFINE S == {h \in Handles : f[h] = v}
             T == {h \in Handles : g[h] = v}
             R == S \ {d}
  <1>1. IsFiniteSet(S) /\ Cardinality(S) \in Nat
    BY CountType DEF Count
  <1>2. /\ IsFiniteSet(R)
        /\ Cardinality(R) = IF d \in S THEN Cardinality(S) - 1 ELSE Cardinality(S)
    BY <1>1, FS_RemoveElement
  <1>3. CASE g[d] = v
    <2>1. T = R \cup {d}
      BY <1>3
    <2>2. Cardinality(T) = Cardinality(R) + 1
      BY <2>1, <1>2, FS_AddElement
    <2> QED
      BY <1>1, <1>2, <1>3, <2>2 DEF Count, Has
  <1>4. CASE g[d] # v
    <2>1. T = R
      BY <1>4
    <2>2. Cardinality(T) = Cardinality(R)
      BY <2>1
    <2> QED
      BY <1>1, <1>2, <1>4, <2>2 DEF Count, Has
  <1> QED
    BY <1>3, <1>4

(* No handle has a value that is counted zero times.                       *)
LEMMA CountPositive ==
    ASSUME NEW f, NEW h \in Handles, NEW v, f[h] = v
    PROVE  Count(f, v) > 0
  <1> DEFINE S == {g \in Handles : f[g] = v}
  <1>1. IsFiniteSet(S) /\ Cardinality(S) \in Nat
    BY CountType DEF Count
  <1>2. Cardinality(S) # 0
    BY <1>1, FS_EmptySet
  <1> QED
    BY <1>1, <1>2 DEF Count

(* A value of two handles is counted more than once.                       *)
LEMMA CountOne ==
    ASSUME NEW f, NEW h \in Handles, NEW g \in Handles, NEW v,
           f[h] = v, f[g] = v, h # g
    PROVE  Count(f, v) > 1
  <1> DEFINE S == {x \in Handles : f[x] = v}
  <1>1. IsFiniteSet(S) /\ Cardinality(S) \in Nat
    BY CountType DEF Count
  <1>2. IsFiniteSet(S \ {h}) /\ Cardinality(S \ {h}) = Cardinality(S) - 1
    BY <1>1, FS_RemoveElement
  <1>3. S \ {h} # {}
    OBVIOUS
  <1>4. Cardinality(S \ {h}) \in Nat /\ Cardinality(S \ {h}) # 0
    BY <1>2, <1>3, FS_EmptySet, FS_CardinalityType
  <1> QED
    BY <1>1, <1>2, <1>4 DEF Count

(* A value that no handle has is counted zero times.                       *)
LEMMA CountZero ==
    ASSUME NEW f, NEW v, \A h \in Handles : f[h] # v
    PROVE  Count(f, v) = 0
  <1>1. {h \in Handles : f[h] = v} = {}
    OBVIOUS
  <1> QED
    BY <1>1, FS_EmptySet DEF Count

(* The types of what Good speaks about.                                    *)
Typed(f, sh, r, l, k, ks, o) ==
    /\ f \in [Handles -> Contents \cup {Nil}]
    /\ sh \in [Handles -> BOOLEAN]
    /\ r \in [Contents -> Int]
    /\ l \in SUBSET Contents
    /\ k \in Contents \cup {Nil}
    /\ ks \in BOOLEAN
    /\ o \in Nat

(* Content whose users are all shared is good when the counter is right.   *)
LEMMA GoodAtShared ==
    ASSUME NEW f2, NEW sh2, NEW r2, NEW k2, NEW ks2, NEW o2, NEW c,
           Uses(f2, k2, o2, c) > 0,
           r2[c] = Uses(f2, k2, o2, c),
           \A g \in Handles : f2[g] = c => sh2[g],
           k2 = c /\ o2 > 0 => ks2
    PROVE  GoodAt(f2, sh2, r2, k2, ks2, o2, c)
  BY DEF GoodAt, Counts

(* How the uses of content change with the value of one handle.            *)
LEMMA UsesUpdate ==
    ASSUME NEW f, NEW g, NEW d \in Handles, NEW k, NEW o \in Nat, NEW c,
           \A h \in Handles \ {d} : g[h] = f[h]
    PROVE  /\ Uses(f, k, o, c) \in Nat
           /\ Uses(g, k, o, c) = Uses(f, k, o, c) - Has(f, d, c) + Has(g, d, c)
  <1>1. Count(g, c) = Count(f, c) - Has(f, d, c) + Has(g, d, c)
    BY CountUpdate
  <1>2. Count(f, c) \in Nat
    BY CountType
  <1>3. Has(f, d, c) \in Int /\ Has(g, d, c) \in Int
    BY DEF Has
  <1> QED
    BY <1>1, <1>2, <1>3 DEF Uses

(* Nobody but h uses the content of h.                                     *)
Only(f, k, o, h) ==
    /\ \A g \in Handles \ {h} : f[g] # f[h]
    /\ k = f[h] => o = 0

(* The last user of content is its only one.                               *)
LEMMA OnlyUser ==
    ASSUME NEW f, NEW k, NEW o \in Nat, NEW h \in Handles,
           Uses(f, k, o, f[h]) = 1
    PROVE  Only(f, k, o, h)
  <1> DEFINE c == f[h]
  <1>1. Count(f, c) > 0 /\ Count(f, c) \in Nat
    BY CountPositive, CountType
  <1>2. Count(f, c) = 1 /\ (k = c => o = 0)
    BY <1>1 DEF Uses
  <1>3. ASSUME NEW g \in Handles \ {h}, f[g] = c PROVE FALSE
    <2>1. Count(f, c) > 1
      BY <1>3, CountOne
    <2> QED
      BY <1>2, <2>1
  <1> QED
    BY <1>2, <1>3 DEF Only

(* What is shared by several is shared by all.                             *)
LEMMA AllShared ==
    ASSUME NEW f, NEW sh, NEW r, NEW k, NEW ks, NEW o, NEW c,
           GoodAt(f, sh, r, k, ks, o, c), Uses(f, k, o, c) # 1
    PROVE  /\ \A g \in Handles : f[g] = c => sh[g] /\ r[c] = Uses(f, k, o, c)
           /\ k = c /\ o > 0 => ks /\ r[c] = Uses(f, k, o, c)
  BY DEF GoodAt, Counts

(* Handle h gives up its content, as close does.                           *)
LEMMA GoodDrop ==
    ASSUME NEW f, NEW sh, NEW r, NEW l, NEW k, NEW ks, NEW o,
           Typed(f, sh, r, l, k, ks, o), Good(f, sh, r, l, k, ks, o),
           NEW h \in Handles
    PROVE  Good([f EXCEPT ![h] = Nil], [sh EXCEPT ![h] = FALSE],
                IF f[h] # Nil /\ sh[h] THEN [r EXCEPT ![f[h]] = @ - 1] ELSE r,
                IF f[h] # Nil /\ (~sh[h] \/ r[f[h]] = 1) THEN l \ {f[h]} ELSE l,
                k, ks, o)
  <1> DEFINE f2 == [f EXCEPT ![h] = Nil]
             sh2 == [sh EXCEPT ![h] = FALSE]
             r2 == IF f[h] # Nil /\ sh[h] THEN [r EXCEPT ![f[h]] = @ - 1] ELSE r
             l2 == IF f[h] # Nil /\ (~sh[h] \/ r[f[h]] = 1) THEN l \ {f[h]} ELSE l
  <1>1. /\ \A g \in Handles \ {h} : f2[g] = f[g] /\ sh2[g] = sh[g]
        /\ f2[h] = Nil
    BY DEF Typed
  <1>2. \A x \in l2 : x \in l /\ x \in Contents /\ x # Nil
    BY MsgAssumption DEF Typed
  <1>3. \A x \in Contents : x # f[h] => r2[x] = r[x]
    BY DEF Typed
  <1>4. f[h] # Nil => /\ f[h] \in l /\ f[h] \in Contents
                      /\ l2 = IF ~sh[h] \/ r[f[h]] = 1 THEN l \ {f[h]} ELSE l
                      /\ sh[h] => r2[f[h]] = r[f[h]] - 1
    BY DEF Typed, Good
  <1>5. f[h] = Nil => l2 = l
    OBVIOUS
  <1>6. r \in [Contents -> Int] /\ o \in Nat /\ sh[h] \in BOOLEAN
    BY DEF Typed
  <1>11. f[h] # Nil /\ (~sh[h] \/ r[f[h]] = 1) => l2 = l \ {f[h]}
    BY Zenon
  <1> HIDE DEF f2, sh2, r2, l2
  <1>7. ASSUME NEW x \in l2, f[h] # x PROVE GoodAt(f2, sh2, r2, k, ks, o, x)
    <2>1. Uses(f2, k, o, x) = Uses(f, k, o, x) - Has(f, h, x) + Has(f2, h, x)
          /\ Uses(f, k, o, x) \in Nat
      BY <1>1, <1>6, UsesUpdate
    <2>2. Uses(f2, k, o, x) = Uses(f, k, o, x)
      BY <1>1, <1>2, <1>7, <2>1 DEF Has
    <2>3. GoodAt(f, sh, r, k, ks, o, x)
      BY <1>2 DEF Good
    <2>4. r2[x] = r[x]
      BY <1>2, <1>3, <1>7
    <2>5. \A g \in Handles : f2[g] = x => f[g] = x /\ sh2[g] = sh[g]
      BY <1>1, <1>2
    <2> QED
      BY <2>2, <2>3, <2>4, <2>5 DEF GoodAt
  <1>8. ASSUME NEW x \in l2, f[h] = x PROVE GoodAt(f2, sh2, r2, k, ks, o, x)
    <2>1. f[h] # Nil /\ sh[h] /\ r[x] # 1 /\ x \in l /\ r2[x] = r[x] - 1
      BY <1>2, <1>4, <1>8
    <2>2. GoodAt(f, sh, r, k, ks, o, x)
      BY <1>2 DEF Good
    <2>3. r[x] = Uses(f, k, o, x) /\ Uses(f, k, o, x) > 0
      BY <1>8, <2>1, <2>2 DEF GoodAt, Counts
    <2>4. Uses(f2, k, o, x) = Uses(f, k, o, x) - Has(f, h, x) + Has(f2, h, x)
          /\ Uses(f, k, o, x) \in Nat
      BY <1>1, <1>6, UsesUpdate
    <2>5. Uses(f2, k, o, x) = Uses(f, k, o, x) - 1
      BY <1>1, <1>8, <2>1, <2>4 DEF Has
    <2>6. /\ \A g \in Handles : f[g] = x => sh[g]
          /\ k = x /\ o > 0 => ks
      BY <2>1, <2>2, <2>3, AllShared
    <2>7. \A g \in Handles : f2[g] = x => sh2[g]
      BY <1>1, <1>2, <2>6
    <2>8. r2[x] = Uses(f2, k, o, x) /\ Uses(f2, k, o, x) > 0
      BY <2>1, <2>3, <2>4, <2>5
    <2> QED
      BY <2>6, <2>7, <2>8, GoodAtShared
  <1>9. /\ \A g \in Handles : f2[g] # Nil => f2[g] \in l2
        /\ o > 0 => k \in l2
    <2>1. CASE l2 = l
      BY <1>1, <2>1 DEF Good
    <2>2. CASE f[h] # Nil /\ (~sh[h] \/ r[f[h]] = 1)
      <3>1. GoodAt(f, sh, r, k, ks, o, f[h])
        BY <1>4, <2>2 DEF Good
      <3>2. Uses(f, k, o, f[h]) = 1
        BY <2>2, <3>1 DEF GoodAt, Counts
      <3>7. Only(f, k, o, h)
        BY <1>6, <3>2, OnlyUser
      <3>3. /\ \A g \in Handles \ {h} : f[g] # f[h]
            /\ k = f[h] => o = 0
        BY <3>7 DEF Only
      <3>4. l2 = l \ {f[h]}
        BY <1>11, <2>2
      <3>5. ASSUME NEW g \in Handles, f2[g] # Nil PROVE f2[g] \in l2
        <4>1. g # h /\ f2[g] = f[g] /\ f[g] # f[h]
          BY <1>1, <3>3, <3>5
        <4>2. f[g] \in l
          BY <3>5, <4>1 DEF Good
        <4> QED
          BY <3>4, <4>1, <4>2
      <3>6. o > 0 => k \in l2
        BY <1>6, <3>3, <3>4 DEF Good
      <3> QED
        BY <3>5, <3>6
    <2> QED
      BY <1>4, <1>5, <2>1, <2>2
  <1>10. Good(f2, sh2, r2, l2, k, ks, o)
    BY <1>7, <1>8, <1>9 DEF Good
  <1> QED
    BY <1>10 DEF f2, sh2, r2, l2

(* A closed handle gets new content, as init_size does.                    *)
LEMMA GoodNew ==
    ASSUME NEW f, NEW sh, NEW r, NEW l, NEW k, NEW ks, NEW o,
           Typed(f, sh, r, l, k, ks, o), Good(f, sh, r, l, k, ks, o),
           NEW h \in Handles, f[h] = Nil, NEW c \in Contents, c \notin l
    PROVE  Good([f EXCEPT ![h] = c], [sh EXCEPT ![h] = FALSE], [r EXCEPT ![c] = 0],
                l \cup {c}, k, ks, o)
  <1> DEFINE f2 == [f EXCEPT ![h] = c]
             sh2 == [sh EXCEPT ![h] = FALSE]
             r2 == [r EXCEPT ![c] = 0]
  <1>1. /\ \A g \in Handles \ {h} : f2[g] = f[g] /\ sh2[g] = sh[g]
        /\ f2[h] = c /\ sh2[h] = FALSE
        /\ \A x \in Contents \ {c} : r2[x] = r[x]
        /\ c # Nil /\ o \in Nat
    BY MsgAssumption DEF Typed
  <1> HIDE DEF f2, sh2, r2
  <1>2. \A g \in Handles : f[g] # c
    BY <1>1 DEF Good
  <1>3. ASSUME NEW x PROVE /\ Uses(f2, k, o, x) = Uses(f, k, o, x) - Has(f, h, x) + Has(f2, h, x)
                           /\ Uses(f, k, o, x) \in Nat
    BY <1>1, UsesUpdate
  <1>4. ASSUME NEW x \in l PROVE GoodAt(f2, sh2, r2, k, ks, o, x)
    <2>1. x # c /\ x # Nil /\ r2[x] = r[x] /\ GoodAt(f, sh, r, k, ks, o, x)
      BY <1>1, MsgAssumption DEF Good, Typed
    <2>2. Uses(f2, k, o, x) = Uses(f, k, o, x)
      BY <1>1, <1>3, <2>1 DEF Has
    <2>3. \A g \in Handles : f2[g] = x => f[g] = x /\ sh2[g] = sh[g]
      BY <1>1, <2>1
    <2> QED
      BY <2>1, <2>2, <2>3 DEF GoodAt
  <1>5. GoodAt(f2, sh2, r2, k, ks, o, c)
    <2>1. k = c => ~(o > 0)
      BY <1>1 DEF Good
    <2>2. Uses(f, k, o, c) = 0
      BY <1>1, <1>2, <2>1, CountZero DEF Uses
    <2>3. Uses(f2, k, o, c) = 1
      BY <1>1, <1>3, <2>2 DEF Has
    <2>4. \A g \in Handles : f2[g] = c => ~sh2[g]
      BY <1>1, <1>2
    <2> QED
      BY <2>1, <2>3, <2>4 DEF GoodAt, Counts
  <1>6. /\ \A g \in Handles : f2[g] # Nil => f2[g] \in l \cup {c}
        /\ o > 0 => k \in l \cup {c}
    BY <1>1 DEF Good
  <1>7. Good(f2, sh2, r2, l \cup {c}, k, ks, o)
    BY <1>4, <1>5, <1>6 DEF Good
  <1> QED
    BY <1>7 DEF f2, sh2, r2

(* An empty handle takes over the content of another.                      *)
LEMMA GoodMove ==
    ASSUME NEW f, NEW sh, NEW r, NEW l, NEW k, NEW ks, NEW o,
           Typed(f, sh, r, l, k, ks, o), Good(f, sh, r, l, k, ks, o),
           NEW d \in Handles, NEW s \in Handles, d # s, f[d] = Nil
    PROVE  Good([f EXCEPT ![d] = f[s], ![s] = Nil], [sh EXCEPT ![d] = sh[s], ![s] = FALSE],
                r, l, k, ks, o)
  <1> DEFINE f1 == [f EXCEPT ![d] = f[s]]
             f2 == [f EXCEPT ![d] = f[s], ![s] = Nil]
             sh2 == [sh EXCEPT ![d] = sh[s], ![s] = FALSE]
  <1>1. /\ \A g \in Handles \ {d} : f1[g] = f[g]
        /\ \A g \in Handles \ {s} : f2[g] = f1[g]
        /\ \A g \in Handles \ {d, s} : sh2[g] = sh[g]
        /\ f1[d] = f[s] /\ f2[s] = Nil /\ sh2[d] = sh[s]
        /\ o \in Nat
    BY DEF Typed
  <1> HIDE DEF f1, f2, sh2
  <1>2. ASSUME NEW x \in l PROVE GoodAt(f2, sh2, r, k, ks, o, x)
    <2>1. x # Nil /\ GoodAt(f, sh, r, k, ks, o, x)
      BY MsgAssumption DEF Good, Typed
    <2>2. /\ Uses(f1, k, o, x) = Uses(f, k, o, x) - Has(f, d, x) + Has(f1, d, x)
          /\ Uses(f, k, o, x) \in Nat
      BY <1>1, UsesUpdate
    <2>3. /\ Uses(f2, k, o, x) = Uses(f1, k, o, x) - Has(f1, s, x) + Has(f2, s, x)
          /\ Uses(f1, k, o, x) \in Nat
      BY <1>1, UsesUpdate
    <2>4. Has(f, d, x) = 0 /\ Has(f1, d, x) = Has(f1, s, x) /\ Has(f2, s, x) = 0
          /\ Has(f1, s, x) \in Int
      BY <1>1, <2>1 DEF Has
    <2>5. Uses(f2, k, o, x) = Uses(f, k, o, x)
      BY <2>2, <2>3, <2>4
    <2>6. \A g \in Handles : f2[g] = x => Counts(sh2[g], r[x], Uses(f, k, o, x))
      <3> SUFFICES ASSUME NEW g \in Handles, f2[g] = x
                   PROVE  Counts(sh2[g], r[x], Uses(f, k, o, x))
        OBVIOUS
      <3>1. CASE g = d
        BY <1>1, <2>1, <3>1 DEF GoodAt
      <3>2. CASE g # d
        BY <1>1, <2>1, <3>2 DEF GoodAt
      <3> QED
        BY <3>1, <3>2
    <2> QED
      BY <2>1, <2>5, <2>6 DEF GoodAt
  <1>3. /\ \A g \in Handles : f2[g] # Nil => f2[g] \in l
        /\ o > 0 => k \in l
    BY <1>1 DEF Good
  <1>4. Good(f2, sh2, r, l, k, ks, o)
    BY <1>2, <1>3 DEF Good
  <1> QED
    BY <1>4 DEF f2, sh2

(* An empty handle becomes a copy of another.                              *)
LEMMA GoodCopy ==
    ASSUME NEW f, NEW sh, NEW r, NEW l, NEW k, NEW ks, NEW o,
           Typed(f, sh, r, l, k, ks, o), Good(f, sh, r, l, k, ks, o),
           NEW d \in Handles, NEW s \in Handles, d # s, f[d] = Nil, f[s] # Nil
    PROVE  Good([f EXCEPT ![d] = f[s]], [sh EXCEPT ![d] = TRUE, ![s] = TRUE],
                IF sh[s] THEN [r EXCEPT ![f[s]] = @ + 1] ELSE [r EXCEPT ![f[s]] = 2],
                l, k, ks, o)
  <1> DEFINE c == f[s]
             f2 == [f EXCEPT ![d] = f[s]]
             sh2 == [sh EXCEPT ![d] = TRUE, ![s] = TRUE]
             r2 == IF sh[s] THEN [r EXCEPT ![f[s]] = @ + 1] ELSE [r EXCEPT ![f[s]] = 2]
  <1>1. /\ \A g \in Handles \ {d} : f2[g] = f[g]
        /\ \A g \in Handles \ {d, s} : sh2[g] = sh[g]
        /\ f2[d] = c /\ sh2[d] = TRUE /\ sh2[s] = TRUE
        /\ o \in Nat /\ c \in Contents /\ sh[s] \in BOOLEAN
    BY DEF Typed
  <1>2. \A x \in Contents \ {c} : r2[x] = r[x]
    BY DEF Typed
  <1>3. r2[c] = IF sh[s] THEN r[c] + 1 ELSE 2
    BY <1>1 DEF Typed
  <1>4. r \in [Contents -> Int]
    BY DEF Typed
  <1>5. c \in l /\ f[s] = c /\ c # Nil
    BY DEF Good
  <1> HIDE DEF c, f2, sh2, r2
  <1>6. ASSUME NEW x PROVE /\ Uses(f2, k, o, x) = Uses(f, k, o, x) - Has(f, d, x) + Has(f2, d, x)
                           /\ Uses(f, k, o, x) \in Nat
    BY <1>1, UsesUpdate
  <1>7. ASSUME NEW x \in l, x # c PROVE GoodAt(f2, sh2, r2, k, ks, o, x)
    <2>1. x # Nil /\ x \in Contents /\ r2[x] = r[x] /\ GoodAt(f, sh, r, k, ks, o, x)
      BY <1>2, <1>7, MsgAssumption DEF Good, Typed
    <2>2. Uses(f2, k, o, x) = Uses(f, k, o, x)
      BY <1>1, <1>6, <1>7, <2>1 DEF Has
    <2>3. \A g \in Handles : f2[g] = x => f[g] = x /\ sh2[g] = sh[g]
      BY <1>1, <1>5, <1>7, <2>1
    <2> QED
      BY <2>1, <2>2, <2>3 DEF GoodAt
  <1>8. GoodAt(f2, sh2, r2, k, ks, o, c)
    <2>1. GoodAt(f, sh, r, k, ks, o, c)
      BY <1>5 DEF Good
    <2>2. Uses(f, k, o, c) \in Nat /\ Uses(f, k, o, c) > 0 /\ Uses(f2, k, o, c) = Uses(f, k, o, c) + 1
      BY <1>1, <1>5, <1>6, <2>1 DEF Has, GoodAt
    <2>3. CASE sh[s]
      <3>1. r[c] = Uses(f, k, o, c)
        BY <1>5, <2>1, <2>3 DEF GoodAt, Counts
      <3>2. r2[c] = Uses(f2, k, o, c)
        BY <1>3, <2>2, <2>3, <3>1
      <3>3. /\ \A g \in Handles : f2[g] = c => Counts(sh2[g], r2[c], Uses(f2, k, o, c))
            /\ k = c /\ o > 0 => Counts(ks, r2[c], Uses(f2, k, o, c))
        <4>1. CASE Uses(f, k, o, c) # 1
          <5>1. /\ \A g \in Handles : f[g] = c => sh[g]
                /\ k = c /\ o > 0 => ks
            BY <2>1, <4>1, AllShared
          <5>2. \A g \in Handles : f2[g] = c => sh2[g]
            BY <1>1, <5>1
          <5> QED
            BY <3>2, <5>1, <5>2 DEF Counts
        <4>2. CASE Uses(f, k, o, c) = 1
          <5>4. Only(f, k, o, s)
            BY <1>1, <1>5, <4>2, OnlyUser
          <5>1. /\ \A g \in Handles \ {s} : f[g] # c
                /\ k = c => o = 0
            BY <1>5, <5>4 DEF Only
          <5>2. \A g \in Handles : f2[g] = c => sh2[g]
            BY <1>1, <5>1
          <5>3. ~(k = c /\ o > 0)
            BY <1>1, <5>1
          <5> QED
            BY <3>2, <5>2, <5>3 DEF Counts
        <4> QED
          BY <4>1, <4>2
      <3> QED
        BY <2>2, <3>3 DEF GoodAt
    <2>4. CASE ~sh[s]
      <3>1. Uses(f, k, o, c) = 1
        BY <1>5, <2>1, <2>4 DEF GoodAt, Counts
      <3>6. Only(f, k, o, s)
        BY <1>1, <1>5, <3>1, OnlyUser
      <3>2. /\ \A g \in Handles \ {s} : f[g] # c
            /\ k = c => o = 0
        BY <1>5, <3>6 DEF Only
      <3>3. r2[c] = Uses(f2, k, o, c) /\ Uses(f2, k, o, c) > 0
        BY <1>3, <2>2, <2>4, <3>1
      <3>4. \A g \in Handles : f2[g] = c => sh2[g]
        BY <1>1, <3>2
      <3>5. ~(k = c /\ o > 0)
        BY <1>1, <3>2
      <3> QED
        BY <3>3, <3>4, <3>5, GoodAtShared
    <2> QED
      BY <1>1, <2>3, <2>4
  <1>9. /\ \A g \in Handles : f2[g] # Nil => f2[g] \in l
        /\ o > 0 => k \in l
    BY <1>1, <1>5 DEF Good
  <1>10. Good(f2, sh2, r2, l, k, ks, o)
    BY <1>7, <1>8, <1>9 DEF Good
  <1> QED
    BY <1>10 DEF c, f2, sh2, r2

(* A message is taken in hand to be distributed to n pipes.                *)
LEMMA GoodDistribute ==
    ASSUME NEW f, NEW sh, NEW r, NEW l, NEW ks,
           Typed(f, sh, r, l, Nil, ks, 0), Good(f, sh, r, l, Nil, ks, 0),
           NEW h \in Handles, f[h] # Nil, NEW n \in Nat \ {0}
    PROVE  Good([f EXCEPT ![h] = Nil], [sh EXCEPT ![h] = FALSE],
                IF n - 1 = 0 THEN r
                ELSE IF sh[h] THEN [r EXCEPT ![f[h]] = @ + (n - 1)]
                ELSE [r EXCEPT ![f[h]] = n - 1 + 1],
                l, f[h], sh[h] \/ n > 1, n)
  <1> DEFINE c == f[h]
             f2 == [f EXCEPT ![h] = Nil]
             sh2 == [sh EXCEPT ![h] = FALSE]
             r2 == IF n - 1 = 0 THEN r
                   ELSE IF sh[h] THEN [r EXCEPT ![f[h]] = @ + (n - 1)]
                   ELSE [r EXCEPT ![f[h]] = n - 1 + 1]
             ks2 == sh[h] \/ n > 1
  <1>1. /\ \A g \in Handles \ {h} : f2[g] = f[g] /\ sh2[g] = sh[g]
        /\ f2[h] = Nil /\ f[h] = c
        /\ c \in Contents /\ sh[h] \in BOOLEAN
    BY DEF Typed
  <1>2. \A x \in Contents \ {c} : r2[x] = r[x]
    BY DEF Typed
  <1>3. /\ sh[h] => r2[c] = r[c] + (n - 1)
        /\ ~sh[h] /\ n > 1 => r2[c] = n
    BY <1>1 DEF Typed
  <1>4. r \in [Contents -> Int] /\ r[c] \in Int
    BY <1>1 DEF Typed
  <1>5. c \in l /\ c # Nil
    BY DEF Good
  <1>6. ks2 = (sh[h] \/ n > 1)
    OBVIOUS
  <1> HIDE DEF c, f2, sh2, r2, ks2
  <1>7. ASSUME NEW x \in Contents
        PROVE  /\ Uses(f, Nil, 0, x) = Count(f, x)
               /\ Uses(f2, c, n, x) = Count(f2, x) + (IF x = c THEN n ELSE 0)
               /\ Count(f2, x) = Count(f, x) - (IF x = c THEN 1 ELSE 0)
               /\ Count(f, x) \in Nat
    <2>1. Count(f2, x) = Count(f, x) - Has(f, h, x) + Has(f2, h, x)
      BY <1>1, CountUpdate
    <2>2. Count(f, x) \in Nat /\ Count(f2, x) \in Nat
      BY CountType
    <2>3. Has(f, h, x) = (IF x = c THEN 1 ELSE 0) /\ Has(f2, h, x) = 0
      BY <1>1, MsgAssumption DEF Has
    <2>4. x # Nil
      BY MsgAssumption
    <2> QED
      BY <2>1, <2>2, <2>3, <2>4 DEF Uses
  <1>8. ASSUME NEW x \in l, x # c PROVE GoodAt(f2, sh2, r2, c, ks2, n, x)
    <2>1. x # Nil /\ x \in Contents /\ r2[x] = r[x] /\ GoodAt(f, sh, r, Nil, ks, 0, x)
      BY <1>2, <1>8, MsgAssumption DEF Good, Typed
    <2>2. Uses(f2, c, n, x) = Uses(f, Nil, 0, x)
      BY <1>7, <1>8, <2>1
    <2>3. \A g \in Handles : f2[g] = x => f[g] = x /\ sh2[g] = sh[g]
      BY <1>1, <2>1
    <2>4. GoodAt(f, sh, r, Nil, ks, 0, x) /\ r2[x] = r[x]
      BY Zenon, <2>1
    <2>5. c = x /\ n > 0 => Nil = x /\ 0 > 0 /\ ks2 = ks
      BY Zenon, <1>8
    <2> QED
      BY <2>2, <2>3, <2>4, <2>5 DEF GoodAt
  <1>9. GoodAt(f2, sh2, r2, c, ks2, n, c)
    <2> DEFINE u == Uses(f, Nil, 0, c)
    <2>1. GoodAt(f, sh, r, Nil, ks, 0, c)
      BY <1>5 DEF Good
    <2>2. u \in Nat /\ u > 0 /\ Uses(f2, c, n, c) = u + (n - 1) /\ Uses(f2, c, n, c) > 0
      BY <1>1, <1>7, <2>1 DEF GoodAt
    <2>3. Counts(sh[h], r[c], u)
      BY <1>1, <2>1 DEF GoodAt
    <2>4. CASE u # 1
      <3>1. \A g \in Handles : f[g] = c => sh[g] /\ r[c] = u
        BY <2>1, <2>4, AllShared
      <3>2. sh[h] /\ r[c] = u
        BY <1>1, <3>1
      <3>3. r2[c] = Uses(f2, c, n, c) /\ ks2
        BY <1>3, <1>6, <2>2, <3>2
      <3>4. \A g \in Handles : f2[g] = c => sh2[g]
        BY <1>1, <1>5, <3>1
      <3> QED
        BY <2>2, <3>3, <3>4, GoodAtShared
    <2>5. CASE u = 1
      <3>1. Only(f, Nil, 0, h)
        BY <1>1, <2>5, OnlyUser
      <3>2. \A g \in Handles : f2[g] # c
        BY <1>1, <1>5, <3>1 DEF Only
      <3>3. Uses(f2, c, n, c) = n
        BY <2>2, <2>5
      <3>4. Counts(ks2, r2[c], n)
        <4>1. CASE sh[h]
          <5>1. r[c] = 1
            BY <2>3, <2>5, <4>1 DEF Counts
          <5>2. r2[c] = n
            BY <1>3, <4>1, <5>1
          <5>3. ks2
            BY <1>6, <4>1
          <5> QED
            BY <5>2, <5>3 DEF Counts
        <4>2. CASE ~sh[h] /\ n > 1
          <5>1. ks2 = TRUE /\ r2[c] = n
            BY <1>3, <1>6, <4>2
          <5> QED
            BY <5>1 DEF Counts
        <4>3. CASE ~sh[h] /\ ~(n > 1)
          <5>1. ks2 = FALSE /\ n = 1
            BY <1>1, <1>6, <4>3
          <5> QED
            BY <5>1 DEF Counts
        <4> QED
          BY <1>1, <4>1, <4>2, <4>3
      <3> QED
        BY <2>2, <3>2, <3>3, <3>4 DEF GoodAt
    <2> QED
      BY <2>4, <2>5
  <1>10. /\ \A g \in Handles : f2[g] # Nil => f2[g] \in l
         /\ n > 0 => c \in l
    BY <1>1, <1>5 DEF Good
  <1>11. Good(f2, sh2, r2, l, c, ks2, n)
    BY <1>8, <1>9, <1>10 DEF Good
  <1> QED
    BY <1>11 DEF c, f2, sh2, r2, ks2

(* The message in hand is copied into the closed handle d.                 *)
LEMMA GoodWrite ==
    ASSUME NEW f, NEW sh, NEW r, NEW l, NEW k, NEW ks, NEW o,
           Typed(f, sh, r, l, k, ks, o), Good(f, sh, r, l, k, ks, o),
           NEW d \in Handles, f[d] = Nil, k # Nil, o > 0
    PROVE  Good([f EXCEPT ![d] = k], [sh EXCEPT ![d] = ks], r, l, k, ks, o - 1)
  <1> DEFINE f2 == [f EXCEPT ![d] = k]
             sh2 == [sh EXCEPT ![d] = ks]
  <1>1. /\ \A g \in Handles \ {d} : f2[g] = f[g] /\ sh2[g] = sh[g]
        /\ f2[d] = k /\ sh2[d] = ks
        /\ o \in Nat /\ o - 1 \in Nat
    BY DEF Typed
  <1> HIDE DEF f2, sh2
  <1>2. ASSUME NEW x \in l PROVE GoodAt(f2, sh2, r, k, ks, o - 1, x)
    <2>1. x # Nil /\ GoodAt(f, sh, r, k, ks, o, x)
      BY MsgAssumption DEF Good, Typed
    <2>8. Count(f2, x) = Count(f, x) - Has(f, d, x) + Has(f2, d, x)
      BY <1>1, CountUpdate
    <2>2. Count(f2, x) = Count(f, x) - Has(f, d, x) + Has(f2, d, x) /\ Count(f, x) \in Nat
      BY <2>8, CountType
    <2>3. Has(f, d, x) = 0 /\ Has(f2, d, x) = IF k = x THEN 1 ELSE 0
      BY <1>1, <2>1 DEF Has
    <2>4. Uses(f2, k, o - 1, x) = Uses(f, k, o, x)
      BY <1>1, <2>2, <2>3 DEF Uses
    <2>5. \A g \in Handles : f2[g] = x => Counts(sh2[g], r[x], Uses(f, k, o, x))
      <3> SUFFICES ASSUME NEW g \in Handles, f2[g] = x
                   PROVE  Counts(sh2[g], r[x], Uses(f, k, o, x))
        OBVIOUS
      <3>1. CASE g = d
        BY <1>1, <2>1, <3>1 DEF GoodAt
      <3>2. CASE g # d
        BY <1>1, <2>1, <3>2 DEF GoodAt
      <3> QED
        BY <3>1, <3>2
    <2>6. /\ Uses(f, k, o, x) > 0
          /\ k = x => Counts(ks, r[x], Uses(f, k, o, x))
      BY <2>1 DEF GoodAt
    <2>7. /\ Uses(f2, k, o - 1, x) > 0
          /\ \A g \in Handles : f2[g] = x => Counts(sh2[g], r[x], Uses(f2, k, o - 1, x))
          /\ k = x => Counts(ks, r[x], Uses(f2, k, o - 1, x))
      BY <2>4, <2>5, <2>6, Zenon
    <2> QED
      BY <2>7, Zenon DEF GoodAt
  <1>3. /\ \A g \in Handles : f2[g] # Nil => f2[g] \in l
        /\ o - 1 > 0 => k \in l
    BY <1>1 DEF Good
  <1>4. Good(f2, sh2, r, l, k, ks, o - 1)
    BY <1>2, <1>3 DEF Good
  <1> QED
    BY <1>4 DEF f2, sh2

(* The references that were not handed over are taken back.                *)
LEMMA GoodDone ==
    ASSUME NEW f, NEW sh, NEW r, NEW l, NEW k, NEW ks, NEW o,
           Typed(f, sh, r, l, k, ks, o), Good(f, sh, r, l, k, ks, o), k # Nil
    PROVE  Good(f, sh, IF o > 0 /\ ks THEN [r EXCEPT ![k] = @ - o] ELSE r,
                IF o > 0 /\ (~ks \/ r[k] = o) THEN l \ {k} ELSE l, Nil, FALSE, 0)
  <1> DEFINE r2 == IF o > 0 /\ ks THEN [r EXCEPT ![k] = @ - o] ELSE r
             l2 == IF o > 0 /\ (~ks \/ r[k] = o) THEN l \ {k} ELSE l
  <1>1. k \in Contents /\ o \in Nat /\ ks \in BOOLEAN /\ r[k] \in Int
    BY DEF Typed
  <1>2. \A x \in Contents \ {k} : r2[x] = r[x]
    BY DEF Typed
  <1>3. o > 0 /\ ks => r2[k] = r[k] - o
    BY <1>1 DEF Typed
  <1>4. ~(o > 0) => r2 = r /\ l2 = l
    OBVIOUS
  <1>5. /\ l2 \subseteq l
        /\ o > 0 /\ (~ks \/ r[k] = o) => l2 = l \ {k}
        /\ o > 0 /\ ks /\ r[k] # o => l2 = l
    OBVIOUS
  <1>6. l \subseteq Contents
    BY DEF Typed
  <1> HIDE DEF r2, l2
  <1>7. ASSUME NEW x \in Contents
        PROVE  /\ Uses(f, Nil, 0, x) = Count(f, x)
               /\ Count(f, x) \in Nat
               /\ Uses(f, k, o, x) = Count(f, x) + (IF k = x THEN o ELSE 0)
    <2>1. Nil # x
      BY MsgAssumption
    <2>2. Count(f, x) \in Nat
      BY CountType
    <2> QED
      BY <2>1, <2>2 DEF Uses
  <1>8. o > 0 => /\ k \in l /\ Uses(f, k, o, k) > 0
                 /\ Counts(ks, r[k], Uses(f, k, o, k))
    BY <1>1 DEF Good, GoodAt
  <1>9. ASSUME NEW x \in l2 PROVE GoodAt(f, sh, r2, Nil, FALSE, 0, x)
    <2>1. x \in l /\ x \in Contents /\ x # Nil /\ GoodAt(f, sh, r, k, ks, o, x)
      BY <1>5, <1>6, MsgAssumption DEF Good
    <2>2. CASE x # k \/ ~(o > 0)
      <3>1. Uses(f, Nil, 0, x) = Uses(f, k, o, x)
        BY <1>1, <1>7, <2>1, <2>2
      <3>2. r2[x] = r[x]
        BY <1>2, <1>4, <2>1, <2>2
      <3>3. ~(Nil = x /\ 0 > 0)
        OBVIOUS
      <3> QED
        BY <2>1, <3>1, <3>2, <3>3 DEF GoodAt
    <2>3. CASE x = k /\ o > 0
      <3>1. ks /\ r[k] # o
        BY <1>1, <1>5, <2>3
      <3>2. r[k] = Uses(f, k, o, k)
        BY <1>8, <2>3, <3>1 DEF Counts
      <3>3. r2[k] = Uses(f, Nil, 0, k) /\ Uses(f, Nil, 0, k) > 0
        BY <1>1, <1>3, <1>7, <2>3, <3>1, <3>2
      <3>4. \A g \in Handles : f[g] = k => sh[g]
        <4> SUFFICES ASSUME NEW g \in Handles, f[g] = k PROVE sh[g]
          OBVIOUS
        <4>1. Count(f, k) > 0
          BY CountPositive
        <4>2. Uses(f, k, o, k) # 1
          BY <1>1, <1>7, <2>3, <4>1
        <4> QED
          BY <2>1, <2>3, <4>2, AllShared
      <3> QED
        BY <2>3, <3>3, <3>4, GoodAtShared
    <2> QED
      BY <2>2, <2>3
  <1>10. ASSUME NEW g \in Handles, f[g] # Nil PROVE f[g] \in l2
    <2>1. f[g] \in l
      BY <1>10 DEF Good
    <2>2. CASE ~(o > 0)
      BY <1>4, <2>1, <2>2
    <2>3. CASE o > 0 /\ ks /\ r[k] # o
      BY <1>5, <2>1, <2>3
    <2>4. CASE o > 0 /\ (~ks \/ r[k] = o)
      <3>1. Uses(f, k, o, k) = o
        <4>1. CASE ks
          BY <1>1, <1>8, <2>4, <4>1 DEF Counts
        <4>2. CASE ~ks
          <5>1. Uses(f, k, o, k) = 1
            BY <1>8, <2>4, <4>2 DEF Counts
          <5> QED
            BY <1>1, <1>7, <2>4, <5>1
        <4> QED
          BY <4>1, <4>2
      <3>2. Count(f, k) = 0
        BY <1>1, <1>7, <3>1
      <3>3. f[g] # k
        BY <3>2, CountPositive
      <3> QED
        BY <1>5, <2>1, <2>4, <3>3
    <2> QED
      BY <1>1, <2>2, <2>3, <2>4
  <1>12. ~(0 > 0)
    OBVIOUS
  <1>11. Good(f, sh, r2, l2, Nil, FALSE, 0)
    BY <1>9, <1>10, <1>12, Zenon DEF Good
  <1> QED
    BY <1>11 DEF r2, l2

(* The initial state: nothing is allocated, each engine has its metadata.  *)
LEMMA InitMsgInv == Init => MsgInv
  <1> SUFFICES ASSUME Init PROVE MsgInv
    OBVIOUS
  <1>1. TypeOK
    BY DEF Init, TypeOK, Idle
  <1>2. ContentCounted
    BY DEF Init, ContentCounted, Good, Idle
  <1>3. MetadataCounted
    <2>1. ASSUME NEW m \in Metas PROVE Count(meta, m) = 0
      <3>1. {h \in Handles : meta[h] = m} = {}
        BY MsgAssumption DEF Init
      <3> QED
        BY <3>1, FS_EmptySet DEF Count
    <2> QED
      BY <2>1 DEF Init, MetadataCounted, Held
  <1> QED
    BY <1>1, <1>2, <1>3 DEF MsgInv

(* Every step keeps the counts of the metadata right.                      *)
LEMMA MetadataStep ==
    ASSUME MsgInv, [Next]_vars
    PROVE  MetadataCounted'
  <1>0. DOMAIN meta = Handles /\ \A h \in Handles : meta[h] \in Metas \cup {Nil}
    BY DEF MsgInv, TypeOK
  <1>1. CASE meta' = meta /\ mrefs' = mrefs /\ engine' = engine
    BY <1>1 DEF MsgInv, MetadataCounted, Count, Held
  <1>2. ASSUME NEW h \in Handles, engine' = engine, mrefs' = drop_ref(h),
               meta' = [meta EXCEPT ![h] = Nil]
        PROVE  MetadataCounted'
    <2> SUFFICES ASSUME NEW m \in Metas
                 PROVE  mrefs'[m] = Count(meta', m) + Held(m)'
      BY DEF MetadataCounted
    <2>0. /\ \A g \in Handles \ {h} : meta'[g] = meta[g]
          /\ meta'[h] = Nil
      BY <1>0, <1>2
    <2>1. Count(meta', m) = Count(meta, m) - Has(meta, h, m) + Has(meta', h, m)
      BY <2>0, CountUpdate
    <2>2. Count(meta, m) \in Nat
      BY CountType
    <2> QED
      BY <1>0, <1>2, <2>0, <2>1, <2>2, MsgAssumption
      DEF MsgInv, MetadataCounted, TypeOK, drop_ref, Has, Held
  <1>3. ASSUME NEW d \in Handles, NEW s \in Handles, move(d, s)
        PROVE  MetadataCounted'
    <2> SUFFICES ASSUME NEW m \in Metas
                 PROVE  mrefs'[m] = Count(meta', m) + Held(m)'
      BY DEF MetadataCounted
    <2> DEFINE f == [meta EXCEPT ![d] = meta[s]]
    <2>0. /\ \A g \in Handles \ {d} : f[g] = meta[g]
          /\ \A g \in Handles \ {s} : meta'[g] = f[g]
          /\ f[d] = meta[s] /\ f[s] = meta[s] /\ meta'[s] = Nil
      BY <1>0, <1>3 DEF move
    <2> HIDE DEF f
    <2>1. Count(f, m) = Count(meta, m) - Has(meta, d, m) + Has(f, d, m)
      BY <2>0, CountUpdate
    <2>2. Count(meta', m) = Count(f, m) - Has(f, s, m) + Has(meta', s, m)
      BY <2>0, CountUpdate
    <2>3. Count(meta, m) \in Nat /\ Count(f, m) \in Nat
      BY CountType
    <2>4. Count(meta', m) = Count(meta, m) - Has(meta, d, m)
      BY <2>0, <2>1, <2>2, <2>3, MsgAssumption DEF Has
    <2>5. mrefs'[m] = mrefs[m] - Has(meta, d, m) /\ Held(m)' = Held(m)
      BY <1>0, <1>3, MsgAssumption DEF MsgInv, TypeOK, drop_ref, Has, Held, move, Unused
    <2> QED
      BY <2>3, <2>4, <2>5 DEF MsgInv, MetadataCounted, TypeOK, Has, Held
  <1>4. ASSUME NEW d \in Handles, NEW s \in Handles, copy(d, s)
        PROVE  MetadataCounted'
    <2> SUFFICES ASSUME NEW m \in Metas
                 PROVE  mrefs'[m] = Count(meta', m) + Held(m)'
      BY DEF MetadataCounted
    <2>0. /\ \A g \in Handles \ {d} : meta'[g] = meta[g]
          /\ meta'[d] = meta[s]
      BY <1>0, <1>4 DEF copy
    <2>1. Count(meta', m) = Count(meta, m) - Has(meta, d, m) + Has(meta', d, m)
      BY <2>0, CountUpdate
    <2>2. Count(meta, m) \in Nat
      BY CountType
    <2>3. drop_ref(d) \in [Metas -> Int] /\ drop_ref(d)[m] = mrefs[m] - Has(meta, d, m)
      BY <1>0, MsgAssumption DEF MsgInv, TypeOK, drop_ref, Has
    <2>4. mrefs'[m] = drop_ref(d)[m] + Has(meta', d, m) /\ Held(m)' = Held(m)
      BY <1>0, <1>4, <2>0, <2>3, MsgAssumption DEF add_ref, Has, Held, copy, Unused
    <2> QED
      BY <2>1, <2>2, <2>3, <2>4 DEF MsgInv, MetadataCounted, TypeOK, Has, Held
  <1>5. ASSUME NEW h \in Handles, NEW e \in Metas, set_metadata(h, e)
        PROVE  MetadataCounted'
    <2> SUFFICES ASSUME NEW m \in Metas
                 PROVE  mrefs'[m] = Count(meta', m) + Held(m)'
      BY DEF MetadataCounted
    <2>0. /\ \A g \in Handles \ {h} : meta'[g] = meta[g]
          /\ meta[h] = Nil /\ meta'[h] = e
      BY <1>0, <1>5 DEF set_metadata
    <2>1. Count(meta', m) = Count(meta, m) - Has(meta, h, m) + Has(meta', h, m)
      BY <2>0, CountUpdate
    <2>2. Count(meta, m) \in Nat
      BY CountType
    <2> QED
      BY <1>5, <2>0, <2>1, <2>2, MsgAssumption
      DEF MsgInv, MetadataCounted, TypeOK, Has, Held, set_metadata, Unused
  <1>6. ASSUME NEW e \in Metas, engine_gone(e)
        PROVE  MetadataCounted'
    <2> SUFFICES ASSUME NEW m \in Metas
                 PROVE  mrefs'[m] = Count(meta', m) + Held(m)'
      BY DEF MetadataCounted
    <2>1. Count(meta, m) \in Nat /\ meta' = meta
      BY <1>6, CountType DEF engine_gone
    <2> QED
      BY <1>6, <2>1 DEF MsgInv, MetadataCounted, TypeOK, Held, engine_gone
  <1>7. ASSUME NEW h \in Handles, init(h) \/ init_size(h) \/ write(h)
        PROVE  MetadataCounted'
    BY <1>1, <1>7 DEF init, init_size, write, Unused
  <1>8. ASSUME NEW h \in Handles, close(h) \/ reset_metadata(h)
        PROVE  MetadataCounted'
    BY <1>2, <1>8 DEF close, reset_metadata, Unused
  <1>9. ASSUME NEW h \in Handles, NEW n \in 1 .. MaxPipes, distribute(h, n)
        PROVE  MetadataCounted'
    BY <1>2, <1>9 DEF distribute
  <1>10. CASE write_failed \/ distributed \/ UNCHANGED vars
    BY <1>1, <1>10 DEF write_failed, distributed, vars
  <1> QED
    BY <1>3, <1>4, <1>5, <1>6, <1>7, <1>8, <1>9, <1>10 DEF Next

(* Every step keeps the types.                                             *)
LEMMA TypeStep ==
    ASSUME MsgInv, [Next]_vars
    PROVE  TypeOK'
  <1> USE DEF MsgInv, TypeOK
  <1>0. \A h \in Handles : type[h] = "long" => content[h] \in Contents
    BY DEF ContentCounted
  <1>9. hand.busy => hand.content \in Contents
    BY DEF ContentCounted
  <1>1. ASSUME NEW h \in Handles, init(h) \/ init_size(h) \/ close(h) \/ reset_metadata(h)
        PROVE  TypeOK'
    <2>1. CASE init(h)
      BY <2>1 DEF init, Unused
    <2>4. CASE init_size(h)
      BY <2>4 DEF init_size, Unused
    <2>2. CASE close(h)
      BY <1>0, <2>2 DEF close, Unused, close_refcnt, close_live, drop_ref
    <2>3. CASE reset_metadata(h)
      BY <2>3 DEF reset_metadata, Unused, drop_ref
    <2> QED
      BY <1>1, <2>1, <2>2, <2>3, <2>4
  <1>2. ASSUME NEW d \in Handles, NEW s \in Handles, move(d, s)
        PROVE  TypeOK'
    BY <1>0, <1>2 DEF move, Unused, close_refcnt, close_live, drop_ref
  <1>3. ASSUME NEW d \in Handles, NEW s \in Handles, copy(d, s)
        PROVE  TypeOK'
    <2>1. close_refcnt(d) \in [Contents -> Int] /\ drop_ref(d) \in [Metas -> Int]
      BY <1>0 DEF close_refcnt, drop_ref
    <2>2. refcnt' \in [Contents -> Int]
      BY <1>0, <1>3, <2>1 DEF copy, copy_refcnt
    <2>3. mrefs' \in [Metas -> Int]
      BY <1>3, <2>1 DEF copy, add_ref
    <2>4. shared' \in [Handles -> BOOLEAN]
      BY <1>3 DEF copy
    <2>5. /\ type' \in [Handles -> {"closed", "small", "long"}]
          /\ content' \in [Handles -> Contents \cup {Nil}]
          /\ meta' \in [Handles -> Metas \cup {Nil}]
          /\ live' \in SUBSET Contents
          /\ UNCHANGED <<engine, hand, rest, owed>>
      BY <1>3 DEF copy, Unused, close_live
    <2> QED
      BY <2>2, <2>3, <2>4, <2>5
  <1>4. ASSUME NEW h \in Handles, NEW m \in Metas, set_metadata(h, m)
        PROVE  TypeOK'
    BY <1>4 DEF set_metadata, Unused
  <1>5. ASSUME NEW m \in Metas, engine_gone(m)
        PROVE  TypeOK'
    BY <1>5 DEF engine_gone
  <1>6. ASSUME NEW h \in Handles, NEW n \in 1 .. MaxPipes, distribute(h, n)
        PROVE  TypeOK'
    <2>1. n \in Nat
      BY MsgAssumption
    <2>2. refcnt' \in [Contents -> Int]
      BY <1>0, <1>6, <2>1 DEF distribute, add_refs
    <2>3. hand' \in [content : Contents \cup {Nil}, shared : BOOLEAN, busy : BOOLEAN]
      BY <1>6 DEF distribute
    <2>4. mrefs' \in [Metas -> Int]
      BY <1>6 DEF distribute, drop_ref
    <2> QED
      BY <1>6, <2>1, <2>2, <2>3, <2>4 DEF distribute
  <1>7. ASSUME NEW d \in Handles, write(d)
        PROVE  TypeOK'
    <2>1. owed - 1 \in Nat /\ rest - 1 \in Nat
      BY <1>7 DEF write, ContentCounted
    <2> QED
      BY <1>7, <2>1 DEF write
  <1>8. CASE write_failed \/ distributed \/ UNCHANGED vars
    <2>1. CASE write_failed
      BY <2>1 DEF write_failed
    <2>2. CASE distributed
      BY <1>9, <2>2 DEF distributed, rm_refs, Idle
    <2>3. CASE UNCHANGED vars
      BY <2>3 DEF vars
    <2> QED
      BY <1>8, <2>1, <2>2, <2>3
  <1> QED
    BY <1>1, <1>2, <1>3, <1>4, <1>5, <1>6, <1>7, <1>8 DEF Next

(* Every step keeps the counts of the contents right.                      *)
LEMMA ContentStep ==
    ASSUME MsgInv, [Next]_vars
    PROVE  ContentCounted'
  <1> DEFINE k == hand.content
             ks == hand.shared
  <1>1. /\ Typed(content, shared, refcnt, live, k, ks, owed)
        /\ Good(content, shared, refcnt, live, k, ks, owed)
    BY DEF MsgInv, TypeOK, ContentCounted, Typed
  <1>2. TypeOK /\ TypeOK'
    BY TypeStep DEF MsgInv
  <1>3. /\ \A h \in Handles : content[h] # Nil <=> type[h] = "long"
        /\ hand.content # Nil <=> hand.busy
        /\ rest <= owed
        /\ ~hand.busy => owed = 0
    BY DEF MsgInv, ContentCounted
  <1>4. CASE UNCHANGED <<type, content, shared, refcnt, live, hand, owed>> /\ rest' <= owed
    BY ZenonT(40), <1>1, <1>3, <1>4 DEF ContentCounted, Good, GoodAt, Uses, Counts, Count
  <1>5. ASSUME NEW h \in Handles, init(h)
        PROVE  ContentCounted'
    <2>1. \A g \in Handles : content'[g] # Nil <=> type'[g] = "long"
      BY <1>2, <1>3, <1>5 DEF init, TypeOK
    <2> QED
      BY <1>1, <1>3, <1>5, <2>1 DEF init, Unused, ContentCounted
  <1>6. ASSUME NEW h \in Handles, init_size(h)
        PROVE  ContentCounted'
    <2>1. PICK c \in Contents \ live :
             /\ type' = [type EXCEPT ![h] = "long"]
             /\ content' = [content EXCEPT ![h] = c]
             /\ shared' = [shared EXCEPT ![h] = FALSE]
             /\ refcnt' = [refcnt EXCEPT ![c] = 0]
             /\ live' = live \cup {c}
      BY <1>6 DEF init_size
    <2>2. content[h] = Nil /\ UNCHANGED <<hand, rest, owed>>
      BY <1>2, <1>3, <1>6 DEF init_size, Unused
    <2>3. Good(content', shared', refcnt', live', k, ks, owed)
      BY <1>1, <2>1, <2>2, GoodNew
    <2>4. \A g \in Handles : content'[g] # Nil <=> type'[g] = "long"
      BY <1>2, <1>3, <2>1, MsgAssumption DEF TypeOK
    <2> QED
      BY <1>3, <2>2, <2>3, <2>4 DEF ContentCounted
  <1>7. ASSUME NEW h \in Handles
        PROVE  Good([content EXCEPT ![h] = Nil], [shared EXCEPT ![h] = FALSE],
                    close_refcnt(h), close_live(h), k, ks, owed)
    <2>1. close_refcnt(h) = IF content[h] # Nil /\ shared[h]
                            THEN [refcnt EXCEPT ![content[h]] = @ - 1] ELSE refcnt
      BY <1>3 DEF close_refcnt
    <2>2. close_live(h) = IF content[h] # Nil /\ (~shared[h] \/ refcnt[content[h]] = 1)
                          THEN live \ {content[h]} ELSE live
      BY <1>3 DEF close_live
    <2>3. Good([content EXCEPT ![h] = Nil], [shared EXCEPT ![h] = FALSE],
               IF content[h] # Nil /\ shared[h]
               THEN [refcnt EXCEPT ![content[h]] = @ - 1] ELSE refcnt,
               IF content[h] # Nil /\ (~shared[h] \/ refcnt[content[h]] = 1)
               THEN live \ {content[h]} ELSE live,
               k, ks, owed)
      BY ZenonT(40), <1>1, GoodDrop
    <2> QED
      BY ZenonT(40), <2>1, <2>2, <2>3
  <1>8. ASSUME NEW h \in Handles, close(h)
        PROVE  ContentCounted'
    <2>1. Good(content', shared', refcnt', live', k, ks, owed)
      BY <1>7, <1>8 DEF close
    <2>2. \A g \in Handles : content'[g] # Nil <=> type'[g] = "long"
      BY <1>2, <1>3, <1>8 DEF close, TypeOK
    <2> QED
      BY <1>3, <1>8, <2>1, <2>2 DEF close, Unused, ContentCounted
  <1>9. ASSUME NEW d \in Handles, NEW s \in Handles, d # s
        PROVE  LET f == [content EXCEPT ![d] = Nil]
                   sh == [shared EXCEPT ![d] = FALSE]
               IN /\ Typed(f, sh, close_refcnt(d), close_live(d), k, ks, owed)
                  /\ f[d] = Nil /\ f[s] = content[s] /\ sh[s] = shared[s]
    <2>1. close_refcnt(d) \in [Contents -> Int]
      BY <1>2, <1>3 DEF TypeOK, close_refcnt
    <2>2. close_live(d) \in SUBSET Contents
      BY <1>2 DEF TypeOK, close_live
    <2>3. /\ [content EXCEPT ![d] = Nil] \in [Handles -> Contents \cup {Nil}]
          /\ [shared EXCEPT ![d] = FALSE] \in [Handles -> BOOLEAN]
      BY <1>2 DEF TypeOK
    <2>4. k \in Contents \cup {Nil} /\ ks \in BOOLEAN /\ owed \in Nat
      BY <1>2 DEF TypeOK
    <2>5. LET f == [content EXCEPT ![d] = Nil]
              sh == [shared EXCEPT ![d] = FALSE]
          IN f[d] = Nil /\ f[s] = content[s] /\ sh[s] = shared[s]
      BY <1>2, <1>9 DEF TypeOK
    <2> QED
      BY <2>1, <2>2, <2>3, <2>4, <2>5 DEF Typed
  <1>10. ASSUME NEW d \in Handles, NEW s \in Handles, move(d, s)
         PROVE  ContentCounted'
    <2> DEFINE f == [content EXCEPT ![d] = Nil]
               sh == [shared EXCEPT ![d] = FALSE]
    <2>1. d # s
      BY <1>10 DEF move
    <2>2. Good([f EXCEPT ![d] = f[s], ![s] = Nil], [sh EXCEPT ![d] = sh[s], ![s] = FALSE],
               close_refcnt(d), close_live(d), k, ks, owed)
      <3>1. /\ Typed(f, sh, close_refcnt(d), close_live(d), k, ks, owed)
            /\ f[d] = Nil
        BY <1>9, <2>1
      <3>2. Good(f, sh, close_refcnt(d), close_live(d), k, ks, owed)
        BY <1>7
      <3> HIDE DEF f, sh
      <3> QED
        BY <2>1, <3>1, <3>2, GoodMove
    <2>3. /\ content' = [f EXCEPT ![d] = f[s], ![s] = Nil]
          /\ shared' = [sh EXCEPT ![d] = sh[s], ![s] = FALSE]
      BY <1>2, <1>10, <2>1 DEF move, TypeOK
    <2>4. Good(content', shared', refcnt', live', k, ks, owed)
      BY <1>10, <2>2, <2>3 DEF move
    <2>5. \A g \in Handles : content'[g] # Nil <=> type'[g] = "long"
      BY <1>2, <1>3, <1>10 DEF move, TypeOK
    <2> QED
      BY <1>3, <1>10, <2>4, <2>5 DEF move, Unused, ContentCounted
  <1>11. ASSUME NEW d \in Handles, NEW s \in Handles, copy(d, s)
         PROVE  ContentCounted'
    <2> DEFINE f == [content EXCEPT ![d] = Nil]
               sh == [shared EXCEPT ![d] = FALSE]
               r == close_refcnt(d)
    <2>1. d # s
      BY <1>11 DEF copy
    <2>2. /\ Typed(f, sh, r, close_live(d), k, ks, owed)
          /\ f[d] = Nil /\ f[s] = content[s] /\ sh[s] = shared[s]
          /\ Good(f, sh, r, close_live(d), k, ks, owed)
      BY <1>7, <1>9, <2>1
    <2>3. content' = [f EXCEPT ![d] = f[s]]
      BY <1>2, <1>11, <2>1 DEF copy, TypeOK
    <2>4. refcnt' = copy_refcnt(s, r) /\ live' = close_live(d)
      BY <1>11 DEF copy
    <2>5. ASSUME content[s] # Nil
          PROVE Good(content', shared', refcnt', live', k, ks, owed)
      <3>1. type[s] = "long"
        BY <1>3, <2>5
      <3>2. shared' = [sh EXCEPT ![d] = TRUE, ![s] = TRUE]
        BY <1>2, <1>11, <3>1 DEF copy, TypeOK
      <3>3. refcnt' = IF sh[s] THEN [r EXCEPT ![f[s]] = @ + 1] ELSE [r EXCEPT ![f[s]] = 2]
        BY <2>2, <2>4, <3>1 DEF copy_refcnt
      <3> HIDE DEF f, sh, r
      <3>4. Good([f EXCEPT ![d] = f[s]], [sh EXCEPT ![d] = TRUE, ![s] = TRUE],
                 IF sh[s] THEN [r EXCEPT ![f[s]] = @ + 1] ELSE [r EXCEPT ![f[s]] = 2],
                 close_live(d), k, ks, owed)
        BY <2>1, <2>2, <2>5, GoodCopy
      <3> QED
        BY <2>3, <2>4, <3>2, <3>3, <3>4
    <2>6. ASSUME content[s] = Nil
          PROVE Good(content', shared', refcnt', live', k, ks, owed)
      <3>1. type[s] # "long"
        BY <1>3, <2>6
      <3>2. refcnt' = r /\ content' = f
        BY <1>2, <2>2, <2>3, <2>4, <2>6, <3>1 DEF copy_refcnt, TypeOK
      <3>3. \A g \in Handles : content'[g] # Nil => shared'[g] = sh[g]
        BY <1>2, <1>11, <2>6, <3>2, <2>2 DEF copy, TypeOK
      <3>4. content'[d] = Nil /\ content'[s] = Nil
        BY <2>2, <2>6, <3>2
      <3>5. ASSUME NEW x \in live' PROVE GoodAt(content', shared', refcnt', k, ks, owed, x)
        <4>1. GoodAt(f, sh, r, k, ks, owed, x) /\ x # Nil
          BY <2>2, <2>4, <3>5, MsgAssumption DEF Good, Typed
        <4>2. \A g \in Handles : content'[g] = x => shared'[g] = sh[g]
          BY <3>3, <4>1
        <4> HIDE DEF f, sh, r
        <4> QED
          BY <3>2, <4>1, <4>2 DEF GoodAt
      <3> QED
        BY <2>2, <2>4, <3>2, <3>5 DEF Good
    <2>7. Good(content', shared', refcnt', live', k, ks, owed)
      BY <2>5, <2>6
    <2>8. \A g \in Handles : content'[g] # Nil <=> type'[g] = "long"
      BY <1>2, <1>3, <1>11 DEF copy, TypeOK
    <2> QED
      BY <1>3, <1>11, <2>7, <2>8 DEF copy, Unused, ContentCounted
  <1>12. ASSUME NEW h \in Handles, NEW n \in 1 .. MaxPipes, distribute(h, n)
         PROVE  ContentCounted'
    <2>1. n \in Nat \ {0} /\ content[h] # Nil /\ k = Nil /\ owed = 0
      <3>1. n \in Nat \ {0}
        BY MsgAssumption
      <3>2. ~hand.busy /\ type[h] = "long"
        BY Zenon, <1>12 DEF distribute
      <3> QED
        BY Zenon, <1>3, <3>1, <3>2
    <2>2. Typed(content, shared, refcnt, live, Nil, ks, 0) /\ Good(content, shared, refcnt, live, Nil, ks, 0)
      BY <1>1, <2>1
    <2>3. Good([content EXCEPT ![h] = Nil], [shared EXCEPT ![h] = FALSE],
               IF n - 1 = 0 THEN refcnt
               ELSE IF shared[h] THEN [refcnt EXCEPT ![content[h]] = @ + (n - 1)]
               ELSE [refcnt EXCEPT ![content[h]] = n - 1 + 1],
               live, content[h], shared[h] \/ n > 1, n)
      BY <2>1, <2>2, GoodDistribute
    <2>4. refcnt' = IF n - 1 = 0 THEN refcnt
                    ELSE IF shared[h] THEN [refcnt EXCEPT ![content[h]] = @ + (n - 1)]
                    ELSE [refcnt EXCEPT ![content[h]] = n - 1 + 1]
      BY <1>12 DEF distribute, add_refs
    <2>5. /\ content' = [content EXCEPT ![h] = Nil]
          /\ shared' = [shared EXCEPT ![h] = FALSE]
          /\ live' = live /\ owed' = n /\ rest' = n
          /\ hand'.content = content[h] /\ hand'.shared = (shared[h] \/ n > 1)
          /\ hand'.busy = TRUE
      BY <1>12 DEF distribute
    <2>6. Good(content', shared', refcnt', live', hand'.content, hand'.shared, owed')
      BY <2>3, <2>4, <2>5
    <2>7. \A g \in Handles : content'[g] # Nil <=> type'[g] = "long"
      BY <1>2, <1>3, <1>12 DEF distribute, TypeOK
    <2>8. rest' <= owed'
      <3>1. n \in Nat /\ rest' = n /\ owed' = n
        BY Zenon, <2>1, <2>5
      <3> QED
        BY <3>1
    <2>9. hand'.content # Nil /\ hand'.busy
      BY Zenon, <2>1, <2>5
    <2> QED
      BY Zenon, <2>6, <2>7, <2>8, <2>9 DEF ContentCounted
  <1>13. ASSUME NEW d \in Handles, write(d)
         PROVE  ContentCounted'
    <2>1. k # Nil /\ content[d] = Nil /\ owed > 0 /\ rest' <= owed' /\ owed' = owed - 1
      BY <1>2, <1>3, <1>13 DEF write, TypeOK
    <2>2. Good(content', shared', refcnt', live', k, ks, owed - 1)
      BY <1>1, <1>13, <2>1, GoodWrite DEF write
    <2>3. \A g \in Handles : content'[g] # Nil <=> type'[g] = "long"
      BY <1>2, <1>3, <1>13, <2>1 DEF write, TypeOK
    <2> QED
      BY <1>3, <1>13, <2>1, <2>2, <2>3 DEF write, ContentCounted
  <1>14. CASE distributed
    <2>1. k # Nil
      BY <1>3, <1>14 DEF distributed
    <2>2. Good(content, shared, IF owed > 0 /\ ks THEN [refcnt EXCEPT ![k] = @ - owed] ELSE refcnt,
               IF owed > 0 /\ (~ks \/ refcnt[k] = owed) THEN live \ {k} ELSE live, Nil, FALSE, 0)
      BY <1>1, <2>1, GoodDone
    <2>3. /\ UNCHANGED <<type, content, shared, rest>> /\ rest = 0 /\ owed' = 0
          /\ hand'.content = Nil /\ hand'.shared = FALSE /\ hand'.busy = FALSE
          /\ refcnt' = IF owed > 0 /\ ks THEN [refcnt EXCEPT ![k] = @ - owed] ELSE refcnt
          /\ live' = IF owed > 0 /\ (~ks \/ refcnt[k] = owed) THEN live \ {k} ELSE live
      BY <1>14 DEF distributed, rm_refs, Idle
    <2>4. Good(content', shared', refcnt', live', hand'.content, hand'.shared, owed')
      BY <2>2, <2>3
    <2>5. rest' <= owed'
      <3>1. rest' = 0 /\ owed' = 0
        BY Zenon, <2>3
      <3> QED
        BY <3>1
    <2>6. \A h \in Handles : content'[h] # Nil <=> type'[h] = "long"
      BY Zenon, <1>3, <2>3
    <2>7. hand'.content = Nil /\ ~hand'.busy /\ owed' = 0
      BY Zenon, <2>3
    <2> QED
      BY Zenon, <2>4, <2>5, <2>6, <2>7 DEF ContentCounted
  <1>15. ASSUME NEW h \in Handles, NEW m \in Metas, reset_metadata(h) \/ set_metadata(h, m)
         PROVE  ContentCounted'
    BY <1>3, <1>4, <1>15 DEF reset_metadata, set_metadata, Unused
  <1>16. ASSUME NEW h \in Handles, reset_metadata(h)
         PROVE  ContentCounted'
    BY <1>3, <1>4, <1>16 DEF reset_metadata, Unused
  <1>17. ASSUME NEW m \in Metas, engine_gone(m)
         PROVE  ContentCounted'
    BY <1>3, <1>4, <1>17 DEF engine_gone
  <1>18. CASE write_failed
    <2>1. rest' <= owed
      BY <1>2, <1>3, <1>18 DEF write_failed, TypeOK
    <2> QED
      BY <1>4, <1>18, <2>1 DEF write_failed
  <1>19. CASE UNCHANGED vars
    BY <1>3, <1>4, <1>19 DEF vars
  <1> QED
    BY <1>5, <1>6, <1>8, <1>10, <1>11, <1>12, <1>13, <1>14, <1>15, <1>16, <1>17, <1>18, <1>19
    DEF Next

(* For any number of messages, contents, engines and pipes: the content    *)
(* and the metadata of messages are counted right after any sequence of    *)
(* init, copy, move, close and distribution, so that nothing is freed      *)
(* while a message refers to it and nothing that no message refers to      *)
(* stays allocated.                                                        *)
THEOREM Counted == Spec => []MsgInv
  <1>1. Init => MsgInv
    BY InitMsgInv
  <1>2. MsgInv /\ [Next]_vars => MsgInv'
    <2> SUFFICES ASSUME MsgInv, [Next]_vars PROVE MsgInv'
      OBVIOUS
    <2> QED
      BY TypeStep, ContentStep, MetadataStep DEF MsgInv
  <1> QED
    BY <1>1, <1>2, PTL DEF Spec
=============================================================================
