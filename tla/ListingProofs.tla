---------------------------- MODULE ListingProofs ----------------------------
(***************************************************************************)
(* The range of the index that a prefix selects (prefix_range, index.rs)   *)
(* holds the strings that begin with the prefix and no others, whatever    *)
(* bytes they are made of; and what list_folder (lib.rs) computes from     *)
(* that range, over bytes, is the listing over names.                      *)
(***************************************************************************)
EXTENDS ListingRefinement, BloxtreeCliProofs, FunctionTheorems, WellFoundedInduction

-----------------------------------------------------------------------------
(* The range of a prefix.                                                  *)

\* s begins with p, byte by byte.
Begins(s, p) == Len(p) <= Len(s) /\ \A j \in 1..Len(p) : s[j] = p[j]

\* Byte by byte is what IsPrefix says.
LEMMA BeginsIsPrefix ==
  ASSUME NEW S, NEW s \in Seq(S), NEW p \in Seq(S)
  PROVE  Begins(s, p) <=> IsPrefix(p, s)
<1>1. ASSUME Begins(s, p) PROVE IsPrefix(p, s)
  <2>1. Len(p) <= Len(s)
    BY <1>1 DEF Begins
  <2>2. Len(SubSeq(p, 1, Len(p))) = Len(p) /\ Len(SubSeq(s, 1, Len(p))) = Len(p)
    BY <2>1
  <2>3. \A j \in 1..Len(p) : SubSeq(p, 1, Len(p))[j] = p[j] /\ SubSeq(s, 1, Len(p))[j] = s[j]
    BY <2>1
  <2>4. SubSeq(p, 1, Len(p)) = SubSeq(s, 1, Len(p))
    BY <1>1, <2>1, <2>2, <2>3 DEF Begins
  <2> QED
    BY <2>1, <2>4 DEF IsPrefix
<1>2. ASSUME IsPrefix(p, s) PROVE Begins(s, p)
  <2>1. Len(p) <= Len(s) /\ SubSeq(p, 1, Len(p)) = SubSeq(s, 1, Len(p))
    BY <1>2 DEF IsPrefix
  <2>2. \A j \in 1..Len(p) : SubSeq(p, 1, Len(p))[j] = p[j] /\ SubSeq(s, 1, Len(p))[j] = s[j]
    BY <2>1
  <2> QED
    BY <2>1, <2>2 DEF Begins
<1> QED
  BY <1>1, <1>2

LEMMA IntervalIsInt ==
  \A x \in 0..244 : x \in Int /\ 0 <= x /\ x <= 244
OBVIOUS

LEMMA NothingBetween ==
  \A x, y \in Int : x < y + 1 /\ ~(x < y) => x = y
OBVIOUS

\* The bytes of a string are numbers below 245, and none of them wraps around
\* when it is incremented.
LEMMA BytesAreNumbers ==
  ASSUME NEW s \in Seq(Byte)
  PROVE  Len(s) \in Nat /\ \A j \in 1..Len(s) : s[j] \in Int /\ 0 <= s[j] /\ s[j] <= 244
<1>1. Byte \subseteq 0..244
  BY ByteAssumption DEF ByteAssumption
<1>2. ASSUME NEW j \in 1..Len(s) PROVE s[j] \in Int /\ 0 <= s[j] /\ s[j] <= 244
  <2>1. s[j] \in Byte
    OBVIOUS
  <2> QED
    BY <1>1, <2>1, IntervalIsInt, Zenon
<1>3. Len(s) \in Nat
  OBVIOUS
<1> QED
  BY <1>2, <1>3

LEMMA NoWrapAround ==
  \A x \in Int : 0 <= x /\ x <= 244 => (x + 1) % 256 = x + 1
OBVIOUS

\* The end of the range of a prefix that is not empty differs from it in its
\* last byte only, and there by one: no byte of UTF-8 wraps around.
LEMMA RangeEndBytes ==
  ASSUME NEW p \in Seq(Byte), p # <<>>
  PROVE  LET e == RangeEnd(p) IN
         /\ Len(e) = Len(p)
         /\ Len(p) \in Nat \ {0}
         /\ \A j \in 1..(Len(p) - 1) : e[j] = p[j]
         /\ e[Len(p)] = p[Len(p)] + 1
<1>1. Len(p) \in Nat \ {0}
  OBVIOUS
<1>2. p[Len(p)] \in Int /\ 0 <= p[Len(p)] /\ p[Len(p)] <= 244
  BY <1>1, BytesAreNumbers
<1>3. (p[Len(p)] + 1) % 256 = p[Len(p)] + 1
  BY <1>2, NoWrapAround
<1>4. RangeEnd(p) = [p EXCEPT ![Len(p)] = p[Len(p)] + 1]
  BY <1>3 DEF RangeEnd
<1>5. DOMAIN p = 1..Len(p)
  OBVIOUS
<1>6. DOMAIN RangeEnd(p) = 1..Len(p) /\ Len(RangeEnd(p)) = Len(p)
  BY <1>4, <1>5
<1>7. RangeEnd(p)[Len(p)] = p[Len(p)] + 1
  BY <1>1, <1>4, <1>5
<1>8. ASSUME NEW j \in 1..(Len(p) - 1) PROVE RangeEnd(p)[j] = p[j]
  <2>1. j \in 1..Len(p) /\ j # Len(p)
    BY <1>1
  <2> QED
    BY <1>4, <1>5, <2>1
<1> QED
  BY <1>1, <1>6, <1>7, <1>8

\* What begins with p is not less than p.
LEMMA NotBelow ==
  ASSUME NEW s \in Seq(Byte), NEW p \in Seq(Byte), Begins(s, p)
  PROVE  ~Less(s, p)
<1> SUFFICES ASSUME NEW i \in 1..Len(p), i <= Len(s) + 1, i <= Len(s) => s[i] < p[i]
             PROVE  FALSE
  BY DEF Less
<1>1. i <= Len(s) /\ s[i] = p[i]
  BY BytesAreNumbers DEF Begins
<1>2. p[i] \in Int
  BY BytesAreNumbers
<1>3. p[i] < p[i]
  BY <1>1
<1> QED
  BY <1>2, <1>3

\* The range of a prefix holds exactly the strings that begin with it: the
\* paths between prefix_range's start and end.
THEOREM PrefixRangeExact ==
  ASSUME NEW s \in Seq(Byte), NEW p \in Seq(Byte)
  PROVE  InRange(s, p) <=> IsPrefix(p, s)
<1> SUFFICES InRange(s, p) <=> Begins(s, p)
  BY BeginsIsPrefix
<1> DEFINE n == Len(p)
           e == RangeEnd(p)
<1>0. /\ Len(s) \in Nat /\ n \in Nat
      /\ \A j \in 1..Len(s) : s[j] \in Int /\ 0 <= s[j] /\ s[j] <= 244
      /\ \A j \in 1..n : p[j] \in Int /\ 0 <= p[j] /\ p[j] <= 244
  BY BytesAreNumbers
<1>1. CASE p = <<>>
  <2>1. Begins(s, p) /\ e = <<255>>
    BY <1>1 DEF Begins, RangeEnd
  <2>2. Less(s, e)
    <3>1. Len(e) = 1 /\ e[1] = 255
      BY <2>1
    <3>2. 1 \in 1..Len(e) /\ 1 <= Len(s) + 1 /\ (\A j \in 1..(1 - 1) : s[j] = e[j])
      BY <1>0, <3>1
    <3>3. ASSUME 1 <= Len(s) PROVE s[1] < e[1]
      <4>1. s[1] \in Int /\ s[1] <= 244
        BY <1>0, <3>3
      <4> QED
        BY <3>1, <4>1
    <3> QED
      BY <3>2, <3>3 DEF Less
  <2> QED
    BY <2>1, <2>2, NotBelow DEF InRange
<1>2. CASE p # <<>>
  <2>1. /\ Len(e) = n /\ n \in Nat \ {0}
        /\ \A j \in 1..(n - 1) : e[j] = p[j]
        /\ e[n] = p[n] + 1
    BY <1>2, RangeEndBytes
  <2>2. ASSUME Begins(s, p) PROVE Less(s, e)
    <3>1. n \in 1..Len(e) /\ n <= Len(s) /\ s[n] = p[n]
      BY <2>1, <2>2 DEF Begins
    <3>9. p[n] \in Int /\ e[n] = p[n] + 1
      BY <1>0, <2>1
    <3>2. \A j \in 1..(n - 1) : s[j] = e[j]
      BY <1>0, <2>1, <2>2 DEF Begins
    <3>3. s[n] < e[n]
      BY <3>9, <3>1
    <3> HIDE DEF e, n
    <3>4. \E i \in 1..Len(e) :
            /\ i <= Len(s) + 1
            /\ \A j \in 1..(i - 1) : s[j] = e[j]
            /\ i <= Len(s) => s[i] < e[i]
      <4>1. n <= Len(s) + 1
        BY <1>0, <3>1
      <4> QED
        BY <3>1, <4>1, <3>2, <3>3
    <3> QED
      BY <3>4 DEF Less
  <2>3. ASSUME Less(s, e), ~Less(s, p) PROVE Begins(s, p)
    <3> HIDE DEF e, n
    <3>1. PICK i \in 1..Len(e) : /\ i <= Len(s) + 1
                                 /\ \A j \in 1..(i - 1) : s[j] = e[j]
                                 /\ i <= Len(s) => s[i] < e[i]
      BY <2>3 DEF Less
    <3>2. i \in 1..n /\ n = Len(p) /\ i \in Int
      BY <2>1, <3>1 DEF n
    <3>3. \A j \in 1..(i - 1) : s[j] = p[j]
      BY <2>1, <3>1, <3>2
    <3>4. i <= Len(s) /\ ~(s[i] < p[i])
      BY <1>0, <2>3, <3>1, <3>2, <3>3 DEF Less
    <3>5. i = n
      <4> SUFFICES ASSUME i # n PROVE FALSE
        OBVIOUS
      <4>1. i \in 1..(n - 1) /\ i \in 1..Len(p)
        BY <1>0, <3>2
      <4>2. e[i] = p[i] /\ s[i] < e[i]
        BY <2>1, <3>1, <3>4, <4>1
      <4> QED
        BY <3>4, <4>2
    <3>6. s[n] = p[n]
      <4>1. n \in 1..Len(s) /\ n \in 1..Len(p)
        BY <1>0, <3>2, <3>4, <3>5
      <4>2. s[n] \in Int /\ p[n] \in Int
        BY <1>0, <4>1 DEF n
      <4>3. s[n] < p[n] + 1 /\ ~(s[n] < p[n])
        BY <2>1, <3>1, <3>4, <3>5
      <4> QED
        BY <4>2, <4>3, NothingBetween, Zenon
    <3> QED
      BY <1>0, <3>2, <3>3, <3>4, <3>5, <3>6 DEF Begins
  <2> QED
    BY <2>2, <2>3, NotBelow DEF InRange
<1> QED
  BY <1>1, <1>2

\* What list_folder reads for a folder are the rows whose paths begin with the
\* folder's name and a slash, for the root all rows: a sibling whose next byte
\* sorts beside the slash is never among them.
THEOREM EntriesAreBelow ==
  ASSUME NEW table, NEW f \in Seq(Byte), Slash \in Byte,
         \A r \in table : r.path \in Seq(Byte)
  PROVE  {r \in table : InRange(r.path, FolderPrefix(f))}
           = {r \in table : IsPrefix(FolderPrefix(f), r.path)}
<1>1. FolderPrefix(f) \in Seq(Byte)
  BY DEF FolderPrefix
<1>2. ASSUME NEW r \in table
      PROVE  InRange(r.path, FolderPrefix(f)) <=> IsPrefix(FolderPrefix(f), r.path)
  <2>1. r.path \in Seq(Byte)
    OBVIOUS
  <2> QED
    BY <1>1, <2>1, PrefixRangeExact
<1> QED
  BY <1>2

-----------------------------------------------------------------------------
(* The least of a set of numbers, for proofs by the least counterexample.  *)

LEMMA LeastNumber ==
  ASSUME NEW T \in SUBSET Nat, T # {}
  PROVE  \E x \in T : \A y \in T : x <= y
<1> DEFINE Smaller == OpToRel(<, Nat)
<1>1. IsWellFoundedOn(Smaller, Nat)
  BY NatLessThanWellFounded
<1>2. \A y, x \in Nat : y < x => <<y, x>> \in Smaller
  BY Zenon DEF OpToRel
<1> HIDE DEF Smaller
<1>3. PICK x \in T : \A y \in T : ~(<<y, x>> \in Smaller)
  BY <1>1, WFMin
<1>4. ASSUME NEW y \in T PROVE x <= y
  <2>1. y \in Nat /\ x \in Nat /\ ~(y < x)
    BY <1>2, <1>3
  <2> QED
    BY <2>1
<1> QED
  BY <1>4

-----------------------------------------------------------------------------
(* Joining names.                                                          *)

\* f is the function that FlattenSeq defines recursively over the first n of s.
Flattens(f, s, n) == f = [i \in 1..n |-> IF i = 1 THEN s[i] ELSE f[i - 1] \o s[i]]

\* Each of its values is the one before it with the next string appended.
LEMMA FlattenAt ==
  ASSUME NEW f, NEW s, NEW n \in Nat, Flattens(f, s, n), NEW i \in 1..n
  PROVE  f[i] = IF i = 1 THEN s[i] ELSE f[i - 1] \o s[i]
<1> DEFINE e(j) == IF j = 1 THEN s[j] ELSE f[j - 1] \o s[j]
<1>1. f = [j \in 1..n |-> e(j)]
  BY DEF Flattens
<1> HIDE DEF e
<1>2. f[i] = e(i)
  BY <1>1, Zenon
<1> QED
  BY <1>2 DEF e

\* There is one, for sequences of every length.
LEMMA FlattenExists ==
  ASSUME NEW s, NEW n \in Nat
  PROVE  \E f : Flattens(f, s, n)
<1> DEFINE Bad == {m \in Nat : ~\E f : Flattens(f, s, m)}
<1> SUFFICES ASSUME Bad # {} PROVE FALSE
  OBVIOUS
<1>1. PICK m \in Bad : \A k \in Bad : m <= k
  <2>1. Bad \in SUBSET Nat
    OBVIOUS
  <2> QED
    BY <2>1, LeastNumber
<1>2. CASE m = 0
  <2>1. Flattens([i \in 1..0 |-> s], s, 0)
    BY DEF Flattens
  <2> QED
    BY <1>1, <1>2, <2>1
<1>3. CASE m # 0
  <2>1. m \in Nat /\ m - 1 \in Nat /\ m - 1 \notin Bad
    BY <1>1, <1>3
  <2>2. PICK g : Flattens(g, s, m - 1)
    BY <2>1
  <2> DEFINE f == [i \in 1..m |-> IF i < m THEN g[i] ELSE IF m = 1 THEN s[m] ELSE g[m - 1] \o s[m]]
  <2>3. ASSUME NEW i \in 1..m PROVE f[i] = IF i = 1 THEN s[i] ELSE f[i - 1] \o s[i]
    <3>1. CASE i < m
      <4>1. i \in 1..(m - 1) /\ f[i] = g[i]
        BY <2>1, <3>1
      <4>2. g[i] = IF i = 1 THEN s[i] ELSE g[i - 1] \o s[i]
        BY <2>1, <2>2, <4>1, FlattenAt
      <4>3. i # 1 => i - 1 \in 1..m /\ i - 1 < m /\ f[i - 1] = g[i - 1]
        BY <2>1, <3>1
      <4> QED
        BY <4>1, <4>2, <4>3
    <3>2. CASE ~(i < m)
      <4>1. i = m /\ f[i] = IF m = 1 THEN s[m] ELSE g[m - 1] \o s[m]
        BY <2>1, <3>2
      <4>2. m # 1 => m - 1 \in 1..m /\ m - 1 < m /\ f[m - 1] = g[m - 1]
        BY <2>1
      <4> QED
        BY <4>1, <4>2
    <3> QED
      BY <3>1, <3>2
  <2>4. f = [i \in 1..m |-> f[i]]
    OBVIOUS
  <2> HIDE DEF f
  <2>5. f = [i \in 1..m |-> IF i = 1 THEN s[i] ELSE f[i - 1] \o s[i]]
    BY <2>3, <2>4
  <2>6. Flattens(f, s, m)
    BY <2>5 DEF Flattens
  <2> QED
    BY <1>1, <2>6
<1> QED
  BY <1>2, <1>3

\* Two such functions agree where they read the same sequence.
LEMMA FlattenUnique ==
  ASSUME NEW f, NEW s, NEW n \in Nat, Flattens(f, s, n),
         NEW g, NEW t, NEW m \in Nat, Flattens(g, t, m),
         n <= m, \A i \in 1..n : s[i] = t[i]
  PROVE  \A i \in 1..n : f[i] = g[i]
<1> DEFINE Bad == {i \in 1..n : f[i] # g[i]}
<1> SUFFICES ASSUME Bad # {} PROVE FALSE
  OBVIOUS
<1>1. PICK i \in Bad : \A k \in Bad : i <= k
  <2>1. Bad \in SUBSET Nat
    OBVIOUS
  <2> QED
    BY <2>1, LeastNumber
<1>2. /\ i \in 1..n /\ i \in 1..m /\ s[i] = t[i]
      /\ f[i] = IF i = 1 THEN s[i] ELSE f[i - 1] \o s[i]
      /\ g[i] = IF i = 1 THEN t[i] ELSE g[i - 1] \o t[i]
  <2>1. i \in 1..n /\ i \in 1..m /\ s[i] = t[i]
    OBVIOUS
  <2>2. f[i] = IF i = 1 THEN s[i] ELSE f[i - 1] \o s[i]
    BY <2>1, FlattenAt
  <2>3. g[i] = IF i = 1 THEN t[i] ELSE g[i - 1] \o t[i]
    BY <2>1, FlattenAt
  <2> QED
    BY <2>1, <2>2, <2>3
<1>3. i # 1 => f[i - 1] = g[i - 1]
  <2>1. i # 1 => i - 1 \in 1..n /\ i - 1 \notin Bad
    BY <1>1, <1>2
  <2> QED
    BY <2>1
<1> QED
  BY <1>1, <1>2, <1>3

\* FlattenSeq returns its last value.
LEMMA FlattenOne ==
  ASSUME NEW S, NEW s \in Seq(S), s # <<>>
  PROVE  \E f : Flattens(f, s, Len(s)) /\ FlattenSeq(s) = f[Len(s)]
<1> DEFINE f == CHOOSE f : Flattens(f, s, Len(s))
<1>1. Len(s) \in Nat /\ Len(s) # 0
  OBVIOUS
<1>2. Flattens(f, s, Len(s))
  BY <1>1, FlattenExists
<1>3. FlattenSeq(s) = f[Len(s)]
  BY <1>1 DEF FlattenSeq, Flattens
<1> QED
  BY <1>2, <1>3

\* What is flattened last comes last.
LEMMA FlattenAppend ==
  ASSUME NEW S, NEW s \in Seq(Seq(S)), NEW t \in Seq(S), FlattenSeq(s) \in Seq(S)
  PROVE  FlattenSeq(Append(s, t)) = FlattenSeq(s) \o t
<1> DEFINE u == Append(s, t)
           n == Len(s)
<1>1. /\ n \in Nat /\ u \in Seq(Seq(S)) /\ u # <<>> /\ Len(u) = n + 1
      /\ \A i \in 1..n : s[i] = u[i]
      /\ u[n + 1] = t
  BY AppendProperties
<1>2. PICK g : Flattens(g, u, n + 1) /\ FlattenSeq(u) = g[n + 1]
  BY <1>1, FlattenOne
<1>3. g[n + 1] = IF n + 1 = 1 THEN u[n + 1] ELSE g[(n + 1) - 1] \o u[n + 1]
  <2>1. n + 1 \in Nat /\ n + 1 \in 1..(n + 1)
    BY <1>1
  <2> HIDE DEF n, u
  <2> QED
    BY <1>2, <2>1, FlattenAt
<1>4. CASE n = 0
  <2>1. s = <<>> /\ FlattenSeq(s) = <<>>
    BY <1>4 DEF FlattenSeq
  <2>2. <<>> \o t = t
    OBVIOUS
  <2> QED
    BY <1>1, <1>2, <1>3, <1>4, <2>1, <2>2
<1>5. CASE n # 0
  <2>1. s # <<>>
    BY <1>5
  <2>2. PICK f : Flattens(f, s, n) /\ FlattenSeq(s) = f[n]
    BY <2>1, FlattenOne
  <2>3. n + 1 \in Nat /\ n <= n + 1 /\ n \in 1..n /\ (n + 1) - 1 = n /\ n + 1 # 1
    BY <1>1, <1>5
  <2> HIDE DEF u, n
  <2>4. f[n] = g[n]
    <3>1. \A i \in 1..n : f[i] = g[i]
      <4>1. Flattens(f, s, n) /\ Flattens(g, u, n + 1) /\ \A i \in 1..n : s[i] = u[i]
        BY <1>1, <1>2, <2>2
      <4>2. n \in Nat /\ n + 1 \in Nat /\ n <= n + 1
        BY <1>1, <2>3
      <4> QED
        <5> DEFINE m == n + 1
        <5>1. m \in Nat /\ n <= m /\ Flattens(g, u, m)
          BY <4>1, <4>2
        <5> HIDE DEF m
        <5>2. n \in Nat /\ Flattens(f, s, n) /\ \A i \in 1..n : s[i] = u[i]
          BY <4>1, <4>2
        <5> QED
          BY <5>1, <5>2, FlattenUnique
    <3> QED
      BY <2>3, <3>1
  <2>5. g[n + 1] = g[n] \o t
    BY <1>1, <1>3, <2>3
  <2> QED
    BY <1>2, <2>2, <2>4, <2>5 DEF u
<1> QED
  BY <1>4, <1>5

\* What the recursive definition of a path joins: a slash and a name each.
Flat(x) == FlattenSeq([i \in DOMAIN x |-> <<Slash>> \o x[i].base])

\* A name with the slash that ends it, and a path with one after each name.
Code(n) == n.base \o <<Slash>>
Closed(x) == FolderPrefix(Join(x))

LEMMA NamesAreBytes ==
  ASSUME NEW n \in Folder!Name
  PROVE  /\ n.base \in Seq(Byte) /\ Len(n.base) \in Nat \ {0}
         /\ \A j \in 1..Len(n.base) : n.base[j] # Slash
         /\ Slash \in Byte /\ <<Slash>> \in Seq(Byte)
         /\ <<Slash>> \o n.base \in Seq(Byte) /\ Code(n) \in Seq(Byte)
<1>1. n.base \in Names
  BY DEF Folder!Name
<1>2. n.base \in Seq(Byte) /\ n.base # <<>> /\ Slash \notin Range(n.base) /\ Slash \in Byte
  BY <1>1, NamesAssumption DEF NamesAssumption
<1>3. \A j \in 1..Len(n.base) : n.base[j] \in Range(n.base)
  BY <1>2 DEF Range
<1>4. Len(n.base) \in Nat \ {0} /\ <<Slash>> \in Seq(Byte)
  BY <1>2
<1>5. <<Slash>> \o n.base \in Seq(Byte) /\ Code(n) \in Seq(Byte)
  BY <1>2, <1>4, ConcatProperties DEF Code
<1> QED
  BY <1>2, <1>3, <1>4, <1>5

\* A name is its bytes.
LEMMA SameBase ==
  ASSUME NEW n \in Folder!Name, NEW m \in Folder!Name, n.base = m.base
  PROVE  n = m
BY DEF Folder!Name

\* One more name appends a slash and the name.
LEMMA FlatAppend ==
  ASSUME NEW x \in Seq(Folder!Name), NEW n \in Folder!Name, Flat(x) \in Seq(Byte)
  PROVE  Flat(Append(x, n)) = Flat(x) \o (<<Slash>> \o n.base)
<1> DEFINE s == [i \in DOMAIN x |-> <<Slash>> \o x[i].base]
           t == <<Slash>> \o n.base
           u == [i \in DOMAIN Append(x, n) |-> <<Slash>> \o Append(x, n)[i].base]
<1>1. t \in Seq(Byte)
  BY NamesAreBytes
<1>2. DOMAIN x = 1..Len(x) /\ Len(x) \in Nat /\ \A i \in 1..Len(x) : x[i] \in Folder!Name
  BY LenProperties, ElementOfSeq
<1>3. s \in Seq(Seq(Byte)) /\ Len(s) = Len(x)
  <2>1. \A i \in 1..Len(x) : <<Slash>> \o x[i].base \in Seq(Byte)
    BY <1>2, NamesAreBytes
  <2> QED
    BY <1>2, <2>1
<1>4. u = Append(s, t)
  <2>1. /\ Append(x, n) \in Seq(Folder!Name) /\ Len(Append(x, n)) = Len(x) + 1
        /\ \A i \in 1..Len(x) : Append(x, n)[i] = x[i]
        /\ Append(x, n)[Len(x) + 1] = n
    BY AppendProperties
  <2>2. DOMAIN Append(x, n) = 1..(Len(x) + 1)
    BY <2>1, LenProperties
  <2>3. /\ Append(s, t) \in Seq(Seq(Byte)) /\ Len(Append(s, t)) = Len(x) + 1
        /\ \A i \in 1..Len(x) : Append(s, t)[i] = s[i]
        /\ Append(s, t)[Len(x) + 1] = t
    <3> HIDE DEF s, t
    <3> QED
      BY <1>1, <1>3, AppendProperties
  <2>4. Append(s, t) = [i \in 1..(Len(x) + 1) |-> Append(s, t)[i]]
    <3> HIDE DEF s, t
    <3> QED
      BY <2>3, LenProperties
  <2>5. ASSUME NEW i \in 1..(Len(x) + 1) PROVE Append(s, t)[i] = <<Slash>> \o Append(x, n)[i].base
    <3>1. CASE i \in 1..Len(x)
      BY <1>2, <2>1, <2>3, <3>1
    <3>2. CASE i = Len(x) + 1
      BY <2>1, <2>3, <3>2
    <3> QED
      BY <1>2, <3>1, <3>2
  <2> QED
    BY <2>2, <2>4, <2>5
<1> HIDE DEF s, t
<1>5. FlattenSeq(Append(s, t)) = FlattenSeq(s) \o t
  BY <1>1, <1>3, FlattenAppend DEF Flat, s
<1> QED
  BY <1>4, <1>5 DEF Flat, s, t

LEMMA FlatEmpty == Flat(<<>>) = <<>>
<1>1. [i \in DOMAIN <<>> |-> <<Slash>> \o <<>>[i].base] = <<>>
  OBVIOUS
<1> QED
  BY <1>1 DEF Flat, FlattenSeq

LEMMA FlatTyped ==
  \A x \in Seq(Folder!Name) : Flat(x) \in Seq(Byte) /\ (x # <<>> => Flat(x) # <<>>)
<1> DEFINE Good(x) == Flat(x) \in Seq(Byte) /\ (x # <<>> => Flat(x) # <<>>)
           Bad == {k \in Nat : \E x \in Seq(Folder!Name) : Len(x) = k /\ ~Good(x)}
<1>0. ASSUME Bad = {} PROVE \A x \in Seq(Folder!Name) : Good(x)
  BY <1>0
<1> SUFFICES ASSUME Bad # {} PROVE FALSE
  BY <1>0
<1>1. PICK k \in Bad : \A l \in Bad : k <= l
  <2>1. Bad \in SUBSET Nat
    OBVIOUS
  <2> QED
    BY <2>1, LeastNumber
<1>2. PICK x \in Seq(Folder!Name) : Len(x) = k /\ ~Good(x)
  BY <1>1
<1>3. CASE x = <<>>
  BY <1>2, <1>3, FlatEmpty
<1>4. CASE x # <<>>
  <2>1. PICK y \in Seq(Folder!Name), n \in Folder!Name : x = Append(y, n)
    BY <1>4, SequenceEmptyOrAppend
  <2>2. Len(y) \in Nat /\ Len(y) < k
    BY <1>2, <2>1, AppendProperties
  <2>3. Good(y)
    BY <1>1, <2>2
  <2>4. Flat(x) = Flat(y) \o (<<Slash>> \o n.base)
    BY <2>1, <2>3, FlatAppend
  <2>5. <<Slash>> \o n.base \in Seq(Byte) /\ <<Slash>> \o n.base # <<>>
    BY NamesAreBytes
  <2> QED
    BY <1>2, <2>3, <2>4, <2>5, ConcatProperties, ConcatEqualIffEmpty
<1> QED
  BY <1>3, <1>4

\* Joined paths are strings of bytes, and a folder's prefix is its names with a
\* slash after each.
LEMMA JoinAppend ==
  ASSUME NEW x \in Seq(Folder!Name), NEW n \in Folder!Name
  PROVE  /\ Join(Append(x, n)) = Closed(x) \o n.base
         /\ Closed(Append(x, n)) = Closed(x) \o Code(n)
         /\ Join(Append(x, n)) \in Seq(Byte) /\ Join(Append(x, n)) # <<>>
         /\ Closed(x) \in Seq(Byte)
<1> DEFINE Good(y) == Join(y) \in Seq(Byte) /\ (y # <<>> => Join(y) # <<>>)
           Plus(y, m) == Join(Append(y, m)) = Closed(y) \o m.base
<1>1. ASSUME NEW y \in Seq(Folder!Name), NEW m \in Folder!Name
      PROVE  Join(Append(y, m)) = IF y = <<>> THEN m.base ELSE Tail(Flat(y)) \o (<<Slash>> \o m.base)
  <2>1. Append(y, m) # <<>> /\ Append(y, m) \in Seq(Folder!Name)
    BY AppendProperties
  <2>2. /\ Flat(y) \in Seq(Byte) /\ <<Slash>> \o m.base \in Seq(Byte) /\ m.base \in Seq(Byte)
        /\ Flat(Append(y, m)) = Flat(y) \o (<<Slash>> \o m.base)
    BY FlatTyped, FlatAppend, NamesAreBytes
  <2>3. Join(Append(y, m)) = Tail(Flat(y) \o (<<Slash>> \o m.base))
    BY <2>1, <2>2 DEF Join, Flat
  <2>4. CASE y = <<>>
    <3>1. Flat(y) \o (<<Slash>> \o m.base) = <<Slash>> \o m.base
      BY <2>2, <2>4, FlatEmpty, ConcatEmptySeq
    <3>2. ASSUME NEW S, NEW e \in S, NEW b \in Seq(S) PROVE Tail(<<e>> \o b) = b
      <4>1. Len(<<e>> \o b) = Len(b) + 1 /\ \A i \in 1..Len(b) : (<<e>> \o b)[i + 1] = b[i]
        OBVIOUS
      <4>2. <<e>> \o b \in Seq(S) /\ <<e>> \o b # <<>>
        OBVIOUS
      <4> QED
        BY <4>1, <4>2
    <3>4. Tail(<<Slash>> \o m.base) = m.base
      BY <2>2, <3>2, NamesAreBytes
    <3> QED
      BY <2>3, <2>4, <3>1, <3>4
  <2>5. CASE y # <<>>
    <3>1. Flat(y) # <<>>
      BY <2>5, FlatTyped
    <3>2. ASSUME NEW a \in Seq(Byte), NEW b \in Seq(Byte), a # <<>>
          PROVE  Tail(a \o b) = Tail(a) \o b
      BY <3>2
    <3> QED
      BY <2>2, <2>3, <2>5, <3>1, <3>2
  <2> QED
    BY <2>4, <2>5
<1>2. ASSUME NEW y \in Seq(Folder!Name) PROVE y # <<>> => Join(y) = Tail(Flat(y))
  BY DEF Join, Flat
<1>3. ASSUME NEW y \in Seq(Folder!Name) PROVE Good(y)
  <2>1. CASE y = <<>>
    BY <2>1 DEF Join
  <2>2. CASE y # <<>>
    <3>1. PICK z \in Seq(Folder!Name), m \in Folder!Name : y = Append(z, m)
      BY <2>2, SequenceEmptyOrAppend
    <3>2. m.base \in Seq(Byte) /\ m.base # <<>> /\ <<Slash>> \o m.base \in Seq(Byte) /\ <<Slash>> \o m.base # <<>>
      BY NamesAreBytes
    <3>3. z # <<>> => Tail(Flat(z)) \in Seq(Byte)
      BY FlatTyped, HeadTailProperties
    <3>4. CASE z = <<>>
      BY <1>1, <3>1, <3>2, <3>4
    <3>5. CASE z # <<>>
      <4> DEFINE a == Tail(Flat(z))
                 b == <<Slash>> \o m.base
      <4>1. Join(y) = a \o b /\ a \in Seq(Byte) /\ b \in Seq(Byte) /\ b # <<>>
        BY <1>1, <3>1, <3>2, <3>3, <3>5
      <4> HIDE DEF a, b
      <4>2. a \o b \in Seq(Byte) /\ a \o b # <<>>
        BY <4>1, ConcatProperties, ConcatEqualIffEmpty
      <4> QED
        BY <4>1, <4>2
    <3> QED
      BY <3>4, <3>5
  <2> QED
    BY <2>1, <2>2
<1>4. ASSUME NEW y \in Seq(Folder!Name), NEW m \in Folder!Name
      PROVE  Join(Append(y, m)) = Closed(y) \o m.base /\ Closed(y) \in Seq(Byte)
  <2>1. m.base \in Seq(Byte) /\ <<Slash>> \in Seq(Byte) /\ Slash \in Byte
    BY NamesAreBytes
  <2>2. CASE y = <<>>
    <3>1. Join(y) = <<>> /\ Closed(y) = <<>>
      BY <2>2 DEF Join, Closed, FolderPrefix
    <3>2. <<>> \o m.base = m.base /\ <<>> \in Seq(Byte)
      BY <2>1, ConcatEmptySeq, EmptySeq
    <3>3. Join(Append(y, m)) = m.base
      BY <1>1, <2>2
    <3> QED
      BY <3>1, <3>2, <3>3
  <2>3. CASE y # <<>>
    <3>1. Join(y) \in Seq(Byte) /\ Join(y) # <<>> /\ Join(y) = Tail(Flat(y))
      BY <1>2, <1>3, <2>3
    <3>2. Closed(y) = Join(y) \o <<Slash>> /\ Closed(y) \in Seq(Byte)
      <4>1. Closed(y) = Append(Join(y), Slash)
        BY <3>1 DEF Closed, FolderPrefix
      <4>2. Append(Join(y), Slash) = Join(y) \o <<Slash>>
        BY <2>1, <3>1, AppendIsConcat
      <4>3. Join(y) \o <<Slash>> \in Seq(Byte)
        BY <2>1, <3>1, ConcatProperties
      <4> QED
        BY <4>1, <4>2, <4>3
    <3>3. (Join(y) \o <<Slash>>) \o m.base = Join(y) \o (<<Slash>> \o m.base)
      <4> DEFINE a == Join(y)
                 b == <<Slash>>
                 c == m.base
      <4>1. a \in Seq(Byte) /\ b \in Seq(Byte) /\ c \in Seq(Byte)
        BY <2>1, <3>1
      <4> HIDE DEF a, b, c
      <4>2. (a \o b) \o c = a \o (b \o c)
        BY <4>1, ConcatAssociative
      <4> QED
        BY <4>2 DEF a, b, c
    <3> QED
      BY <1>1, <2>3, <3>1, <3>2, <3>3
  <2> QED
    BY <2>2, <2>3
<1>5. Append(x, n) \in Seq(Folder!Name) /\ Append(x, n) # <<>>
  BY AppendProperties
<1>6. Join(Append(x, n)) \in Seq(Byte) /\ Join(Append(x, n)) # <<>>
  BY <1>3, <1>5
<1>7. Closed(Append(x, n)) = Closed(x) \o Code(n)
  <2>1. Closed(Append(x, n)) = Join(Append(x, n)) \o <<Slash>>
    BY <1>6, NamesAreBytes, AppendIsConcat DEF Closed, FolderPrefix
  <2>2. (Closed(x) \o n.base) \o <<Slash>> = Closed(x) \o Code(n)
    <3>1. Closed(x) \in Seq(Byte) /\ n.base \in Seq(Byte) /\ <<Slash>> \in Seq(Byte)
      BY <1>4, NamesAreBytes
    <3>2. (Closed(x) \o n.base) \o <<Slash>> = Closed(x) \o (n.base \o <<Slash>>)
      <4> DEFINE c == Closed(x)
                 b == n.base
                 e == <<Slash>>
      <4>1. c \in Seq(Byte) /\ b \in Seq(Byte) /\ e \in Seq(Byte)
        BY <3>1
      <4> HIDE DEF c, b, e
      <4>2. (c \o b) \o e = c \o (b \o e)
        BY <4>1, ConcatAssociative
      <4> QED
        BY <4>2 DEF c, b, e
    <3> QED
      BY <3>2 DEF Code
  <2> QED
    BY <1>4, <2>1, <2>2
<1> QED
  BY <1>4, <1>6, <1>7

-----------------------------------------------------------------------------
(* What begins with what, byte by byte.                                    *)

\* To begin with a \o b is to begin with a and to go on with b.
LEMMA BeginsAfter ==
  ASSUME NEW S, NEW a \in Seq(S), NEW b \in Seq(S), NEW s \in Seq(S)
  PROVE  Begins(s, a \o b) <=>
           /\ Begins(s, a)
           /\ Len(a) + Len(b) <= Len(s)
           /\ \A j \in 1..Len(b) : s[Len(a) + j] = b[j]
<1> DEFINE c == a \o b
<1>1. /\ Len(a) \in Nat /\ Len(b) \in Nat /\ Len(s) \in Nat /\ Len(c) = Len(a) + Len(b)
      /\ \A i \in 1..(Len(a) + Len(b)) : c[i] = IF i <= Len(a) THEN a[i] ELSE b[i - Len(a)]
  BY ConcatProperties, LenProperties
<1> HIDE DEF c
<1>2. ASSUME Begins(s, c)
      PROVE  Begins(s, a) /\ Len(a) + Len(b) <= Len(s) /\ \A j \in 1..Len(b) : s[Len(a) + j] = b[j]
  <2>1. Len(a) + Len(b) <= Len(s) /\ \A i \in 1..(Len(a) + Len(b)) : s[i] = c[i]
    BY <1>1, <1>2 DEF Begins
  <2>2. ASSUME NEW j \in 1..Len(b) PROVE s[Len(a) + j] = b[j]
    <3>1. Len(a) + j \in 1..(Len(a) + Len(b)) /\ ~(Len(a) + j <= Len(a)) /\ (Len(a) + j) - Len(a) = j
      BY <1>1
    <3> QED
      BY <1>1, <2>1, <3>1
  <2>3. ASSUME NEW j \in 1..Len(a) PROVE s[j] = a[j]
    <3>1. j \in 1..(Len(a) + Len(b)) /\ j <= Len(a)
      BY <1>1
    <3> QED
      BY <1>1, <2>1, <3>1
  <2> QED
    BY <1>1, <2>1, <2>2, <2>3 DEF Begins
<1>3. ASSUME Begins(s, a), Len(a) + Len(b) <= Len(s), \A j \in 1..Len(b) : s[Len(a) + j] = b[j]
      PROVE  Begins(s, c)
  <2>1. ASSUME NEW i \in 1..(Len(a) + Len(b)) PROVE s[i] = c[i]
    <3>1. CASE i <= Len(a)
      BY <1>1, <1>3, <3>1 DEF Begins
    <3>2. CASE ~(i <= Len(a))
      <4>1. i - Len(a) \in 1..Len(b) /\ Len(a) + (i - Len(a)) = i
        BY <1>1, <3>2
      <4> QED
        BY <1>1, <1>3, <3>2, <4>1
    <3> QED
      BY <3>1, <3>2
  <2> QED
    BY <1>1, <1>3, <2>1 DEF Begins
<1> QED
  BY <1>2, <1>3 DEF c

\* Beginning with is transitive,
LEMMA BeginsTwice ==
  ASSUME NEW S, NEW a \in Seq(S), NEW b \in Seq(S), NEW c \in Seq(S), Begins(c, b), Begins(b, a)
  PROVE  Begins(c, a)
<1>1. Len(a) \in Nat /\ Len(b) \in Nat /\ Len(c) \in Nat
  BY LenProperties
<1>2. \A j \in 1..Len(a) : j \in 1..Len(b) /\ c[j] = b[j] /\ b[j] = a[j]
  BY <1>1 DEF Begins
<1> QED
  BY <1>1, <1>2 DEF Begins

\* and reflexive and antisymmetric; everything begins with nothing.
LEMMA BeginsSelf ==
  ASSUME NEW S, NEW s \in Seq(S), NEW t \in Seq(S)
  PROVE  Begins(s, s) /\ Begins(s, <<>>) /\ (Begins(s, t) /\ Len(s) <= Len(t) => s = t)
<1>1. Len(s) \in Nat /\ Len(t) \in Nat /\ Len(<<>>) = 0
  BY LenProperties, EmptySeq
<1>2. Begins(s, s) /\ Begins(s, <<>>)
  BY <1>1 DEF Begins
<1>3. ASSUME Begins(s, t), Len(s) <= Len(t) PROVE s = t
  <2>1. Len(s) = Len(t) /\ \A j \in 1..Len(s) : s[j] = t[j]
    BY <1>1, <1>3 DEF Begins
  <2> QED
    BY <2>1, SeqEqual
<1> QED
  BY <1>2, <1>3

\* What begins the longer of two begins the shorter or is the longer.
LEMMA BeginsAppend ==
  ASSUME NEW S, NEW s \in Seq(S), NEW e \in S, NEW t \in Seq(S)
  PROVE  /\ Begins(Append(s, e), s)
         /\ Begins(Append(s, e), t) => t = Append(s, e) \/ Begins(s, t)
<1>1. /\ Len(s) \in Nat /\ Len(t) \in Nat /\ Len(Append(s, e)) = Len(s) + 1
      /\ Append(s, e) \in Seq(S)
      /\ \A j \in 1..Len(s) : Append(s, e)[j] = s[j]
  BY LenProperties, AppendProperties
<1>2. Begins(Append(s, e), s)
  BY <1>1 DEF Begins
<1>3. ASSUME Begins(Append(s, e), t), t # Append(s, e) PROVE Begins(s, t)
  <2>1. ~(Len(Append(s, e)) <= Len(t))
    BY <1>1, <1>3, BeginsSelf
  <2>2. Len(t) <= Len(s)
    BY <1>1, <2>1
  <2> QED
    BY <1>1, <1>3, <2>2 DEF Begins
<1> QED
  BY <1>2, <1>3

LEMMA BeginsConcat ==
  ASSUME NEW S, NEW a \in Seq(S), NEW b \in Seq(S)
  PROVE  Begins(a \o b, a)
<1>1. a \o b \in Seq(S)
  BY ConcatProperties
<1>2. Begins(a \o b, a \o b)
  BY <1>1, BeginsSelf
<1> QED
  BY <1>1, <1>2, BeginsAfter

-----------------------------------------------------------------------------
(* A path begins with a folder's prefix if and only if its names begin with *)
(* those of the folder.                                                     *)

\* The prefix of a folder is its path with a slash, of the root nothing.
LEMMA JoinTyped ==
  ASSUME NEW x \in Seq(Folder!Name)
  PROVE  /\ Join(x) \in Seq(Byte) /\ Closed(x) \in Seq(Byte)
         /\ x = <<>> => Join(x) = <<>> /\ Closed(x) = <<>>
         /\ x # <<>> => Join(x) # <<>> /\ Closed(x) = Join(x) \o <<Slash>> /\ Len(Closed(x)) = Len(Join(x)) + 1
<1>1. CASE x = <<>>
  <2>1. Join(x) = <<>> /\ Closed(x) = <<>>
    BY <1>1 DEF Join, Closed, FolderPrefix
  <2> QED
    BY <1>1, <2>1, EmptySeq
<1>2. CASE x # <<>>
  <2>1. PICK y \in Seq(Folder!Name), n \in Folder!Name : x = Append(y, n)
    BY <1>2, SequenceEmptyOrAppend
  <2>2. Join(x) \in Seq(Byte) /\ Join(x) # <<>>
    BY <2>1, JoinAppend
  <2>3. Slash \in Byte
    BY NamesAssumption DEF NamesAssumption
  <2>4. Closed(x) = Append(Join(x), Slash)
    BY <2>2 DEF Closed, FolderPrefix
  <2> QED
    BY <1>2, <2>2, <2>3, <2>4, AppendProperties, AppendIsConcat
<1> QED
  BY <1>1, <1>2

\* By the least counterexample: the last name of y is one of d's or lies below d.
LEMMA ClosedMonotone ==
  \A y \in Seq(Folder!Name) : \A d \in Seq(Folder!Name) :
    Begins(y, d) => Begins(Closed(y), Closed(d))
<1> DEFINE Good(y) == \A d \in Seq(Folder!Name) : Begins(y, d) => Begins(Closed(y), Closed(d))
           Bad == {k \in Nat : \E y \in Seq(Folder!Name) : Len(y) = k /\ ~Good(y)}
<1>0. ASSUME Bad = {} PROVE \A y \in Seq(Folder!Name) : Good(y)
  BY <1>0, LenProperties
<1> SUFFICES ASSUME Bad # {} PROVE FALSE
  BY <1>0
<1>1. PICK k \in Bad : \A l \in Bad : k <= l
  <2>1. Bad \in SUBSET Nat
    OBVIOUS
  <2> QED
    BY <2>1, LeastNumber
<1>2. PICK y \in Seq(Folder!Name) : Len(y) = k /\ ~Good(y)
  BY <1>1
<1>3. PICK d \in Seq(Folder!Name) : Begins(y, d) /\ ~Begins(Closed(y), Closed(d))
  BY <1>2
<1>4. d # y
  BY <1>3, JoinTyped, BeginsSelf
<1>5. y # <<>>
  <2>1. y = <<>> => Len(d) = 0
    BY <1>3, LenProperties, EmptySeq DEF Begins
  <2> QED
    BY <1>4, <2>1, EmptySeq
<1>6. PICK z \in Seq(Folder!Name), n \in Folder!Name : y = Append(z, n)
  BY <1>5, SequenceEmptyOrAppend
<1>7. Begins(z, d)
  BY <1>3, <1>4, <1>6, BeginsAppend
<1>8. Begins(Closed(z), Closed(d))
  <2>1. Len(z) \in Nat /\ Len(z) < k
    BY <1>2, <1>6, AppendProperties
  <2>2. Good(z)
    BY <1>1, <2>1
  <2> QED
    BY <1>7, <2>2
<1>9. Closed(y) = Closed(z) \o Code(n) /\ Closed(z) \in Seq(Byte) /\ Code(n) \in Seq(Byte) /\ Closed(y) \in Seq(Byte)
  BY <1>6, JoinAppend, JoinTyped, NamesAreBytes
<1>10. Begins(Closed(y), Closed(z))
  <2>1. Begins(Closed(y), Closed(y))
    BY <1>9, BeginsSelf
  <2> QED
    BY <1>9, <2>1, BeginsAfter
<1>11. Closed(d) \in Seq(Byte)
  BY JoinTyped
<1>12. Begins(Closed(y), Closed(d))
  BY <1>8, <1>9, <1>10, <1>11, BeginsTwice
<1> QED
  BY <1>3, <1>12

\* The slash that ends a name tells where it ends.
LEMMA CodesDiffer ==
  ASSUME NEW s \in Seq(Byte), NEW a \in Seq(Byte), NEW n \in Folder!Name, NEW m \in Folder!Name,
         Begins(s, a \o Code(n)), Begins(s, a \o Code(m))
  PROVE  n = m
<1> DEFINE L(o) == Len(o.base)
<1>1. ASSUME NEW o \in Folder!Name, Begins(s, a \o Code(o))
      PROVE  /\ L(o) \in Nat
             /\ \A j \in 1..L(o) : s[Len(a) + j] = o.base[j] /\ s[Len(a) + j] # Slash
             /\ s[Len(a) + (L(o) + 1)] = Slash
  <2>1. /\ o.base \in Seq(Byte) /\ Code(o) \in Seq(Byte) /\ L(o) \in Nat
        /\ \A j \in 1..L(o) : o.base[j] # Slash
    BY NamesAreBytes
  <2>2. \A j \in 1..Len(Code(o)) : s[Len(a) + j] = Code(o)[j]
    BY <1>1, <2>1, BeginsAfter
  <2>3. /\ Len(Code(o)) = L(o) + 1 /\ Code(o)[L(o) + 1] = Slash
        /\ \A j \in 1..L(o) : Code(o)[j] = o.base[j]
    BY <2>1 DEF Code
  <2>4. \A j \in 1..L(o) : j \in 1..Len(Code(o))
    BY <2>1, <2>3
  <2>5. L(o) + 1 \in 1..Len(Code(o))
    BY <2>1, <2>3
  <2> HIDE DEF L
  <2>6. \A j \in 1..L(o) : s[Len(a) + j] = o.base[j] /\ s[Len(a) + j] # Slash
    BY <2>1, <2>2, <2>3, <2>4
  <2>7. s[Len(a) + (L(o) + 1)] = Slash
    BY <2>2, <2>3, <2>5
  <2> QED
    BY <2>1, <2>6, <2>7
<1>2. /\ L(n) \in Nat /\ L(m) \in Nat
      /\ \A j \in 1..L(n) : s[Len(a) + j] = n.base[j] /\ s[Len(a) + j] # Slash
      /\ \A j \in 1..L(m) : s[Len(a) + j] = m.base[j] /\ s[Len(a) + j] # Slash
      /\ s[Len(a) + (L(n) + 1)] = Slash /\ s[Len(a) + (L(m) + 1)] = Slash
  BY <1>1
<1>3. L(n) = L(m)
  <2> HIDE DEF L
  <2>1. ~(L(n) < L(m))
    <3>1. L(n) < L(m) => L(n) + 1 \in 1..L(m)
      BY <1>2
    <3> QED
      BY <1>2, <3>1
  <2>2. ~(L(m) < L(n))
    <3>1. L(m) < L(n) => L(m) + 1 \in 1..L(n)
      BY <1>2
    <3> QED
      BY <1>2, <3>1
  <2> QED
    BY <1>2, <2>1, <2>2
<1>4. n.base = m.base
  <2>1. n.base \in Seq(Byte) /\ m.base \in Seq(Byte)
    BY NamesAreBytes
  <2>2. \A j \in 1..Len(n.base) : n.base[j] = m.base[j]
    BY <1>2, <1>3
  <2> QED
    BY <1>3, <2>1, <2>2, SeqEqual
<1> QED
  BY <1>4, SameBase

\* By the least counterexample: the last names of both are the same.
LEMMA ClosedReflects ==
  \A d \in Seq(Folder!Name) : \A y \in Seq(Folder!Name) :
    Begins(Closed(y), Closed(d)) => Begins(y, d)
<1> DEFINE Good(d) == \A y \in Seq(Folder!Name) : Begins(Closed(y), Closed(d)) => Begins(y, d)
           Bad == {k \in Nat : \E d \in Seq(Folder!Name) : Len(d) = k /\ ~Good(d)}
<1>0. ASSUME Bad = {} PROVE \A d \in Seq(Folder!Name) : Good(d)
  BY <1>0, LenProperties
<1> SUFFICES ASSUME Bad # {} PROVE FALSE
  BY <1>0
<1>1. PICK k \in Bad : \A l \in Bad : k <= l
  <2>1. Bad \in SUBSET Nat
    OBVIOUS
  <2> QED
    BY <2>1, LeastNumber
<1>2. PICK d \in Seq(Folder!Name) : Len(d) = k /\ ~Good(d)
  BY <1>1
<1>3. PICK y \in Seq(Folder!Name) : Begins(Closed(y), Closed(d)) /\ ~Begins(y, d)
  BY <1>2
<1>4. d # <<>>
  BY <1>3, BeginsSelf
<1>5. PICK e \in Seq(Folder!Name), n \in Folder!Name : d = Append(e, n)
  BY <1>4, SequenceEmptyOrAppend
<1>6. /\ Closed(d) = Closed(e) \o Code(n) /\ Closed(e) \in Seq(Byte) /\ Code(n) \in Seq(Byte)
      /\ Closed(y) \in Seq(Byte) /\ Len(Code(n)) \in Nat \ {0}
  <2>1. n.base \in Seq(Byte) /\ Code(n) \in Seq(Byte) /\ Len(n.base) \in Nat
    BY NamesAreBytes
  <2>2. Len(Code(n)) = Len(n.base) + 1
    BY <2>1 DEF Code
  <2>3. Closed(d) = Closed(e) \o Code(n)
    BY <1>5, JoinAppend
  <2>4. Closed(e) \in Seq(Byte) /\ Closed(y) \in Seq(Byte)
    BY JoinTyped
  <2> QED
    BY <2>1, <2>2, <2>3, <2>4
<1>7. Begins(Closed(y), Closed(e)) /\ Len(Closed(e)) + Len(Code(n)) <= Len(Closed(y))
  BY <1>3, <1>6, BeginsAfter
<1>8. Begins(y, e)
  <2>1. Len(e) \in Nat /\ Len(e) < k
    BY <1>2, <1>5, AppendProperties
  <2>2. Good(e)
    BY <1>1, <2>1
  <2> QED
    BY <1>7, <2>2
<1>9. Len(e) \in Nat /\ Len(y) \in Nat /\ Len(e) < Len(y)
  <2>1. Len(Closed(e)) \in Nat /\ Len(Closed(y)) \in Nat /\ Len(e) \in Nat /\ Len(y) \in Nat
    BY <1>6, LenProperties
  <2>2. e # y
    BY <1>6, <1>7, <2>1
  <2> QED
    BY <1>8, <2>1, <2>2, BeginsSelf
<1> DEFINE m == y[Len(e) + 1]
<1>10. m \in Folder!Name
  <2>1. Len(e) + 1 \in 1..Len(y)
    BY <1>9
  <2> QED
    BY <2>1, ElementOfSeq
<1>11. Append(e, m) \in Seq(Folder!Name) /\ Begins(y, Append(e, m))
  <2> DEFINE f == Append(e, m)
  <2>1. f \in Seq(Folder!Name) /\ Len(f) = Len(e) + 1 /\ (\A i \in 1..Len(e) : f[i] = e[i]) /\ f[Len(e) + 1] = m
    BY <1>10, AppendProperties
  <2>2. ASSUME NEW i \in 1..Len(f) PROVE y[i] = f[i]
    <3>1. CASE i \in 1..Len(e)
      BY <1>8, <2>1, <3>1 DEF Begins
    <3>2. CASE i = Len(e) + 1
      BY <2>1, <3>2
    <3> QED
      BY <1>9, <2>1, <3>1, <3>2
  <2> HIDE DEF f
  <2>3. Len(f) <= Len(y)
    BY <1>9, <2>1
  <2>4. Begins(y, f)
    BY <2>2, <2>3 DEF Begins
  <2> QED
    BY <2>1, <2>4 DEF f
<1>12. Begins(Closed(y), Closed(e) \o Code(m))
  <2>1. Begins(Closed(y), Closed(Append(e, m)))
    BY <1>11, ClosedMonotone
  <2> QED
    BY <1>10, <2>1, JoinAppend
<1>13. n = m
  <2> HIDE DEF m
  <2> QED
    BY <1>3, <1>6, <1>10, <1>12, CodesDiffer
<1> QED
  BY <1>3, <1>5, <1>11, <1>13

\* The paths that begin with the prefix of d are those strictly below d.
LEMMA BelowIsPrefix ==
  ASSUME NEW d \in Seq(Folder!Name), NEW y \in Seq(Folder!Name), y # <<>>
  PROVE  Begins(Join(y), Closed(d)) <=> Begins(y, d) /\ y # d
<1>1. PICK z \in Seq(Folder!Name), n \in Folder!Name : y = Append(z, n)
  BY SequenceEmptyOrAppend
<1>2. /\ Join(y) \in Seq(Byte) /\ Closed(y) \in Seq(Byte) /\ Closed(y) = Join(y) \o <<Slash>>
      /\ Len(Closed(y)) = Len(Join(y)) + 1 /\ Len(Join(y)) \in Nat
      /\ Closed(d) \in Seq(Byte) /\ Closed(z) \in Seq(Byte)
  BY JoinTyped, LenProperties
<1>3. ASSUME Begins(Join(y), Closed(d)) PROVE Begins(y, d) /\ y # d
  <2>1. <<Slash>> \in Seq(Byte)
    BY <1>1, NamesAreBytes
  <2>2. Begins(Closed(y), Join(y))
    <3>1. Begins(Join(y) \o <<Slash>>, Join(y))
      BY <1>2, <2>1, BeginsConcat
    <3> QED
      BY <1>2, <3>1
  <2>3. Begins(Closed(y), Closed(d))
    BY <1>2, <1>3, <2>2, BeginsTwice
  <2>4. y # d
    BY <1>2, <1>3 DEF Begins
  <2> QED
    BY <2>3, <2>4, ClosedReflects
<1>4. ASSUME Begins(y, d), y # d PROVE Begins(Join(y), Closed(d))
  <2>1. Begins(z, d)
    BY <1>1, <1>4, BeginsAppend
  <2>2. Begins(Closed(z), Closed(d))
    BY <2>1, ClosedMonotone
  <2>3. Join(y) = Closed(z) \o n.base /\ n.base \in Seq(Byte)
    BY <1>1, JoinAppend, NamesAreBytes
  <2>4. Begins(Closed(z) \o n.base, Closed(z))
    BY <1>2, <2>3, BeginsConcat
  <2>5. Begins(Join(y), Closed(z))
    BY <2>3, <2>4
  <2> QED
    BY <1>2, <2>2, <2>5, BeginsTwice
<1> QED
  BY <1>3, <1>4

\* No two sequences of names make one path.
LEMMA JoinInjective ==
  ASSUME NEW x \in Seq(Folder!Name), NEW y \in Seq(Folder!Name), Join(x) = Join(y)
  PROVE  x = y
<1>1. Closed(x) = Closed(y) /\ Closed(x) \in Seq(Byte)
  BY JoinTyped DEF Closed
<1>2. Begins(Closed(y), Closed(x)) /\ Begins(Closed(x), Closed(y))
  BY <1>1, BeginsSelf
<1>3. Begins(y, x) /\ Begins(x, y)
  BY <1>2, ClosedReflects
<1>4. Len(y) <= Len(x)
  BY <1>3 DEF Begins
<1> QED
  BY <1>3, <1>4, BeginsSelf

-----------------------------------------------------------------------------
(* Cutting a path at its slashes.                                          *)

LEMMA MinIs ==
  ASSUME NEW I \in SUBSET Nat, NEW m \in I, \A i \in I : m <= i
  PROVE  Min(I) = m
<1>1. Min(I) \in I /\ \A i \in I : Min(I) <= i
  BY DEF Min
<1>2. Min(I) <= m /\ m <= Min(I) /\ m \in Nat /\ Min(I) \in Nat
  BY <1>1
<1> QED
  BY <1>2

\* The bytes up to the first slash, when that slash is at k + 1 or there is none.
LEMMA ComponentIs ==
  ASSUME NEW s \in Seq(Byte), NEW k \in Nat, k <= Len(s),
         \A j \in 1..k : s[j] # Slash, k < Len(s) => s[k + 1] = Slash
  PROVE  Component(s) = SubSeq(s, 1, k)
<1> DEFINE I == {i \in 1..Len(s) : s[i] = Slash}
<1>0. Len(s) \in Nat
  BY LenProperties
<1>1. Component(s) = LET i == IF I # {} THEN Min(I) ELSE 0 IN IF i = 0 THEN s ELSE SubSeq(s, 1, i - 1)
  BY DEF Component, SelectInSeq
<1>2. CASE k = Len(s)
  <2>1. I = {}
    BY <1>2
  <2>2. Component(s) = s
    BY <1>1, <2>1
  <2> QED
    BY <1>2, <2>2, SubSeqFull
<1>3. CASE k < Len(s)
  <2>1. k + 1 \in I
    BY <1>0, <1>3
  <2>2. ASSUME NEW i \in I PROVE k + 1 <= i
    <3>1. i \in 1..Len(s) /\ i \notin 1..k
      OBVIOUS
    <3> QED
      BY <1>0, <3>1
  <2>3. I \in SUBSET Nat
    BY <1>0
  <2> HIDE DEF I
  <2>4. Min(I) = k + 1 /\ I # {}
    BY <2>1, <2>2, <2>3, MinIs
  <2>5. k + 1 # 0 /\ (k + 1) - 1 = k
    OBVIOUS
  <2> QED
    BY <1>1, <2>4, <2>5
<1> QED
  BY <1>0, <1>2, <1>3

\* The bytes after the slashes that follow the first n, when they end at m.
LEMMA RestIs ==
  ASSUME NEW s \in Seq(Byte), NEW n \in Nat, NEW m \in Nat, n <= m, m < Len(s),
         \A j \in (n + 1)..m : s[j] = Slash, s[m + 1] # Slash
  PROVE  Rest(s, n) = SubSeq(s, m + 1, Len(s))
<1> DEFINE t == SubSeq(s, n + 1, Len(s))
           I == {i \in 1..Len(t) : t[i] # Slash}
           k == (m - n) + 1
<1>0. Len(s) \in Nat /\ k \in Nat /\ k # 0
  BY LenProperties
<1>1. Rest(s, n) = LET i == IF I # {} THEN Min(I) ELSE 0 IN IF i = 0 THEN <<>> ELSE SubSeq(t, i, Len(t))
  BY DEF Rest, SelectInSeq
<1>2. t \in Seq(Byte) /\ Len(t) = Len(s) - n /\ \A i \in 1..(Len(s) - n) : t[i] = s[n + i]
  BY <1>0
<1>3. k \in I
  <2>1. k \in 1..(Len(s) - n) /\ n + k = m + 1
    BY <1>0
  <2> QED
    BY <1>2, <2>1
<1>4. ASSUME NEW i \in I PROVE k <= i
  <2>1. i \in 1..(Len(s) - n) /\ s[n + i] # Slash
    BY <1>2
  <2>2. n + i \notin (n + 1)..m
    BY <2>1
  <2> QED
    BY <1>0, <2>1, <2>2
<1>5. I \in SUBSET Nat
  BY <1>0, <1>2
<1> HIDE DEF I
<1>6. Min(I) = k /\ I # {}
  BY <1>3, <1>4, <1>5, MinIs
<1>7. Rest(s, n) = SubSeq(t, k, Len(t))
  BY <1>0, <1>1, <1>6
<1>8. SubSeq(t, k, Len(t)) = SubSeq(s, m + 1, Len(s))
  <2>1. /\ n + 1 \in 1..Len(s) /\ Len(s) \in 1..Len(s)
        /\ k \in 1..(Len(s) - (n + 1) + 1) /\ Len(t) \in 1..(Len(s) - (n + 1) + 1)
        /\ (n + 1) + k - 1 = m + 1 /\ (n + 1) + Len(t) - 1 = Len(s)
    <3>1. Len(t) = Len(s) - n
      BY <1>2
    <3> HIDE DEF t
    <3> QED
      BY <1>0, <3>1
  <2>2. SubSeq(SubSeq(s, n + 1, Len(s)), k, Len(t)) = SubSeq(s, (n + 1) + k - 1, (n + 1) + Len(t) - 1)
    <3> HIDE DEF k, t
    <3> QED
      BY <2>1, SubSeqOfSubSeq
  <2> QED
    BY <2>1, <2>2
<1> QED
  BY <1>7, <1>8

\* The first name below the folder is what is cut out of a path in it.
LEMMA FirstNameBelow ==
  ASSUME NEW d \in Seq(Folder!Name), NEW y \in Seq(Folder!Name), Begins(y, d), y # d
  PROVE  LET x    == Append(d, y[Len(d) + 1])
             rest == Rest(Join(y), Len(Join(d)))
         IN  /\ y[Len(d) + 1] \in Folder!Name /\ x \in Seq(Folder!Name) /\ Begins(y, x)
             /\ Closed(d) \o Component(rest) = Join(x)
             /\ Component(rest) = rest <=> y = x
<1> DEFINE n == y[Len(d) + 1]
           x == Append(d, n)
           s == Join(y)
           p == Len(Closed(d))
           b == n.base
<1>1. Len(d) \in Nat /\ Len(y) \in Nat /\ Len(d) < Len(y)
  BY LenProperties, BeginsSelf
<1>2. n \in Folder!Name
  BY <1>1, ElementOfSeq
<1>3. x \in Seq(Folder!Name) /\ x # <<>> /\ Len(x) = Len(d) + 1
      /\ (\A i \in 1..Len(d) : x[i] = d[i]) /\ x[Len(d) + 1] = n
  BY <1>2, AppendProperties
<1>4. Begins(y, x)
  <2>1. ASSUME NEW i \in 1..Len(x) PROVE y[i] = x[i]
    <3>1. CASE i \in 1..Len(d)
      BY <1>3, <3>1 DEF Begins
    <3>2. CASE i = Len(d) + 1
      BY <1>3, <3>2
    <3> QED
      BY <1>1, <1>3, <3>1, <3>2
  <2> HIDE DEF x
  <2>2. Len(x) <= Len(y)
    BY <1>1, <1>3
  <2> QED
    BY <2>1, <2>2 DEF Begins
<1>5. y # <<>>
  BY <1>1, EmptySeq
<1> HIDE DEF n
<1>6. /\ s \in Seq(Byte) /\ Closed(d) \in Seq(Byte) /\ b \in Seq(Byte) /\ Code(n) \in Seq(Byte)
      /\ p \in Nat /\ Len(s) \in Nat /\ Len(b) \in Nat \ {0}
      /\ \A j \in 1..Len(b) : b[j] # Slash
      /\ Join(x) = Closed(d) \o b /\ Closed(x) = Closed(d) \o Code(n)
  BY <1>2, JoinTyped, JoinAppend, NamesAreBytes, LenProperties
<1>7. /\ Begins(s, Closed(d)) /\ p + Len(b) <= Len(s)
      /\ \A j \in 1..Len(b) : s[p + j] = b[j]
      /\ y = x => Len(s) = p + Len(b)
      /\ y # x => p + Len(b) < Len(s) /\ s[p + (Len(b) + 1)] = Slash
  <2>1. CASE y = x
    <3>1. s = Closed(d) \o b /\ Begins(s, s)
      BY <1>6, <2>1, BeginsSelf
    <3>2. Len(s) = p + Len(b)
      BY <1>6, <3>1, ConcatProperties
    <3> DEFINE c == Closed(d)
    <3>3. Begins(s, c \o b) /\ c \in Seq(Byte) /\ p = Len(c)
      BY <1>6, <3>1
    <3> HIDE DEF s, p, b, x, c
    <3>4. Begins(s, c) /\ p + Len(b) <= Len(s) /\ \A j \in 1..Len(b) : s[p + j] = b[j]
      BY <1>6, <3>3, BeginsAfter
    <3>5. Begins(s, Closed(d))
      BY <3>4 DEF c
    <3> QED
      BY <2>1, <3>2, <3>4, <3>5
  <2>2. CASE y # x
    <3>1. Begins(s, Closed(d) \o Code(n))
      <4>1. Begins(s, Closed(x))
        <5> HIDE DEF x
        <5> QED
          BY <1>3, <1>4, <1>5, <2>2, BelowIsPrefix
      <4> QED
        BY <1>6, <4>1
    <3>2. Begins(s, Closed(d)) /\ p + Len(Code(n)) <= Len(s) /\ \A j \in 1..Len(Code(n)) : s[p + j] = Code(n)[j]
      BY <1>6, <3>1, BeginsAfter
    <3>3. /\ Len(Code(n)) = Len(b) + 1 /\ Code(n)[Len(b) + 1] = Slash
          /\ \A j \in 1..Len(b) : Code(n)[j] = b[j]
      BY <1>6 DEF Code
    <3> HIDE DEF s, p, b, x
    <3>4. p + Len(b) < Len(s)
      BY <1>6, <3>2, <3>3
    <3>5. \A j \in 1..Len(b) : s[p + j] = b[j]
      <4>1. \A j \in 1..Len(b) : j \in 1..Len(Code(n))
        BY <1>6, <3>3
      <4> QED
        BY <3>2, <3>3, <4>1
    <3>6. s[p + (Len(b) + 1)] = Slash
      <4>1. Len(b) + 1 \in 1..Len(Code(n))
        BY <1>6, <3>3
      <4> QED
        BY <3>2, <3>3, <4>1
    <3> QED
      BY <1>6, <2>2, <3>2, <3>4, <3>5, <3>6
  <2> QED
    BY <2>1, <2>2
<1> DEFINE t == SubSeq(s, p + 1, Len(s))
<1>8. Rest(s, Len(Join(d))) = t
  <2>1. s[p + 1] # Slash /\ p < Len(s)
    <3>1. 1 \in 1..Len(b)
      BY <1>6
    <3> HIDE DEF s, p, b
    <3>2. s[p + 1] = b[1] /\ b[1] # Slash
      BY <1>6, <1>7, <3>1
    <3>3. p < Len(s)
      BY <1>6, <1>7
    <3> QED
      BY <3>2, <3>3
  <2>2. Len(Join(d)) \in Nat /\ Len(Join(d)) <= p /\ \A j \in (Len(Join(d)) + 1)..p : s[j] = Slash
    <3>1. CASE d = <<>>
      <4>1. Len(Join(d)) = 0 /\ p = 0
        BY <3>1, JoinTyped, EmptySeq
      <4> QED
        BY <4>1
    <3>2. CASE d # <<>>
      <4>1. Join(d) \in Seq(Byte) /\ p = Len(Join(d)) + 1 /\ Closed(d) = Join(d) \o <<Slash>> /\ <<Slash>> \in Seq(Byte)
        BY <1>2, <3>2, JoinTyped, NamesAreBytes
      <4>2. s[p] = Slash
        <5>1. p \in 1..p /\ s[p] = Closed(d)[p]
          BY <1>6, <1>7, <4>1, LenProperties DEF Begins
        <5>2. Closed(d)[p] = Slash
          BY <4>1
        <5> QED
          BY <5>1, <5>2
      <4>3. Len(Join(d)) \in Nat
        BY <4>1, LenProperties
      <4> QED
        BY <4>1, <4>2, <4>3
    <3> QED
      BY <3>1, <3>2
  <2> HIDE DEF s, p, b
  <2> QED
    BY <1>6, <2>1, <2>2, RestIs
<1>9. t \in Seq(Byte) /\ Len(t) = Len(s) - p /\ \A j \in 1..(Len(s) - p) : t[j] = s[p + j]
  <2> HIDE DEF s, p
  <2> QED
    BY <1>6, <1>7
<1> HIDE DEF s, p, b, t, x
<1>10. \A j \in 1..Len(b) : t[j] = b[j]
  <2>1. \A j \in 1..Len(b) : j \in 1..(Len(s) - p)
    BY <1>6, <1>7
  <2> QED
    BY <1>7, <1>9, <2>1
<1>11. Component(t) = SubSeq(t, 1, Len(b))
  <2>1. Len(b) <= Len(t) /\ \A j \in 1..Len(b) : t[j] # Slash
    BY <1>6, <1>7, <1>9, <1>10
  <2>2. Len(b) < Len(t) => t[Len(b) + 1] = Slash
    <3>1. Len(b) < Len(t) => y # x /\ Len(b) + 1 \in 1..(Len(s) - p)
      BY <1>6, <1>7, <1>9
    <3> QED
      BY <1>7, <1>9, <3>1
  <2> QED
    BY <1>6, <1>9, <2>1, <2>2, ComponentIs
<1>12. SubSeq(t, 1, Len(b)) = b
  <2> DEFINE u == SubSeq(t, 1, Len(b))
  <2>1. Len(b) \in Nat /\ Len(b) <= Len(t) /\ t \in Seq(Byte)
    BY <1>6, <1>7, <1>9
  <2>2. u \in Seq(Byte) /\ Len(u) = Len(b) /\ \A j \in 1..Len(b) : u[j] = t[j]
    BY <2>1
  <2> HIDE DEF u
  <2>3. \A j \in 1..Len(u) : u[j] = b[j]
    BY <1>10, <2>2
  <2>4. u = b
    BY <1>6, <2>2, <2>3, SeqEqual
  <2> QED
    BY <2>4 DEF u
<1>13. Component(t) = t <=> y = x
  <2>1. y = x => Len(t) = Len(b)
    BY <1>6, <1>7, <1>9
  <2>2. y # x => Len(t) # Len(b)
    BY <1>6, <1>7, <1>9
  <2>3. Len(t) = Len(b) => t = b
    BY <1>6, <1>9, <1>10, SeqEqual
  <2> QED
    BY <1>11, <1>12, <2>1, <2>2, <2>3
<1> QED
  BY <1>2, <1>3, <1>4, <1>6, <1>8, <1>11, <1>12, <1>13 DEF n, s, x, t

-----------------------------------------------------------------------------
(* The rows of a table whose paths are names with slashes between them.    *)

RowsAreNames == \A r \in rows : \E y \in Folder!NamePath : r.path = Join(y)
NamesOf(r) == CHOOSE y \in Folder!NamePath : r.path = Join(y)
RowsBelow(x) == {r \in rows : Begins(NamesOf(r), x)}

\* Paths are the sequences of one to Depth names.
LEMMA PathIsSeq ==
  \A y : /\ y \in Folder!NamePath <=> y \in Seq(Folder!Name) /\ y # <<>> /\ Len(y) <= Depth
         /\ y \in Folder!Dir => y \in Seq(Folder!Name)
<1>1. Depth \in Nat
  BY NamesAssumption DEF NamesAssumption
<1>2. ASSUME NEW y, y \in Folder!NamePath
      PROVE  y \in Seq(Folder!Name) /\ y # <<>> /\ Len(y) <= Depth
  <2>1. PICK n \in 1..Depth : y \in [1..n -> Folder!Name]
    BY <1>2 DEF Folder!NamePath
  <2>2. n \in Nat /\ n # 0
    BY <1>1
  <2>3. y \in Seq(Folder!Name) /\ Len(y) = n
    BY <2>1, <2>2, IsASeq
  <2> QED
    BY <1>1, <2>2, <2>3, EmptySeq
<1>3. ASSUME NEW y \in Seq(Folder!Name), y # <<>>, Len(y) <= Depth PROVE y \in Folder!NamePath
  <2>1. Len(y) \in 1..Depth /\ y \in [1..Len(y) -> Folder!Name]
    BY <1>1, <1>3, LenProperties, EmptySeq
  <2> QED
    BY <2>1 DEF Folder!NamePath
<1>4. <<>> \in Seq(Folder!Name)
  BY EmptySeq
<1> QED
  BY <1>2, <1>3, <1>4 DEF Folder!Dir, Folder!Root

\* Below d lies what begins with d and is not d.
LEMMA BelowIs ==
  ASSUME NEW d \in Folder!Dir, NEW y
  PROVE  y \in Folder!Below[d] <=> y \in Folder!NamePath /\ Begins(y, d) /\ y # d
<1>1. Folder!Below[d] = {z \in Folder!NamePath : Folder!IsStrictPrefix(d, z)}
  BY DEF Folder!Below
<1>2. ASSUME NEW z \in Folder!NamePath PROVE Folder!IsStrictPrefix(d, z) <=> Begins(z, d) /\ z # d
  <2>1. z \in Seq(Folder!Name) /\ d \in Seq(Folder!Name)
    BY PathIsSeq
  <2>2. Folder!IsPrefix(d, z) <=> IsPrefix(d, z)
    BY DEF Folder!IsPrefix, IsPrefix
  <2> QED
    BY <2>1, <2>2, BeginsIsPrefix DEF Folder!IsStrictPrefix
<1> QED
  BY <1>1, <1>2

\* The names of a row are the only ones that make its path.
LEMMA NamesOfRow ==
  ASSUME RowsAreNames, NEW r \in rows
  PROVE  NamesOf(r) \in Folder!NamePath /\ r.path = Join(NamesOf(r))
         /\ \A x \in Folder!NamePath : r.path = Join(x) <=> x = NamesOf(r)
<1>1. NamesOf(r) \in Folder!NamePath /\ r.path = Join(NamesOf(r))
  BY DEF RowsAreNames, NamesOf
<1>2. ASSUME NEW x \in Folder!NamePath, r.path = Join(x) PROVE x = NamesOf(r)
  BY <1>1, <1>2, PathIsSeq, JoinInjective
<1> QED
  BY <1>1, <1>2

\* What the range of a folder's prefix selects.
LEMMA EntryIs ==
  ASSUME RowsAreNames, NEW d \in Folder!Dir, NEW r \in rows
  PROVE  InRange(r.path, FolderPrefix(Join(d))) <=> Begins(NamesOf(r), d) /\ NamesOf(r) # d
<1> DEFINE y == NamesOf(r)
<1>1. y \in Seq(Folder!Name) /\ y # <<>> /\ d \in Seq(Folder!Name) /\ r.path = Join(y)
  BY NamesOfRow, PathIsSeq
<1> HIDE DEF y
<1>2. r.path \in Seq(Byte) /\ Closed(d) \in Seq(Byte) /\ Closed(d) = FolderPrefix(Join(d))
  BY <1>1, JoinTyped DEF Closed
<1>3. InRange(r.path, Closed(d)) <=> Begins(r.path, Closed(d))
  BY <1>2, PrefixRangeExact, BeginsIsPrefix
<1> QED
  BY <1>1, <1>2, <1>3, BelowIsPrefix DEF y

-----------------------------------------------------------------------------
(* As many rows are counted over names as over bytes.                      *)

\* A row of a path, by its number among the rows of that path.
Number(y) == CHOOSE f : f \in Bijection(RowsOf(Join(y)), 1..Cardinality(RowsOf(Join(y))))

\* The rows of a path are numbered without gaps, each number once.
LEMMA NumberIs ==
  ASSUME IsFiniteSet(rows), NEW y
  PROVE  /\ Cardinality(RowsOf(Join(y))) \in Nat
         /\ Cardinality(RowsOf(Join(y))) # 0 <=> RowsOf(Join(y)) # {}
         /\ Number(y) \in [RowsOf(Join(y)) -> 1..Cardinality(RowsOf(Join(y)))]
         /\ \A a, b \in RowsOf(Join(y)) : Number(y)[a] = Number(y)[b] => a = b
         /\ \A i \in 1..Cardinality(RowsOf(Join(y))) : \E a \in RowsOf(Join(y)) : Number(y)[a] = i
<1> DEFINE R == RowsOf(Join(y))
           n == Cardinality(R)
<1>1. IsFiniteSet(R)
  <2>1. R \in SUBSET rows
    BY DEF RowsOf
  <2> QED
    BY <2>1, FS_Subset
<1> HIDE DEF R
<1>2. n \in Nat /\ ExistsBijection(1..n, R) /\ (n = 0 <=> R = {})
  BY <1>1, FS_CardinalityType, FS_EmptySet
<1>3. PICK g : g \in Bijection(1..n, R)
  BY <1>2, Fun_ExistsBij
<1>4. Inverse(g, 1..n, R) \in Bijection(R, 1..n)
  BY <1>3, Fun_BijInverse
<1>5. Number(y) \in Bijection(R, 1..n)
  BY <1>4, Zenon DEF Number, R
<1>6. /\ Number(y) \in [R -> 1..n]
      /\ \A a, b \in R : Number(y)[a] = Number(y)[b] => a = b
      /\ \A i \in 1..n : \E a \in R : Number(y)[a] = i
  <2> DEFINE f == Number(y)
             I == 1..n
  <2>1. f \in Bijection(R, I)
    BY <1>5
  <2> HIDE DEF f, I
  <2>2. /\ f \in [R -> I]
        /\ \A a, b \in R : f[a] = f[b] => a = b
        /\ \A i \in I : \E a \in R : f[a] = i
    BY <2>1, Fun_BijectionProperties
  <2> QED
    BY <2>2 DEF f, I
<1> QED
  BY <1>2, <1>6 DEF R

\* The rows at or below x are as many as the versions that RowsUnder pairs with
\* paths: each row goes to its names and its number.
LEMMA CountsAgree ==
  ASSUME RowsAreNames, IsFiniteSet(rows), NEW x \in Folder!NamePath
  PROVE  LET T == Folder!RowsUnder(Versions, x)
         IN  /\ Cardinality(RowsBelow(x)) \in Nat /\ Cardinality(T) = Cardinality(RowsBelow(x))
             /\ Cardinality(RowsBelow(x)) # 0 <=> RowsBelow(x) # {}
             /\ T # {} <=> RowsBelow(x) # {}
<1> DEFINE T == Folder!RowsUnder(Versions, x)
           S == RowsBelow(x)
           F == [r \in S |-> <<NamesOf(r), Number(NamesOf(r))[r]>>]
           C(y) == Cardinality(RowsOf(Join(y)))
<1>1. \A y, i : <<y, i>> \in T <=> y \in Folder!NamePath /\ Begins(y, x) /\ i \in 1..C(y)
  <2>1. x \in Folder!Dir /\ x \in Seq(Folder!Name)
    BY PathIsSeq DEF Folder!Dir
  <2>2. Begins(x, x)
    BY <2>1, BeginsSelf
  <2>3. \A y : y \in Folder!Below[x] \cup {x} <=> y \in Folder!NamePath /\ Begins(y, x)
    BY <2>1, <2>2, BelowIs
  <2>4. \A y \in Folder!NamePath : DOMAIN Versions[y] = 1..C(y)
    BY DEF Versions
  <2>5. T = UNION {{y} \X DOMAIN Versions[y] : y \in Folder!Below[x] \cup {x}}
    BY DEF Folder!RowsUnder
  <2> HIDE DEF T, C
  <2> SUFFICES ASSUME NEW y, NEW i
               PROVE  <<y, i>> \in T <=> y \in Folder!NamePath /\ Begins(y, x) /\ i \in 1..C(y)
    OBVIOUS
  <2>6. <<y, i>> \in T <=> \E z \in Folder!Below[x] \cup {x} : <<y, i>> \in {z} \X DOMAIN Versions[z]
    BY <2>5
  <2>7. ASSUME NEW z PROVE <<y, i>> \in {z} \X DOMAIN Versions[z] <=> y = z /\ i \in DOMAIN Versions[z]
    OBVIOUS
  <2>8. <<y, i>> \in T <=> y \in Folder!Below[x] \cup {x} /\ i \in DOMAIN Versions[y]
    BY <2>6, <2>7
  <2> QED
    BY <2>3, <2>4, <2>8
<1>2. \A t \in T : \E y, i : t = <<y, i>>
  BY DEF Folder!RowsUnder
<1>3. ASSUME NEW r \in S
      PROVE  /\ NamesOf(r) \in Folder!NamePath /\ Begins(NamesOf(r), x) /\ r \in RowsOf(Join(NamesOf(r)))
             /\ Number(NamesOf(r))[r] \in 1..C(NamesOf(r))
  <2>1. r \in rows /\ Begins(NamesOf(r), x)
    BY DEF RowsBelow
  <2>2. NamesOf(r) \in Folder!NamePath /\ r \in RowsOf(Join(NamesOf(r)))
    BY <2>1, NamesOfRow DEF RowsOf
  <2>3. Number(NamesOf(r)) \in [RowsOf(Join(NamesOf(r))) -> 1..C(NamesOf(r))]
    BY NumberIs
  <2> QED
    BY <2>1, <2>2, <2>3
<1>4. ASSUME NEW y \in Folder!NamePath, Begins(y, x), NEW r \in RowsOf(Join(y))
      PROVE  r \in S /\ NamesOf(r) = y
  <2>1. r \in rows /\ r.path = Join(y)
    BY DEF RowsOf
  <2>2. NamesOf(r) = y
    BY <2>1, NamesOfRow
  <2> QED
    BY <1>4, <2>1, <2>2 DEF RowsBelow
<1> HIDE DEF T, S, C
<1>5. F \in [S -> T]
  BY <1>1, <1>3
<1>6. ASSUME NEW a \in S, NEW b \in S, F[a] = F[b] PROVE a = b
  <2>1. NamesOf(a) = NamesOf(b) /\ Number(NamesOf(a))[a] = Number(NamesOf(a))[b]
    BY <1>6
  <2>2. a \in RowsOf(Join(NamesOf(a))) /\ b \in RowsOf(Join(NamesOf(a)))
    BY <1>3, <2>1
  <2> QED
    BY <2>1, <2>2, NumberIs
<1>7. ASSUME NEW t \in T PROVE \E r \in S : F[r] = t
  <2>1. PICK y, i : t = <<y, i>>
    BY <1>2
  <2>2. y \in Folder!NamePath /\ Begins(y, x) /\ i \in 1..C(y)
    BY <1>1, <2>1
  <2>3. PICK r \in RowsOf(Join(y)) : Number(y)[r] = i
    BY <2>2, NumberIs DEF C
  <2>4. r \in S /\ NamesOf(r) = y
    BY <1>4, <2>2
  <2> QED
    BY <2>1, <2>3, <2>4
<1> HIDE DEF F
<1>8. ExistsBijection(S, T)
  BY <1>5, <1>6, <1>7, Fun_IsBij, Fun_ExistsBij
<1>9. IsFiniteSet(S)
  <2>1. S \in SUBSET rows
    BY DEF S, RowsBelow
  <2> QED
    BY <2>1, FS_Subset
<1>10. Cardinality(S) \in Nat /\ Cardinality(T) = Cardinality(S) /\ (Cardinality(S) = 0 <=> S = {})
  BY <1>8, <1>9, FS_CardinalityType, FS_Bijection, FS_EmptySet
<1>11. T # {} <=> S # {}
  BY <1>5, <1>7
<1> QED
  BY <1>10, <1>11 DEF S, T

-----------------------------------------------------------------------------
(* The two listings.                                                       *)

\* The kind of line that a component's rows make.
KindOf(x) ==
  IF Cardinality(RowsBelow(x)) > 1 \/ ~\E r \in RowsBelow(x) : NamesOf(r) = x THEN "prefix" ELSE "path"
Listed(d) == {x \in Folder!Children(d) : RowsBelow(x) # {}}

\* What lies at or below a child of d lies below d, and begins with that child
\* and no other.
LEMMA ChildrenAre ==
  ASSUME NEW d \in Folder!Dir, NEW x
  PROVE  /\ x \in Folder!Children(d) =>
              /\ x \in Folder!NamePath
              /\ \A y \in Seq(Folder!Name) : Begins(y, x) =>
                   Begins(y, d) /\ y # d /\ x = Append(d, y[Len(d) + 1])
         /\ \A y \in Folder!NamePath : Begins(y, d) /\ y # d =>
              Append(d, y[Len(d) + 1]) \in Folder!Children(d)
<1>0. d \in Seq(Folder!Name) /\ Depth \in Nat /\ Len(d) \in Nat
  BY PathIsSeq, NamesAssumption, LenProperties DEF NamesAssumption
<1>1. ASSUME x \in Folder!Children(d)
      PROVE  /\ x \in Folder!NamePath
             /\ \A y \in Seq(Folder!Name) : Begins(y, x) =>
                  Begins(y, d) /\ y # d /\ x = Append(d, y[Len(d) + 1])
  <2>1. Len(d) < Depth /\ \E n \in Folder!Name : x = Append(d, n)
    BY <1>1 DEF Folder!Children, Folder!Child
  <2>2. PICK n \in Folder!Name : x = Append(d, n)
    BY <2>1
  <2>3. /\ x \in Seq(Folder!Name) /\ x # <<>> /\ Len(x) = Len(d) + 1 /\ x[Len(d) + 1] = n
        /\ Begins(x, d)
    BY <1>0, <2>2, AppendProperties, BeginsAppend
  <2>4. x \in Folder!NamePath
    <3>1. Len(x) <= Depth
      BY <1>0, <2>1, <2>3
    <3> QED
      BY <2>3, <3>1, PathIsSeq
  <2>5. ASSUME NEW y \in Seq(Folder!Name), Begins(y, x)
        PROVE  Begins(y, d) /\ y # d /\ x = Append(d, y[Len(d) + 1])
    <3>1. Begins(y, d)
      BY <1>0, <2>3, <2>5, BeginsTwice
    <3>2. y # d
      <4>1. Len(x) <= Len(y)
        BY <2>5 DEF Begins
      <4> QED
        BY <1>0, <2>3, <4>1
    <3>3. Len(d) + 1 \in 1..Len(x)
      BY <1>0, <2>3
    <3>4. y[Len(d) + 1] = n
      BY <2>3, <2>5, <3>3 DEF Begins
    <3> QED
      BY <2>2, <3>1, <3>2, <3>4
  <2> QED
    BY <2>4, <2>5
<1>2. ASSUME NEW y \in Folder!NamePath, Begins(y, d), y # d
      PROVE  Append(d, y[Len(d) + 1]) \in Folder!Children(d)
  <2>1. y \in Seq(Folder!Name) /\ Len(y) <= Depth /\ Len(y) \in Nat
    BY PathIsSeq, LenProperties
  <2>2. ~(Len(y) <= Len(d))
    BY <1>0, <1>2, <2>1, BeginsSelf
  <2>3. Len(d) < Depth /\ Len(d) + 1 \in 1..Len(y)
    BY <1>0, <2>1, <2>2
  <2>4. y[Len(d) + 1] \in Folder!Name
    BY <2>1, <2>3, ElementOfSeq
  <2> QED
    BY <2>3, <2>4 DEF Folder!Children, Folder!Child
<1> QED
  BY <1>1, <1>2

\* Over bytes a line is printed for each child that a row lies at or below.
LEMMA BytesList ==
  ASSUME RowsAreNames, NEW d \in Folder!Dir
  PROVE  ListFolder(rows, Join(d)) = {Line(Join(x), KindOf(x)) : x \in Listed(d)}
<1> DEFINE f       == Join(d)
           entries == {r \in rows : InRange(r.path, FolderPrefix(f))}
           full(r) == FolderPrefix(f) \o Component(Rest(r.path, Len(f)))
           leaf(r) == Component(Rest(r.path, Len(f))) = Rest(r.path, Len(f))
           of(c)   == {r \in entries : full(r) = c}
           kind(c) == IF Cardinality(of(c)) > 1 \/ ~\E r \in of(c) : leaf(r) THEN "prefix" ELSE "path"
           child(r) == Append(d, NamesOf(r)[Len(d) + 1])
<1>1. ListFolder(rows, f) = {Line(c, kind(c)) : c \in {full(r) : r \in entries}}
  BY DEF ListFolder
<1>2. \A r : r \in entries <=> r \in rows /\ Begins(NamesOf(r), d) /\ NamesOf(r) # d
  BY EntryIs
<1>3. ASSUME NEW r \in entries
      PROVE  /\ child(r) \in Folder!Children(d) /\ full(r) = Join(child(r))
             /\ leaf(r) <=> NamesOf(r) = child(r)
             /\ r \in RowsBelow(child(r))
  <2>1. /\ r \in rows /\ NamesOf(r) \in Folder!NamePath /\ r.path = Join(NamesOf(r))
        /\ Begins(NamesOf(r), d) /\ NamesOf(r) # d
    BY <1>2, NamesOfRow
  <2>2. NamesOf(r) \in Seq(Folder!Name) /\ d \in Seq(Folder!Name)
    BY <2>1, PathIsSeq
  <2>3. child(r) \in Folder!Children(d)
    BY <2>1, ChildrenAre
  <2>4. LET y    == NamesOf(r)
            x    == Append(d, y[Len(d) + 1])
            rest == Rest(Join(y), Len(Join(d)))
        IN  /\ y[Len(d) + 1] \in Folder!Name /\ x \in Seq(Folder!Name) /\ Begins(y, x)
            /\ Closed(d) \o Component(rest) = Join(x)
            /\ Component(rest) = rest <=> y = x
    <3> DEFINE y == NamesOf(r)
    <3>1. y \in Seq(Folder!Name) /\ Begins(y, d) /\ y # d
      BY <2>1, <2>2
    <3> HIDE DEF y
    <3>2. LET x    == Append(d, y[Len(d) + 1])
              rest == Rest(Join(y), Len(Join(d)))
          IN  /\ y[Len(d) + 1] \in Folder!Name /\ x \in Seq(Folder!Name) /\ Begins(y, x)
              /\ Closed(d) \o Component(rest) = Join(x)
              /\ Component(rest) = rest <=> y = x
      BY <2>2, <3>1, FirstNameBelow
    <3> QED
      BY <3>2 DEF y
  <2>5. full(r) = Join(child(r)) /\ (leaf(r) <=> NamesOf(r) = child(r)) /\ Begins(NamesOf(r), child(r))
    BY <2>1, <2>4 DEF Closed
  <2> QED
    BY <2>1, <2>3, <2>5 DEF RowsBelow
<1> HIDE DEF full, leaf, child, entries
<1>4. ASSUME NEW x \in Folder!Children(d) PROVE \A r \in RowsBelow(x) : r \in entries /\ child(r) = x
  <2> SUFFICES ASSUME NEW r \in RowsBelow(x) PROVE r \in entries /\ child(r) = x
    OBVIOUS
  <2>1. r \in rows /\ Begins(NamesOf(r), x)
    BY DEF RowsBelow
  <2>2. NamesOf(r) \in Folder!NamePath
    BY <2>1, NamesOfRow
  <2>3. NamesOf(r) \in Seq(Folder!Name)
    BY <2>2, PathIsSeq
  <2>4. Begins(NamesOf(r), d) /\ NamesOf(r) # d /\ x = Append(d, NamesOf(r)[Len(d) + 1])
    BY <2>1, <2>3, ChildrenAre
  <2> QED
    BY <1>2, <2>1, <2>4 DEF child
<1>5. ASSUME NEW x \in Folder!Children(d) PROVE of(Join(x)) = RowsBelow(x)
  <2>1. ASSUME NEW r \in of(Join(x)) PROVE r \in RowsBelow(x)
    <3>1. r \in entries /\ Join(child(r)) = Join(x)
      BY <1>3
    <3>2. child(r) \in Folder!NamePath /\ x \in Folder!NamePath
      BY <1>3, <3>1, ChildrenAre
    <3>3. child(r) = x
      BY <3>1, <3>2, PathIsSeq, JoinInjective
    <3> QED
      BY <1>3, <3>1, <3>3
  <2>2. ASSUME NEW r \in RowsBelow(x) PROVE r \in of(Join(x))
    BY <1>3, <1>4
  <2> QED
    BY <2>1, <2>2
<1>6. ASSUME NEW x \in Folder!Children(d) PROVE kind(Join(x)) = KindOf(x)
  <2>1. of(Join(x)) = RowsBelow(x)
    BY <1>5
  <2>2. \A r \in RowsBelow(x) : leaf(r) <=> NamesOf(r) = x
    BY <1>3, <1>4
  <2> HIDE DEF of
  <2> QED
    BY <2>1, <2>2 DEF KindOf
<1>7. {full(r) : r \in entries} = {Join(x) : x \in Listed(d)}
  <2>1. ASSUME NEW r \in entries PROVE \E x \in Listed(d) : full(r) = Join(x)
    BY <1>3 DEF Listed
  <2>2. ASSUME NEW x \in Listed(d) PROVE \E r \in entries : Join(x) = full(r)
    <3>1. PICK r : r \in RowsBelow(x)
      BY DEF Listed
    <3>2. r \in entries /\ child(r) = x
      BY <1>4, <3>1 DEF Listed
    <3> QED
      BY <1>3, <3>2
  <2> QED
    BY <2>1, <2>2
<1> HIDE DEF kind, of
<1>8. {Line(c, kind(c)) : c \in {Join(x) : x \in Listed(d)}} = {Line(Join(x), kind(Join(x))) : x \in Listed(d)}
  OBVIOUS
<1>9. \A x \in Listed(d) : kind(Join(x)) = KindOf(x)
  BY <1>6 DEF Listed
<1>10. {Line(Join(x), kind(Join(x))) : x \in Listed(d)} = {Line(Join(x), KindOf(x)) : x \in Listed(d)}
  BY <1>9
<1> QED
  BY <1>1, <1>7, <1>8, <1>10 DEF f

\* Over names it is the same line.
LEMMA NamesList ==
  ASSUME RowsAreNames, IsFiniteSet(rows), NEW d \in Folder!Dir
  PROVE  {Line(Join(e.path), e.kind) : e \in Folder!ListFolder(Versions, d)}
           = {Line(Join(x), KindOf(x)) : x \in Listed(d)}
<1> DEFINE T(x) == Folder!RowsUnder(Versions, x)
           entry(x) == IF Folder!Cardinality(T(x)) = 1 /\ Versions[x] # <<>> THEN Folder!Leaf(x) ELSE Folder!Prefix(x)
           K == {x \in Folder!Children(d) : T(x) # {}}
<1>1. Folder!ListFolder(Versions, d) = {entry(x) : x \in K}
  BY DEF Folder!ListFolder
<1>2. ASSUME NEW x \in Folder!Children(d)
      PROVE  /\ T(x) # {} <=> RowsBelow(x) # {}
             /\ RowsBelow(x) # {} => entry(x).path = x /\ entry(x).kind = KindOf(x)
  <2>1. x \in Folder!NamePath
    BY ChildrenAre
  <2>2. /\ Cardinality(RowsBelow(x)) \in Nat /\ Cardinality(T(x)) = Cardinality(RowsBelow(x))
        /\ Cardinality(RowsBelow(x)) # 0 <=> RowsBelow(x) # {}
        /\ T(x) # {} <=> RowsBelow(x) # {}
    BY <2>1, CountsAgree
  <2>3. Folder!Cardinality(T(x)) = Cardinality(T(x))
    BY Zenon DEF Folder!Cardinality, Cardinality
  <2>4. Versions[x] # <<>> <=> RowsOf(Join(x)) # {}
    <3>1. Versions[x] = [i \in 1..Cardinality(RowsOf(Join(x))) |-> 0]
      BY <2>1 DEF Versions
    <3>2. Cardinality(RowsOf(Join(x))) \in Nat /\ (Cardinality(RowsOf(Join(x))) # 0 <=> RowsOf(Join(x)) # {})
      BY NumberIs
    <3> QED
      BY <3>1, <3>2
  <2>5. RowsOf(Join(x)) # {} <=> \E r \in RowsBelow(x) : NamesOf(r) = x
    <3>1. Begins(x, x)
      BY <2>1, PathIsSeq, BeginsSelf
    <3>2. \A r \in rows : r.path = Join(x) <=> NamesOf(r) = x
      BY <2>1, NamesOfRow
    <3> QED
      BY <3>1, <3>2 DEF RowsOf, RowsBelow
  <2> HIDE DEF T
  <2>6. ASSUME RowsBelow(x) # {} PROVE entry(x) = [path |-> x, kind |-> KindOf(x)]
    <3>1. Cardinality(RowsBelow(x)) = 1 <=> ~(Cardinality(RowsBelow(x)) > 1)
      BY <2>2, <2>6
    <3> QED
      BY <2>2, <2>3, <2>4, <2>5, <3>1 DEF KindOf, Folder!Leaf, Folder!Prefix
  <2> QED
    BY <2>2, <2>6
<1> HIDE DEF T, entry
<1>3. K = Listed(d)
  BY <1>2 DEF Listed
<1>4. \A x \in K : entry(x).path = x /\ entry(x).kind = KindOf(x)
  BY <1>2, <1>3 DEF Listed
<1> HIDE DEF K
<1>5. {Line(Join(e.path), e.kind) : e \in {entry(x) : x \in K}} = {Line(Join(entry(x).path), entry(x).kind) : x \in K}
  OBVIOUS
<1>6. {Line(Join(entry(x).path), entry(x).kind) : x \in K} = {Line(Join(x), KindOf(x)) : x \in K}
  BY <1>4
<1> QED
  BY <1>1, <1>3, <1>5, <1>6

\* What list prints for a folder is what the listing over names says, whatever
\* the names are made of, however deep the paths and however the rows came and
\* went, when the paths given to the store are names with single slashes between
\* them.  Without that hypothesis it is false: a//b is a valid path.
THEOREM ListIsOfNames ==
  ASSUME \A x \in Path : \E y \in Folder!NamePath : x = Join(y)
  PROVE  CliSpec => []ListIsFolderListing
<1>1. ASSUME CliInv PROVE ListIsFolderListing
  <2>1. IsFiniteSet(rows) /\ \A r \in rows : r.path \in Path
    BY <1>1 DEF CliInv, StoreOK, TypeInv, TypeOK, Row
  <2>2. RowsAreNames
    BY <2>1 DEF RowsAreNames
  <2>3. ASSUME NEW d \in Folder!Dir
        PROVE  ListFolder(rows, Join(d)) = {Line(Join(e.path), e.kind) : e \in Folder!ListFolder(Versions, d)}
    BY <2>1, <2>2, BytesList, NamesList
  <2> QED
    BY <2>3 DEF ListIsFolderListing
<1> QED
  BY <1>1, CliInvariant, PTL
=============================================================================
