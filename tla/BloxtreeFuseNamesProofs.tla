----------------------- MODULE BloxtreeFuseNamesProofs -----------------------
(***************************************************************************)
(* Theorems about the names of the FUSE driver, for any names, any depth   *)
(* of paths and any store: what readdir shows lookup finds, every stored   *)
(* file can be reached, names are not confused, and a directory stays as   *)
(* long as anything keeps it.                                              *)
(***************************************************************************)
EXTENDS BloxtreeFuseProofs, FiniteSetTheorems, FunctionTheorems

-----------------------------------------------------------------------------
(* What a name stands for.                                                 *)

\* A path has versions, or something lies below it.
HasVersions(x) == history[x] # <<>>
Kids(x) == HasChildren(history, x) \/ x \in dirs

LEMMA PlainCandidate ==
  ASSUME NEW n \in Name, Plain(n)
  PROVE  /\ n.under = 0 /\ Shadowed(n).under = 1
         /\ Candidate(n) = n /\ Candidate(Shadowed(n)) = n
<1> DEFINE s == [under |-> 1, base |-> n.base]
<1>1. n = [under |-> 0, base |-> n.base] /\ n.under = 0
  BY DEF Name, Plain
<1>2. [n EXCEPT !.under = 0] = n
  BY <1>1 DEF Name
<1>3. Shadowed(n) = s
  <2>1. Shadowed(n) = [n EXCEPT !.under = 1]
    BY <1>1 DEF Shadowed
  <2>2. [[under |-> 0, base |-> n.base] EXCEPT !.under = 1] = s
    OBVIOUS
  <2> QED
    BY <1>1, <2>1, <2>2
<1>4. s.under = 1 /\ [s EXCEPT !.under = 0] = [under |-> 0, base |-> n.base]
  OBVIOUS
<1> HIDE DEF s
<1>5. Candidate(s) = [s EXCEPT !.under = 0]
  BY <1>4 DEF Candidate
<1>6. Candidate(n) = [n EXCEPT !.under = 0]
  BY <1>1 DEF Candidate
<1> QED
  BY <1>1, <1>2, <1>3, <1>4, <1>5, <1>6

\* The cases of resolve_child.
LEMMA ResolveCases ==
  ASSUME NEW d, NEW n, NEW x, n.under \in Nat, x = Child(d, Candidate(n))
  PROVE  Resolve(d, n) = IF n.under > 0
                         THEN IF HasVersions(x) /\ Kids(x) THEN {File(x)} ELSE {}
                         ELSE IF Kids(x) THEN {Folder(x)}
                              ELSE IF HasVersions(x) THEN {File(x)} ELSE {}
<1>1. n.under > 0 <=> n.under # 0
  OBVIOUS
<1>2. File(x).kind = "file" /\ Folder(x).kind = "dir"
  BY DEF File, Folder
<1>3. Resolve(d, n) = {r \in {File(x), Folder(x)} :
                         \/ r.kind = "dir" /\ Kids(x) /\ n.under = 0
                         \/ r.kind = "file" /\ HasVersions(x) /\ (Kids(x) <=> n.under > 0)}
  BY DEF Resolve, HasVersions, Kids
<1>4. CASE n.under > 0
  BY <1>1, <1>2, <1>3, <1>4
<1>5. CASE ~(n.under > 0) /\ Kids(x)
  BY <1>1, <1>2, <1>3, <1>5
<1>6. CASE ~(n.under > 0) /\ ~Kids(x)
  BY <1>1, <1>2, <1>3, <1>6
<1> QED
  BY <1>4, <1>5, <1>6

\* Lookup finds a plain name if and only if its path has versions or something
\* below it.
LEMMA PlainResolves ==
  ASSUME NEW d, NEW n \in Name, Plain(n)
  PROVE  /\ Resolve(d, n) # {} <=> HasVersions(Child(d, n)) \/ Kids(Child(d, n))
         /\ Kids(Child(d, n)) => Folder(Child(d, n)) \in Resolve(d, n)
         /\ HasVersions(Child(d, n)) => \E m \in {n, Shadowed(n)} : File(Child(d, n)) \in Resolve(d, m)
<1> DEFINE x == Child(d, n)
           m == Shadowed(n)
<1>1. x = Child(d, Candidate(n)) /\ x = Child(d, Candidate(m)) /\ n.under = 0 /\ m.under = 1
  BY PlainCandidate
<1> HIDE DEF x, m
<1>2. Resolve(d, n) = IF Kids(x) THEN {Folder(x)} ELSE IF HasVersions(x) THEN {File(x)} ELSE {}
  <2>1. n.under \in Nat /\ ~(n.under > 0)
    BY <1>1
  <2> QED
    BY <1>1, <2>1, ResolveCases
<1>3. Resolve(d, m) = IF HasVersions(x) /\ Kids(x) THEN {File(x)} ELSE {}
  BY <1>1, ResolveCases
<1>4. HasVersions(x) => File(x) \in Resolve(d, n) \/ File(x) \in Resolve(d, m)
  BY <1>2, <1>3
<1>5. /\ Resolve(d, n) # {} <=> HasVersions(x) \/ Kids(x)
      /\ Kids(x) => Folder(x) \in Resolve(d, n)
  BY <1>2
<1> QED
  BY <1>4, <1>5 DEF x, m

\* What a name stands for is the path of its candidate: a folder under the
\* plain name, a file under it if nothing is below, a file under another name
\* if something is.
LEMMA ResolvesTo ==
  ASSUME NEW d, NEW n \in Name, NEW r \in Resolve(d, n)
  PROVE  /\ r.path = Child(d, Candidate(n))
         /\ r.kind = "dir" => n.under = 0
         /\ r.kind = "file" /\ n.under = 0 => ~Kids(r.path)
         /\ r.kind = "file" /\ n.under # 0 => Kids(r.path)
         /\ r.kind \in {"dir", "file"}
<1> DEFINE x == Child(d, Candidate(n))
<1>1. n.under \in Nat
  BY NameAssumption DEF Name
<1> HIDE DEF x
<1>2. Resolve(d, n) = IF n.under > 0
                      THEN IF HasVersions(x) /\ Kids(x) THEN {File(x)} ELSE {}
                      ELSE IF Kids(x) THEN {Folder(x)}
                           ELSE IF HasVersions(x) THEN {File(x)} ELSE {}
  BY <1>1, ResolveCases DEF x
<1>3. /\ File(x).path = x /\ File(x).kind = "file"
      /\ Folder(x).path = x /\ Folder(x).kind = "dir"
  BY DEF File, Folder
<1>4. CASE n.under > 0
  <2>1. r = File(x) /\ Kids(x)
    BY <1>2, <1>4
  <2> QED
    BY <1>1, <1>3, <1>4, <2>1 DEF x
<1>5. CASE ~(n.under > 0) /\ Kids(x)
  <2>1. r = Folder(x)
    BY <1>2, <1>5
  <2> QED
    BY <1>1, <1>3, <1>5, <2>1 DEF x
<1>6. CASE ~(n.under > 0) /\ ~Kids(x)
  <2>1. r = File(x)
    BY <1>2, <1>6
  <2> QED
    BY <1>1, <1>3, <1>6, <2>1 DEF x
<1> QED
  BY <1>4, <1>5, <1>6

\* Whatever is stored, two names of one directory stand for the same file only
\* when they are the two forms that lookup accepts for a shadowed file.
LEMMA NamesApart == NamesUnambiguous
<1> SUFFICES ASSUME NEW d \in Dirs, NEW n \in Name, NEW m \in Name,
                    NEW r \in Resolve(d, n), r \in Resolve(d, m)
             PROVE  n.base = m.base /\ (n = m \/ {n.under, m.under} = {1, 2})
  BY DEF NamesUnambiguous
<1>1. d \in Seq(Name) /\ Candidate(n) \in Name /\ Candidate(m) \in Name
  BY DirIsSeq, CandidateName DEF Dirs
<1>2. Child(d, Candidate(n)) = Child(d, Candidate(m))
  BY ResolvesTo
<1>3. Candidate(n) = Candidate(m)
  BY <1>1, <1>2 DEF Child
<1>4. n.under = 0 <=> m.under = 0
  BY ResolvesTo
<1>5. /\ n.under \in Nat /\ m.under \in Nat
      /\ n = [under |-> n.under, base |-> n.base]
      /\ m = [under |-> m.under, base |-> m.base]
  BY NameAssumption DEF Name
<1>6. /\ Candidate(n).base = n.base /\ Candidate(m).base = m.base
      /\ Candidate(n).under = IF n.under >= 2 THEN n.under - 2 ELSE 0
      /\ Candidate(m).under = IF m.under >= 2 THEN m.under - 2 ELSE 0
  BY DEF Candidate, Name
<1>7. n.under = m.under \/ {n.under, m.under} = {1, 2}
  BY <1>3, <1>4, <1>5, <1>6
<1> QED
  BY <1>3, <1>5, <1>6, <1>7

\* In every reachable state the names of a directory are unambiguous.
THEOREM NamesAreUnambiguous == Spec => []NamesUnambiguous
BY NamesApart, PTL DEF Spec

-----------------------------------------------------------------------------
(* Stored files can be reached.                                            *)

LEMMA InitialPart ==
  ASSUME NEW x \in NamePath, NEW i \in 1..(Len(x) - 1)
  PROVE  /\ SubSeq(Front(x), 1, i) = SubSeq(x, 1, i)
         /\ Front(x)[i] = x[i] /\ x[i] \in Name
         /\ Child(SubSeq(Front(x), 1, i - 1), x[i]) = SubSeq(x, 1, i)
         /\ SubSeq(x, 1, i) \in Dir
         /\ x \in Below[SubSeq(x, 1, i)]
<1> DEFINE n == Len(x)
           s == SubSeq(x, 1, i)
           t == SubSeq(Front(x), 1, i - 1)
<1>1. x \in Seq(Name) /\ n \in 1..MaxDepth /\ n \in Nat /\ i \in Nat /\ i >= 1 /\ i <= n - 1
  BY DirIsSeq DEF Dir
<1>2. Front(x) \in Seq(Name) /\ Len(Front(x)) = n - 1 /\ \A j \in 1..(n - 1) : Front(x)[j] = x[j]
  BY <1>1 DEF Front
<1>3. s \in Seq(Name) /\ Len(s) = i /\ \A j \in 1..i : s[j] = x[j]
  BY <1>1
<1>4. SubSeq(Front(x), 1, i) = s
  <2> DEFINE u == SubSeq(Front(x), 1, i)
  <2>1. u \in Seq(Name) /\ Len(u) = i /\ \A j \in 1..i : u[j] = Front(x)[j]
    BY <1>1, <1>2
  <2>2. \A j \in 1..i : u[j] = s[j]
    BY <1>1, <1>2, <1>3, <2>1
  <2> HIDE DEF u, s
  <2> QED
    BY <1>3, <2>1, <2>2, SeqEqual DEF u
<1>5. Child(t, x[i]) = s
  <2>1. t \in Seq(Name) /\ Len(t) = i - 1 /\ \A j \in 1..(i - 1) : t[j] = Front(x)[j]
    BY <1>1, <1>2
  <2>2. x[i] \in Name
    BY <1>1
  <2> DEFINE u == Append(t, x[i])
  <2> HIDE DEF t, s
  <2>3. u \in Seq(Name) /\ Len(u) = i /\ u[i] = x[i] /\ \A j \in 1..(i - 1) : u[j] = t[j]
    BY <1>1, <2>1, <2>2
  <2>4. ASSUME NEW j \in 1..i PROVE u[j] = s[j]
    <3>1. CASE j = i
      BY <1>1, <1>3, <2>3, <3>1
    <3>2. CASE j # i
      <4>1. j \in 1..(i - 1) /\ j \in 1..(n - 1)
        BY <1>1, <3>2
      <4> QED
        BY <1>2, <1>3, <2>1, <2>3, <4>1
    <3> QED
      BY <3>1, <3>2
  <2> HIDE DEF u
  <2>5. u = s
    BY <1>3, <2>3, <2>4, SeqEqual
  <2> QED
    BY <2>5 DEF Child, u
<1>6. s \in NamePath
  <2>1. Len(s) \in 1..MaxDepth
    BY <1>1, <1>3, NameAssumption
  <2> HIDE DEF s
  <2> QED
    BY <1>3, <2>1, SeqIsPath
<1>7. IsStrictPrefix(s, x)
  <2>1. SubSeq(s, 1, Len(s)) = s
    BY <1>3
  <2>2. SubSeq(x, 1, Len(s)) = s /\ Len(s) <= Len(x) /\ Len(s) # Len(x)
    BY <1>1, <1>3
  <2> HIDE DEF s
  <2> QED
    BY <2>1, <2>2 DEF IsStrictPrefix, IsPrefix
<1>8. s \in Dir /\ x \in Below[s]
  BY <1>6, <1>7 DEF Dir, Below
<1>9. Front(x)[i] = x[i] /\ x[i] \in Name
  BY <1>1, <1>2
<1> QED
  BY <1>4, <1>5, <1>8, <1>9

\* The directories above a stored plain path are folders because it is there.
LEMMA FilesReachable == StoredFilesReachable
<1> SUFFICES ASSUME NEW x \in NamePath, history[x] # <<>>, \A i \in DOMAIN x : Plain(x[i])
             PROVE  /\ Reachable(Front(x))
                    /\ \E n \in {Last(x), Shadowed(Last(x))} : File(x) \in Resolve(Front(x), n)
  BY DEF StoredFilesReachable
<1>1. x \in Seq(Name) /\ Len(x) \in 1..MaxDepth /\ Len(x) \in Nat /\ DOMAIN x = 1..Len(x)
  <2>1. x \in Seq(Name) /\ Len(x) \in 0..MaxDepth
    BY DirIsSeq DEF Dir
  <2>2. \E k \in 1..MaxDepth : x \in [1..k -> Name]
    BY DEF NamePath
  <2> QED
    BY <2>1, <2>2
<1>2. Front(x) \in Seq(Name) /\ Len(Front(x)) = Len(x) - 1
  BY <1>1 DEF Front
<1>3. ASSUME NEW i \in 1..Len(Front(x))
      PROVE  Folder(SubSeq(Front(x), 1, i)) \in Resolve(SubSeq(Front(x), 1, i - 1), Front(x)[i])
  <2>1. i \in 1..(Len(x) - 1) /\ i \in DOMAIN x
    BY <1>1, <1>2
  <2> DEFINE up == SubSeq(Front(x), 1, i - 1)
  <2>2. /\ SubSeq(Front(x), 1, i) = SubSeq(x, 1, i) /\ Front(x)[i] = x[i] /\ x[i] \in Name
        /\ Child(up, x[i]) = SubSeq(x, 1, i)
        /\ x \in Below[SubSeq(x, 1, i)]
    BY <2>1, InitialPart
  <2> HIDE DEF up
  <2>3. Kids(Child(up, x[i]))
    BY <2>2 DEF Kids, HasChildren
  <2>4. Folder(Child(up, x[i])) \in Resolve(up, x[i])
    BY <2>1, <2>2, <2>3, PlainResolves
  <2> QED
    BY <2>2, <2>4 DEF up
<1>4. Last(x) \in Name /\ Plain(Last(x)) /\ Child(Front(x), Last(x)) = x
  <2>1. Last(x) \in Name /\ Plain(Last(x))
    BY <1>1 DEF Last
  <2> DEFINE u == Append(Front(x), Last(x))
  <2>2. /\ u \in Seq(Name) /\ Len(u) = Len(Front(x)) + 1
        /\ u[Len(Front(x)) + 1] = Last(x)
        /\ \A j \in 1..Len(Front(x)) : u[j] = Front(x)[j]
    BY <1>2, <2>1, AppendProperties
  <2>3. \A j \in 1..(Len(x) - 1) : Front(x)[j] = x[j]
    BY <1>1 DEF Front
  <2>4. Last(x) = x[Len(x)]
    BY DEF Last
  <2> HIDE DEF u
  <2>5. ASSUME NEW j \in 1..Len(x) PROVE u[j] = x[j]
    <3>1. CASE j = Len(x)
      BY <1>1, <1>2, <2>2, <2>4, <3>1
    <3>2. CASE j # Len(x)
      <4>1. Len(x) \in Nat
        BY <1>1
      <4>2. j \in 1..(Len(x) - 1)
        BY <3>2, <4>1
      <4> QED
        BY <1>2, <2>2, <2>3, <4>2
    <3> QED
      BY <3>1, <3>2
  <2>6. Len(u) = Len(x)
    BY <1>1, <1>2, <2>2
  <2> HIDE DEF u
  <2>7. u = x
    BY <1>1, <2>2, <2>5, <2>6, SeqEqual
  <2> QED
    BY <2>1, <2>7 DEF u, Child
<1>5. \E n \in {Last(x), Shadowed(Last(x))} : File(x) \in Resolve(Front(x), n)
  BY <1>4, PlainResolves DEF HasVersions
<1> QED
  BY <1>3, <1>5 DEF Reachable

\* In every reachable state a client can reach every stored file whose path has
\* no leading underscores.
THEOREM StoredFilesAreReachable == Spec => []StoredFilesReachable
BY FilesReachable, PTL DEF Spec
-----------------------------------------------------------------------------
(* What readdir shows.                                                     *)

HistoryTyped == history \in [NamePath -> Seq(Content)]

\* The children of a directory are named by their last name.
LEMMA ChildNamed ==
  ASSUME NEW d \in Dirs, NEW m \in Name
  PROVE  Last(Child(d, m)) = m /\ Child(d, m) \in Children(d) /\ Child(d, m) \in NamePath
<1>1. d \in Dir /\ Len(d) < MaxDepth /\ Child(d, m) \in NamePath
  BY NamesArePaths
<1>2. d \in Seq(Name)
  BY <1>1, DirIsSeq
<1>3. Last(Append(d, m)) = m
  BY <1>2, AppendProperties DEF Last
<1> QED
  BY <1>1, <1>3 DEF Child, Children

\* A component is listed if and only if it has versions or something below it
\* has.
LEMMA RowsThere ==
  ASSUME HistoryTyped, NEW x \in NamePath
  PROVE  RowsUnder(history, x) # {} <=> HasVersions(x) \/ HasChildren(history, x)
<1>1. ASSUME NEW y \in NamePath PROVE DOMAIN history[y] = {} <=> history[y] = <<>>
  <2>1. history[y] \in Seq(Content)
    BY DEF HistoryTyped
  <2>2. DOMAIN history[y] = 1..Len(history[y]) /\ Len(history[y]) \in Nat
    BY <2>1
  <2>3. history[y] = <<>> <=> Len(history[y]) = 0
    BY <2>1, EmptySeq
  <2>4. \A k \in Nat : 1..k = {} <=> k = 0
    <3>1. \A k \in Nat : k # 0 => 1 \in 1..k
      OBVIOUS
    <3> QED
      BY <3>1
  <2> QED
    BY <2>2, <2>3, <2>4
<1>2. Below[x] \subseteq NamePath
  BY DEF Below, Dir
<1>3. ASSUME NEW y \in Below[x] \cup {x}, history[y] # <<>>
      PROVE  RowsUnder(history, x) # {}
  <2>1. PICK i \in DOMAIN history[y] : TRUE
    BY <1>1, <1>2, <1>3
  <2>2. <<y, i>> \in RowsUnder(history, x)
    BY <2>1 DEF RowsUnder
  <2> QED
    BY <2>2
<1>4. ASSUME NEW row \in RowsUnder(history, x)
      PROVE  HasVersions(x) \/ HasChildren(history, x)
  <2>1. PICK y \in Below[x] \cup {x} : row \in {y} \X DOMAIN history[y]
    BY DEF RowsUnder
  <2>2. history[y] # <<>>
    BY <1>1, <1>2, <2>1
  <2> QED
    BY <2>1, <2>2 DEF HasVersions, HasChildren
<1> QED
  BY <1>3, <1>4 DEF HasVersions, HasChildren

\* An entry of the listing is about a child that has rows, and each such child
\* has one.
LEMMA CoreEntries ==
  ASSUME NEW d \in Dirs
  PROVE  /\ \A e \in ListFolder(history, d) :
              e.path \in Children(d) /\ RowsUnder(history, e.path) # {}
         /\ \A x \in Children(d) : RowsUnder(history, x) # {} =>
              \E e \in ListFolder(history, d) : e.path = x
<1>1. \A x : Leaf(x).path = x /\ Prefix(x).path = x
  BY DEF Leaf, Prefix
<1> QED
  BY <1>1 DEF ListFolder

\* A plain name is shown if its child has rows or is an ephemeral directory,
\* and only then.
LEMMA PlainShown ==
  ASSUME NEW d \in Dirs, NEW n \in Name, Plain(n)
  PROVE  (\E e \in DirEntries(d) : e.name = n)
           <=> RowsUnder(history, Child(d, n)) # {} \/ Child(d, n) \in dirs
<1> DEFINE core == ListFolder(history, d)
           both == {e \in core : e.kind = "prefix" /\ history[e.path] # <<>>}
           plain == {Entry(Last(e.path),
                       IF e.kind = "prefix" THEN Folder(e.path) ELSE File(e.path)) : e \in core}
           beside == {Entry(Shadowed(Last(e.path)), File(e.path)) : e \in both}
           taken == {e.name : e \in plain \cup beside}
           free == {Entry(Last(x), Folder(x)) :
                      x \in {y \in dirs \cap Children(d) : Last(y) \notin taken}}
<1>1. DirEntries(d) = (plain \cup beside) \cup free
  BY DEF DirEntries
<1>2. \A m, r : Entry(m, r).name = m
  BY DEF Entry
<1>3. ASSUME NEW x \in Children(d)
      PROVE  Last(x) \in Name /\ (Last(x) = n <=> x = Child(d, n))
  <2>1. PICK m \in Name : x = Child(d, m)
    BY DEF Children
  <2> QED
    BY <2>1, ChildNamed
<1>4. Child(d, n) \in Children(d) /\ Last(Child(d, n)) = n
  BY ChildNamed
<1>5. ASSUME NEW m \in Name PROVE Shadowed(m) # n
  <2>1. Shadowed(m).under = m.under + 1 /\ m.under \in Nat
    BY NameAssumption DEF Shadowed, Name
  <2> QED
    BY <2>1 DEF Plain
<1>6. ASSUME NEW e \in plain, e.name = n PROVE RowsUnder(history, Child(d, n)) # {}
  <2>1. PICK c \in core : e.name = Last(c.path)
    BY <1>2
  <2> QED
    BY <1>3, <1>6, <2>1, CoreEntries
<1>7. ASSUME NEW e \in beside PROVE e.name # n
  <2>1. PICK c \in both : e.name = Shadowed(Last(c.path))
    BY <1>2
  <2> QED
    BY <1>3, <1>5, <2>1, CoreEntries
<1>8. ASSUME NEW e \in free, e.name = n PROVE Child(d, n) \in dirs
  <2>1. PICK x \in dirs \cap Children(d) : e.name = Last(x)
    BY <1>2
  <2> QED
    BY <1>3, <1>8, <2>1
<1>9. ASSUME RowsUnder(history, Child(d, n)) # {} PROVE \E e \in plain : e.name = n
  <2>1. PICK c \in core : c.path = Child(d, n)
    BY <1>4, <1>9, CoreEntries
  <2> DEFINE e == Entry(Last(c.path),
                        IF c.kind = "prefix" THEN Folder(c.path) ELSE File(c.path))
  <2>2. e \in plain
    BY <2>1
  <2>3. e.name = n
    BY <1>2, <1>4, <2>1
  <2> QED
    BY <2>2, <2>3
<1>10. ASSUME Child(d, n) \in dirs
       PROVE  n \in taken \/ \E e \in free : e.name = n
  <2>1. CASE n \notin taken
    <3> DEFINE e == Entry(Last(Child(d, n)), Folder(Child(d, n)))
    <3> HIDE DEF taken
    <3>1. e \in free
      BY <1>4, <1>10, <2>1
    <3>2. e.name = n
      BY <1>2, <1>4
    <3> QED
      BY <3>1, <3>2
  <2> QED
    BY <2>1
<1>11. n \in taken => \E e \in plain \cup beside : e.name = n
  OBVIOUS
<1> HIDE DEF plain, beside, free, taken
<1> QED
  BY <1>1, <1>6, <1>7, <1>8, <1>9, <1>10, <1>11

LEMMA NamesAreShown ==
  ASSUME HistoryTyped
  PROVE  NamesListed
<1> SUFFICES ASSUME NEW d \in Dirs, NEW n \in Name, Plain(n)
             PROVE  (\E e \in DirEntries(d) : e.name = n) <=> Resolve(d, n) # {}
  BY DEF NamesListed
<1>1. Child(d, n) \in NamePath
  BY ChildNamed
<1> QED
  BY <1>1, PlainShown, RowsThere, PlainResolves DEF Kids

\* In every reachable state readdir shows a name without leading underscores if
\* and only if lookup finds it.
THEOREM ShownNamesAreFound == Spec => []NamesListed
<1>1. FuseTypeOK => HistoryTyped
  BY DEF FuseTypeOK, HistoryTyped
<1>2. FuseTypeOK => NamesListed
  BY <1>1, NamesAreShown
<1> QED
  BY <1>2, FuseTypeCorrect, PTL
-----------------------------------------------------------------------------
(* What readdir shows, away from what sets it against lookup.              *)

LEMMA NamesFinite ==
  ASSUME IsFiniteSet(Base)
  PROVE  IsFiniteSet(Name)
<1> DEFINE X == (0..MaxUnder) \X Base
           f == [p \in X |-> [under |-> p[1], base |-> p[2]]]
<1>1. IsFiniteSet(X)
  <2> DEFINE U == 0..MaxUnder
  <2>1. IsFiniteSet(U)
    BY NameAssumption, FS_Interval
  <2> HIDE DEF U
  <2>2. IsFiniteSet(U \X Base)
    BY <2>1, FS_Product
  <2> QED
    BY <2>2 DEF U
<1>2. f \in [X -> Name]
  BY DEF Name
<1>3. ASSUME NEW n \in Name PROVE \E p \in X : f[p] = n
  <2>1. <<n.under, n.base>> \in X /\ n = [under |-> n.under, base |-> n.base]
    BY DEF Name
  <2> HIDE DEF X
  <2>2. f[<<n.under, n.base>>] = n
    BY <2>1
  <2> QED
    BY <2>1, <2>2
<1> HIDE DEF X, f
<1>4. f \in Surjection(X, Name)
  BY <1>2, <1>3, Fun_IsSurj
<1> QED
  BY <1>1, <1>4, FS_Surjection

LEMMA PathsFinite ==
  ASSUME IsFiniteSet(Base)
  PROVE  IsFiniteSet(NamePath)
<1> DEFINE F(n) == [1..n -> Name]
           S == {F(n) : n \in 1..MaxDepth}
<1>1. ASSUME NEW n \in 1..MaxDepth PROVE IsFiniteSet(F(n))
  <2> DEFINE I == 1..n
             T == SUBSET (I \X Name)
             g == [h \in F(n) |-> {<<i, h[i]>> : i \in I}]
  <2>1. IsFiniteSet(T)
    <3>1. IsFiniteSet(I) /\ IsFiniteSet(Name)
      BY FS_Interval, NamesFinite
    <3> HIDE DEF I
    <3> QED
      BY <3>1, FS_Product, FS_SUBSET
  <2> HIDE DEF I
  <2>2. F(n) = [I -> Name]
    BY DEF I
  <2> HIDE DEF F
  <2>3. g \in [F(n) -> T]
    BY <2>2
  <2>4. ASSUME NEW h \in F(n), NEW k \in F(n), g[h] = g[k] PROVE h = k
    <3>1. ASSUME NEW i \in I PROVE h[i] = k[i]
      <4>1. <<i, h[i]>> \in g[h]
        OBVIOUS
      <4>2. <<i, h[i]>> \in g[k]
        BY <2>4, <4>1
      <4>3. PICK j \in I : <<i, h[i]>> = <<j, k[j]>>
        BY <4>2
      <4> QED
        BY <4>3
    <3> QED
      BY <2>2, <3>1
  <2> HIDE DEF T, g
  <2>5. g \in Injection(F(n), T)
    BY <2>3, <2>4, Fun_IsInj
  <2> QED
    BY <2>1, <2>5, FS_Injection
<1>2. IsFiniteSet(S)
  <2> DEFINE I == 1..MaxDepth
             g == [n \in I |-> F(n)]
  <2>1. IsFiniteSet(I)
    BY NameAssumption, FS_Interval
  <2> HIDE DEF I, F
  <2>2. S = {F(n) : n \in I}
    BY DEF I
  <2> HIDE DEF S
  <2>3. g \in [I -> S] /\ \A s \in S : \E n \in I : g[n] = s
    BY <2>2
  <2> HIDE DEF g
  <2>4. g \in Surjection(I, S)
    BY <2>3, Fun_IsSurj
  <2> QED
    BY <2>1, <2>4, FS_Surjection
<1>3. NamePath = UNION S /\ \A s \in S : IsFiniteSet(s)
  BY <1>1 DEF NamePath
<1> HIDE DEF S
<1> QED
  BY <1>2, <1>3, FS_UNION

LEMMA RowsFinite ==
  ASSUME IsFiniteSet(Base), HistoryTyped, NEW x \in NamePath
  PROVE  IsFiniteSet(RowsUnder(history, x))
<1> DEFINE B == Below[x] \cup {x}
           R(y) == {y} \X DOMAIN history[y]
           S == {R(y) : y \in B}
           g == [y \in B |-> R(y)]
<1>1. IsFiniteSet(B) /\ B \subseteq NamePath
  <2>1. B \in SUBSET NamePath
    BY DEF Below, Dir
  <2> QED
    BY <2>1, PathsFinite, FS_Subset
<1>2. ASSUME NEW y \in B PROVE IsFiniteSet(R(y))
  <2>1. history[y] \in Seq(Content)
    BY <1>1 DEF HistoryTyped
  <2>2. DOMAIN history[y] = 1..Len(history[y]) /\ Len(history[y]) \in Nat
    BY <2>1
  <2> DEFINE D == DOMAIN history[y]
             Y == {y}
  <2>3. IsFiniteSet(D) /\ IsFiniteSet(Y)
    <3> DEFINE l == Len(history[y])
    <3>1. l \in Nat /\ D = 1..l
      BY <2>2
    <3> HIDE DEF l, D
    <3>2. IsFiniteSet(1..l)
      BY <3>1, FS_Interval
    <3>3. IsFiniteSet(Y)
      BY FS_Singleton
    <3> QED
      BY <3>1, <3>2, <3>3
  <2> HIDE DEF D, Y
  <2>4. IsFiniteSet(Y \X D)
    BY <2>3, FS_Product
  <2> QED
    BY <2>4 DEF D, Y
<1>3. RowsUnder(history, x) = UNION S
  BY DEF RowsUnder
<1> HIDE DEF B, R
<1>4. g \in [B -> S] /\ (\A s \in S : \E y \in B : g[y] = s) /\ \A s \in S : IsFiniteSet(s)
  BY <1>2
<1> HIDE DEF g, S
<1>5. IsFiniteSet(S)
  BY <1>1, <1>4, Fun_IsSurj, FS_Surjection
<1> QED
  BY <1>3, <1>4, <1>5, FS_UNION

\* The listing takes a component for a path when it has one version and
\* nothing below it, for a prefix when something is below it or it has two.
LEMMA KindListed ==
  ASSUME IsFiniteSet(Base), HistoryTyped, NEW d \in Dirs, NEW e \in ListFolder(history, d)
  PROVE  /\ e.kind \in {"path", "prefix"}
         /\ e.kind = "path" => ~HasChildren(history, e.path) /\ Len(history[e.path]) = 1
         /\ e.kind = "prefix" => HasChildren(history, e.path) \/ Len(history[e.path]) >= 2
<1>1. PICK x \in Children(d) :
        /\ RowsUnder(history, x) # {}
        /\ e = IF Cardinality(RowsUnder(history, x)) = 1 /\ history[x] # <<>>
               THEN Leaf(x) ELSE Prefix(x)
  BY DEF ListFolder
<1>2. x \in NamePath
  <2>1. PICK m \in Name : x = Child(d, m)
    BY DEF Children
  <2> QED
    BY <2>1, ChildNamed
<1> DEFINE R == RowsUnder(history, x)
<1>3. /\ Leaf(x).path = x /\ Leaf(x).kind = "path"
      /\ Prefix(x).path = x /\ Prefix(x).kind = "prefix"
  BY DEF Leaf, Prefix
<1>4. /\ history[x] \in Seq(Content) /\ Len(history[x]) \in Nat
      /\ history[x] = <<>> <=> Len(history[x]) = 0
      /\ DOMAIN history[x] = 1..Len(history[x])
  <2>1. history[x] \in Seq(Content)
    BY <1>2 DEF HistoryTyped
  <2> QED
    BY <2>1, EmptySeq
<1>5. ASSUME NEW y \in Below[x] \cup {x}, NEW i \in DOMAIN history[y] PROVE <<y, i>> \in R
  BY DEF RowsUnder
<1>6. CASE e = Leaf(x)
  <2>1. Cardinality(R) = 1 /\ history[x] # <<>>
    BY <1>1, <1>3, <1>6
  <2>2. PICK row : R = {row}
    <3>1. IsFiniteSet(R)
      BY <1>2, RowsFinite
    <3> HIDE DEF R
    <3> QED
      BY <2>1, <3>1, FS_Singleton
  <2> HIDE DEF R
  <2>3. 1 \in DOMAIN history[x] /\ row = <<x, 1>>
    <3>1. Len(history[x]) # 0
      BY <1>4, <2>1
    <3>2. 1 \in DOMAIN history[x]
      BY <1>4, <3>1
    <3> QED
      BY <1>5, <2>2, <3>2
  <2>4. Len(history[x]) = 1
    <3> DEFINE l == Len(history[x])
    <3>1. 2 \notin DOMAIN history[x]
      BY <1>5, <2>2, <2>3
    <3>2. l \in Nat /\ 1 \in 1..l /\ 2 \notin 1..l
      BY <1>4, <2>3, <3>1
    <3> HIDE DEF l
    <3>3. l = 1
      BY <3>2
    <3> QED
      BY <3>3 DEF l
  <2>5. ~HasChildren(history, x)
    <3> SUFFICES ASSUME NEW y \in Below[x], history[y] # <<>> PROVE FALSE
      BY DEF HasChildren
    <3>1. y \in NamePath /\ y # x
      BY <1>2 DEF Below, Dir, IsStrictPrefix
    <3>2. 1 \in DOMAIN history[y]
      <4>1. history[y] \in Seq(Content)
        BY <3>1 DEF HistoryTyped
      <4> QED
        BY <4>1, EmptySeq
    <3> QED
      BY <1>5, <2>2, <2>3, <3>1, <3>2
  <2> QED
    <3>1. e.path = x /\ e.kind = "path"
      BY <1>3, <1>6
    <3> QED
      BY <2>4, <2>5, <3>1
<1>7. CASE e = Prefix(x)
  <2>1. HasChildren(history, x) \/ history[x] # <<>>
    BY <1>1, <1>2, RowsThere DEF HasVersions
  <2>2. ASSUME ~HasChildren(history, x), Len(history[x]) = 1 PROVE FALSE
    <3>1. ASSUME NEW row \in R PROVE row = <<x, 1>>
      <4>1. PICK y \in Below[x] \cup {x} : row \in {y} \X DOMAIN history[y]
        BY DEF RowsUnder
      <4>2. y = x
        <5>1. CASE y \in Below[x]
          <6>1. y \in NamePath /\ history[y] = <<>>
            BY <1>2, <2>2, <5>1 DEF Below, Dir, HasChildren
          <6>2. DOMAIN history[y] = {}
            BY <6>1
          <6> QED
            BY <4>1, <6>2
        <5> QED
          BY <5>1
      <4> QED
        BY <1>4, <2>2, <4>1, <4>2
    <3>2. R = {<<x, 1>>}
      BY <1>1, <3>1
    <3>3. Cardinality(R) = 1
      BY <3>2, FS_Singleton
    <3>4. e = Leaf(x)
      BY <1>1, <1>4, <2>2, <3>3
    <3> QED
      BY <1>3, <1>7, <3>4
  <2>3. HasChildren(history, x) \/ Len(history[x]) >= 2
    <3> DEFINE l == Len(history[x])
    <3>1. CASE HasChildren(history, x)
      BY <3>1
    <3>2. CASE ~HasChildren(history, x)
      <4>1. l \in Nat /\ l # 0 /\ l # 1
        BY <1>4, <2>1, <2>2, <3>2
      <4> HIDE DEF l
      <4>2. l >= 2
        BY <4>1
      <4> QED
        BY <4>2 DEF l
    <3> QED
      BY <3>1, <3>2
  <2>4. e.path = x /\ e.kind = "prefix"
    BY <1>3, <1>7
  <2> QED
    BY <2>3, <2>4
<1> QED
  BY <1>1, <1>6, <1>7

LEMMA EntriesResolve ==
  ASSUME IsFiniteSet(Base), HistoryTyped, OneOfAKind
  PROVE  ListingAgrees
<1> SUFFICES ASSUME NEW d \in Dirs, NEW e \in DirEntries(d)
             PROVE  e.is \in Resolve(d, e.name)
  BY DEF ListingAgrees
<1> DEFINE core == ListFolder(history, d)
           both == {c \in core : c.kind = "prefix" /\ history[c.path] # <<>>}
           plain == {Entry(Last(c.path),
                       IF c.kind = "prefix" THEN Folder(c.path) ELSE File(c.path)) : c \in core}
           beside == {Entry(Shadowed(Last(c.path)), File(c.path)) : c \in both}
           taken == {o.name : o \in plain \cup beside}
           free == {Entry(Last(x), Folder(x)) :
                      x \in {y \in dirs \cap Children(d) : Last(y) \notin taken}}
<1>1. DirEntries(d) = (plain \cup beside) \cup free
  BY DEF DirEntries
<1>2. \A m, r : Entry(m, r).name = m /\ Entry(m, r).is = r
  BY DEF Entry
  \* What a shown child stands for under its name and its shadowed name.
<1>3. ASSUME NEW x \in Children(d), RowsUnder(history, x) # {} \/ x \in dirs
      PROVE  /\ Resolve(d, Last(x)) = IF Kids(x) THEN {Folder(x)}
                                      ELSE IF HasVersions(x) THEN {File(x)} ELSE {}
             /\ Resolve(d, Shadowed(Last(x))) =
                  IF HasVersions(x) /\ Kids(x) THEN {File(x)} ELSE {}
  <2>1. PICK n \in Name : x = Child(d, n)
    BY DEF Children
  <2>2. Last(x) = n /\ Plain(n)
    BY <1>3, <2>1, ChildNamed DEF OneOfAKind
  <2> DEFINE m == Shadowed(n)
  <2>3. x = Child(d, Candidate(n)) /\ x = Child(d, Candidate(m)) /\ n.under = 0 /\ m.under = 1
    BY <2>1, <2>2, PlainCandidate
  <2> HIDE DEF m
  <2>4. Resolve(d, n) = IF Kids(x) THEN {Folder(x)} ELSE IF HasVersions(x) THEN {File(x)} ELSE {}
    <3>1. n.under \in Nat /\ ~(n.under > 0)
      BY <2>3
    <3> QED
      BY <2>3, <3>1, ResolveCases
  <2>5. Resolve(d, m) = IF HasVersions(x) /\ Kids(x) THEN {File(x)} ELSE {}
    BY <2>3, ResolveCases
  <2> QED
    BY <2>2, <2>4, <2>5 DEF m
<1>4. ASSUME NEW c \in core
      PROVE  /\ c.path \in Children(d) /\ RowsUnder(history, c.path) # {}
             /\ c.kind = "prefix" => Kids(c.path)
             /\ c.kind # "prefix" => HasVersions(c.path) /\ ~Kids(c.path)
  <2>1. c.path \in Children(d) /\ RowsUnder(history, c.path) # {}
    BY CoreEntries
  <2> DEFINE x == c.path
  <2>2. /\ c.kind \in {"path", "prefix"}
        /\ c.kind = "path" => ~HasChildren(history, x) /\ Len(history[x]) = 1
        /\ c.kind = "prefix" => HasChildren(history, x) \/ Len(history[x]) >= 2
    BY KindListed
  <2>3. HasChildren(history, x) \/ IF x \in dirs THEN Len(history[x]) # 1 ELSE Len(history[x]) <= 1
    BY <2>1 DEF OneOfAKind
  <2>4. Len(history[x]) \in Nat /\ (Len(history[x]) = 1 => history[x] # <<>>)
    <3>1. PICK m \in Name : x = Child(d, m)
      BY <2>1 DEF Children
    <3>2. x \in NamePath
      BY <3>1, ChildNamed
    <3> HIDE DEF x
    <3>3. history[x] \in Seq(Content)
      BY <3>2 DEF HistoryTyped
    <3>4. Len(history[x]) \in Nat
      BY <3>3
    <3>5. history[x] = <<>> => Len(history[x]) = 0
      BY <3>3, EmptySeq
    <3>6. Len(history[x]) = 1 => history[x] # <<>>
      BY <3>5
    <3> QED
      BY <3>4, <3>6
  <2> HIDE DEF x
  <2>5. c.kind = "prefix" => Kids(x)
    BY <2>2, <2>3, <2>4 DEF Kids
  <2>6. c.kind # "prefix" => HasVersions(x) /\ ~Kids(x)
    BY <2>2, <2>3, <2>4 DEF Kids, HasVersions
  <2> QED
    BY <2>1, <2>5, <2>6 DEF x
<1>5. CASE e \in plain
  <2>1. PICK c \in core : e = Entry(Last(c.path),
                                    IF c.kind = "prefix" THEN Folder(c.path) ELSE File(c.path))
    BY <1>5
  <2>2. e.name = Last(c.path) /\ e.is = IF c.kind = "prefix" THEN Folder(c.path) ELSE File(c.path)
    BY <1>2, <2>1
  <2> HIDE DEF core
  <2> QED
    BY <1>3, <1>4, <2>2
<1>6. CASE e \in beside
  <2>1. PICK c \in both : e = Entry(Shadowed(Last(c.path)), File(c.path))
    BY <1>6
  <2>2. e.name = Shadowed(Last(c.path)) /\ e.is = File(c.path)
    BY <1>2, <2>1
  <2>3. c \in core /\ c.kind = "prefix" /\ HasVersions(c.path)
    BY <2>1 DEF HasVersions
  <2> HIDE DEF core
  <2> QED
    BY <1>3, <1>4, <2>2, <2>3
<1>7. CASE e \in free
  <2>1. PICK x \in dirs \cap Children(d) : e = Entry(Last(x), Folder(x))
    BY <1>7
  <2>2. e.name = Last(x) /\ e.is = Folder(x)
    BY <1>2, <2>1
  <2> QED
    BY <1>3, <2>1, <2>2 DEF Kids
<1> HIDE DEF plain, beside, free
<1> QED
  BY <1>1, <1>5, <1>6, <1>7

\* What readdir says that a name is, lookup says too, in every reachable state
\* in which names are plain and none of them is two things at once: a file with
\* a second version and nothing below it, an ephemeral directory that has become
\* a stored file and a leading underscore are all that sets them apart.
THEOREM ListingAgreesOtherwise ==
  ASSUME IsFiniteSet(Base)
  PROVE  Spec => []ReaddirAgrees
<1>1. FuseTypeOK => HistoryTyped
  BY DEF FuseTypeOK, HistoryTyped
<1>2. FuseTypeOK => ReaddirAgrees
  BY <1>1, EntriesResolve DEF ReaddirAgrees
<1> QED
  BY <1>2, FuseTypeCorrect, PTL
-----------------------------------------------------------------------------
(* Directories that stay.                                                  *)

\* A client reaches a directory by plain names, each with something below it.
Straight(d) == \A i \in 1..Len(d) : d[i].under = 0 /\ Kids(SubSeq(d, 1, i))

LEMMA DirPart ==
  ASSUME NEW d \in Dir, NEW i \in 1..Len(d)
  PROVE  d[i] \in Name /\ SubSeq(d, 1, i) = Child(SubSeq(d, 1, i - 1), d[i])
<1> DEFINE s == SubSeq(d, 1, i)
           t == SubSeq(d, 1, i - 1)
           u == Append(t, d[i])
<1>1. d \in Seq(Name) /\ i \in Nat /\ i >= 1 /\ i <= Len(d) /\ Len(d) \in Nat
  BY DirIsSeq
<1>2. d[i] \in Name
  BY <1>1
<1>3. s \in Seq(Name) /\ Len(s) = i /\ \A j \in 1..i : s[j] = d[j]
  BY <1>1
<1>4. t \in Seq(Name) /\ Len(t) = i - 1 /\ \A j \in 1..(i - 1) : t[j] = d[j]
  BY <1>1
<1> HIDE DEF s, t
<1>5. u \in Seq(Name) /\ Len(u) = i /\ u[i] = d[i] /\ \A j \in 1..(i - 1) : u[j] = t[j]
  BY <1>1, <1>2, <1>4
<1> HIDE DEF u
<1>6. ASSUME NEW j \in 1..i PROVE u[j] = s[j]
  <2>1. CASE j = i
    BY <1>3, <1>5, <2>1
  <2>2. CASE j # i
    <3>1. j \in 1..(i - 1)
      BY <1>1, <2>2
    <3> QED
      BY <1>3, <1>4, <1>5, <3>1
  <2> QED
    BY <2>1, <2>2
<1>7. u = s
  BY <1>3, <1>5, <1>6, SeqEqual
<1> QED
  BY <1>2, <1>7 DEF Child, s, t, u

LEMMA ReachableIsStraight == \A d \in Dir : Reachable(d) <=> Straight(d)
<1> SUFFICES ASSUME NEW d \in Dir, NEW i \in 1..Len(d)
             PROVE  Folder(SubSeq(d, 1, i)) \in Resolve(SubSeq(d, 1, i - 1), d[i])
                      <=> d[i].under = 0 /\ Kids(SubSeq(d, 1, i))
  BY DEF Reachable, Straight
<1> DEFINE up == SubSeq(d, 1, i - 1)
           x  == SubSeq(d, 1, i)
           n  == d[i]
<1>1. n \in Name /\ x = Child(up, n)
  BY DirPart
<1> HIDE DEF up, x, n
<1>2. ASSUME n.under = 0, Kids(x) PROVE Folder(x) \in Resolve(up, n)
  BY <1>1, <1>2, PlainResolves DEF Plain
<1>3. ASSUME Folder(x) \in Resolve(up, n) PROVE n.under = 0 /\ Kids(x)
  <2>1. Folder(x).kind = "dir" /\ Folder(x) # File(x)
    BY DEF Folder, File
  <2>2. n.under = 0
    BY <1>1, <1>3, <2>1, ResolvesTo
  <2>3. Child(up, Candidate(n)) = x
    BY <1>1, <2>2, PlainCandidate DEF Plain
  <2>4. n.under \in Nat /\ ~(n.under > 0)
    BY <2>2
  <2>5. Resolve(up, n) = IF Kids(x) THEN {Folder(x)} ELSE IF HasVersions(x) THEN {File(x)} ELSE {}
    BY <2>3, <2>4, ResolveCases
  <2> QED
    BY <1>3, <2>1, <2>2, <2>5
<1> QED
  BY <1>2, <1>3 DEF up, x, n

\* Only rmdir takes an ephemeral directory away.
LEMMA DirsGoByRmdir ==
  ASSUME Next
  PROVE  dirs \subseteq dirs' \/ \E d \in Dirs, n \in Name : Rmdir(d, n)
<1>1. CASE \E d \in Dirs : Readdir(d)
  BY <1>1 DEF Readdir
<1>2. CASE \E d \in Dirs, n \in Name : Lookup(d, n) \/ Mkdir(d, n) \/ Unlink(d, n)
  BY <1>2 DEF Lookup, Mkdir, Unlink
<1>3. CASE \E d \in Dirs, n \in Name, s \in Slot : Create(s, d, n) \/ Open(s, d, n)
  BY <1>3 DEF Create, Open
<1>4. CASE \E d \in Dirs, n \in Name, e \in Dirs, m \in Name : Rename(d, n, e, m)
  BY <1>4 DEF Rename
<1>5. CASE \E s \in Slot, i \in 0..MaxSize, b \in Byte : Write(s, i, b)
  BY <1>5 DEF Write
<1>6. CASE \E x \in NamePath, size \in 0..MaxSize : Truncate(x, size)
  BY <1>6 DEF Truncate
<1>7. CASE RenameAdd \/ RenameRemove \/ TruncateAdd \/ OtherProcess
  BY <1>7 DEF RenameAdd, RenameRemove, TruncateAdd, OtherProcess
<1>8. CASE \E s \in Slot : Release(s)
  BY <1>8 DEF Release
<1> QED
  BY <1>1, <1>2, <1>3, <1>4, <1>5, <1>6, <1>7, <1>8 DEF Next

\* What lies below a directory lies below each directory on the way to it.
LEMMA BelowPart ==
  ASSUME NEW d \in Dir, NEW i \in 1..(Len(d) - 1), NEW h, HasChildren(h, d) \/ d \in dirs
  PROVE  d \in NamePath /\ d \in Below[SubSeq(d, 1, i)] /\ (HasChildren(h, d) => HasChildren(h, SubSeq(d, 1, i)))
<1>1. d \in Seq(Name) /\ Len(d) \in Nat /\ i \in Nat /\ i >= 1 /\ i < Len(d)
  BY DirIsSeq
<1>2. d \in NamePath
  <2>1. d # <<>>
    BY <1>1
  <2> QED
    BY <2>1 DEF Dir, Root
<1>3. d \in Below[SubSeq(d, 1, i)]
  BY <1>2, InitialPart
<1>4. ASSUME HasChildren(h, d) PROVE HasChildren(h, SubSeq(d, 1, i))
  <2>1. PICK y \in Below[d] : h[y] # <<>>
    BY <1>4 DEF HasChildren
  <2>2. y \in NamePath /\ IsStrictPrefix(d, y)
    BY DEF Below
  <2>3. y \in Seq(Name) /\ Len(y) \in Nat
    BY <2>2, DirIsSeq DEF Dir
  <2>4. Len(d) <= Len(y) /\ SubSeq(d, 1, Len(d)) = SubSeq(y, 1, Len(d))
    BY <2>2 DEF IsStrictPrefix, IsPrefix
  <2>5. \A j \in 1..Len(d) : SubSeq(d, 1, Len(d))[j] = d[j] /\ SubSeq(y, 1, Len(d))[j] = y[j]
    BY <1>1, <2>3, <2>4
  <2>6. SubSeq(y, 1, i) = SubSeq(d, 1, i)
    <3>1. \A j \in 1..i : j \in 1..Len(d)
      BY <1>1
    <3>2. \A j \in 1..i : y[j] = d[j]
      BY <2>4, <2>5, <3>1
    <3>3. Len(SubSeq(y, 1, i)) = i /\ Len(SubSeq(d, 1, i)) = i
          /\ SubSeq(y, 1, i) \in Seq(Name) /\ SubSeq(d, 1, i) \in Seq(Name)
          /\ \A j \in 1..i : SubSeq(y, 1, i)[j] = y[j] /\ SubSeq(d, 1, i)[j] = d[j]
      BY <1>1, <2>3, <2>4
    <3> QED
      BY <3>2, <3>3, SeqEqual
  <2>7. i \in 1..(Len(y) - 1)
    BY <1>1, <2>3, <2>4
  <2>8. y \in Below[SubSeq(y, 1, i)]
    BY <2>2, <2>7, InitialPart
  <2> QED
    BY <2>1, <2>6, <2>8 DEF HasChildren
<1> QED
  BY <1>2, <1>3, <1>4

LEMMA StraightStep ==
  ASSUME Next, NEW d \in Dir, Straight(d), ~Straight(d)'
  PROVE  \/ d \in dirs /\ dirs' = dirs \ {d}
         \/ \E i \in 1..Len(d) :
              LET u == SubSeq(d, 1, i)
              IN  u \notin dirs /\ HasChildren(history, u) /\ ~HasChildren(history', u)
<1>1. PICK i \in 1..Len(d) : ~(HasChildren(history', SubSeq(d, 1, i)) \/ SubSeq(d, 1, i) \in dirs')
  <2>1. \A i \in 1..Len(d) : d[i].under = 0
    BY DEF Straight
  <2> QED
    BY <2>1 DEF Straight, Kids, HasChildren
<1> DEFINE u == SubSeq(d, 1, i)
<1>2. HasChildren(history, u) \/ u \in dirs
  BY DEF Straight, Kids
<1>3. CASE u \notin dirs
  BY <1>1, <1>2, <1>3
<1>4. CASE u \in dirs
  <2>1. PICK e \in Dirs, n \in Name : Rmdir(e, n)
    BY <1>1, <1>4, DirsGoByRmdir
  <2>2. /\ dirs' = dirs \ {Child(e, n)} /\ history' = history
        /\ ~\E y \in dirs : IsStrictPrefix(Child(e, n), y)
    BY <2>1 DEF Rmdir
  <2>3. u = Child(e, n) /\ ~HasChildren(history, u)
    BY <1>1, <1>4, <2>2
  <2>4. d \in Seq(Name) /\ Len(d) \in Nat
    BY DirIsSeq
  <2>5. CASE i = Len(d)
    <3>1. u = d
      BY <2>4, <2>5, SubSeqFull
    <3> QED
      BY <1>4, <2>2, <2>3, <3>1
  <2>6. CASE i # Len(d)
    <3>1. i \in 1..(Len(d) - 1) /\ Len(d) \in 1..Len(d)
      BY <2>4, <2>6
    <3>2. HasChildren(history, d) \/ d \in dirs
      <4>1. Kids(SubSeq(d, 1, Len(d)))
        BY <3>1 DEF Straight
      <4> QED
        BY <2>4, <4>1, SubSeqFull DEF Kids
    <3>3. d \in Below[u] /\ (HasChildren(history, d) => HasChildren(history, u)) /\ u \in Dir
      <4>1. d \in NamePath
        BY <3>1, <3>2, BelowPart
      <4> QED
        BY <3>1, <3>2, <4>1, BelowPart, InitialPart
    <3>4. IsStrictPrefix(u, d)
      BY <3>3 DEF Below
    <3> QED
      BY <2>2, <2>3, <3>2, <3>3, <3>4
  <2> QED
    BY <2>5, <2>6
<1> QED
  BY <1>3, <1>4

\* However many directories and files come and go, in whatever order and by
\* whomever: one that a client reaches stays until it is removed itself or the
\* files go that it or one above it existed through.
THEOREM DirectoriesStayInSight == Spec => DirectoriesStay
<1> DEFINE Alike == \A d \in Dir : Reachable(d) <=> Straight(d)
           Stay  == \A d \in Dir :
                      Reachable(d) /\ ~Reachable(d)' =>
                        \/ d \in dirs /\ dirs' = dirs \ {d}
                        \/ \E i \in 1..Len(d) :
                             LET u == SubSeq(d, 1, i)
                             IN  u \notin dirs /\ HasChildren(history, u) /\ ~HasChildren(history', u)
<1>1. ASSUME Alike, Alike', Next PROVE Stay
  <2> SUFFICES ASSUME NEW d \in Dir, Reachable(d), ~Reachable(d)'
               PROVE  \/ d \in dirs /\ dirs' = dirs \ {d}
                      \/ \E i \in 1..Len(d) :
                           LET u == SubSeq(d, 1, i)
                           IN  u \notin dirs /\ HasChildren(history, u) /\ ~HasChildren(history', u)
    OBVIOUS
  <2>1. Straight(d) /\ ~Straight(d)'
    BY <1>1
  <2> QED
    BY <1>1, <2>1, StraightStep
<1>2. Alike
  BY ReachableIsStraight
<1> HIDE DEF Alike
<1>3. Alike /\ Alike' /\ [Next]_vars => [Stay]_vars
  BY <1>1
<1> QED
  BY <1>2, <1>3, PTL DEF Spec, DirectoriesStay, Stay
=============================================================================
