------------------------- MODULE DuplexSheetsProofs -------------------------
(***************************************************************************)
(* The sheets are right and no page is lost, for documents, selections,    *)
(* layouts and numbers of copies of any size.                              *)
(***************************************************************************)
EXTENDS DuplexSheets, FiniteSetTheorems, FunctionTheorems, SequenceTheorems, TLAPS

----------------------------------------------------------------------------
(* Lists. *)

\* A sequence of anything.
IsList(s) == Len(s) \in Nat /\ s = [i \in 1 .. Len(s) |-> s[i]]

\* A list is what is made index by index.
LEMMA Constructed ==
    ASSUME NEW n \in Nat, NEW s, s = [i \in 1 .. n |-> s[i]]
    PROVE  IsList(s) /\ Len(s) = n /\ DOMAIN s = 1 .. n
<1>1. Len(s) = n
  OBVIOUS
<1> QED  BY <1>1 DEF IsList

\* Ordered keeps a list or turns it round.
LEMMA OrderedList ==
    ASSUME NEW s, IsList(s), NEW reversed \in BOOLEAN
    PROVE  /\ IsList(Ordered(s, reversed)) /\ Len(Ordered(s, reversed)) = Len(s)
           /\ \A i \in 1 .. Len(s) :
                 /\ IF reversed THEN Len(s) + 1 - i \in 1 .. Len(s) ELSE i \in 1 .. Len(s)
                 /\ Ordered(s, reversed)[i] = s[IF reversed THEN Len(s) + 1 - i ELSE i]
<1> DEFINE r == Reverse(s)
<1>1. r = [i \in 1 .. Len(s) |-> r[i]] /\ Len(s) \in Nat
  BY DEF Reverse, IsList
<1>2. \A i \in 1 .. Len(s) : r[i] = s[Len(s) + 1 - i]
  BY <1>1 DEF Reverse
<1>3. IsList(r) /\ Len(r) = Len(s)
  BY <1>1, Constructed
<1> QED  BY <1>1, <1>2, <1>3 DEF Ordered

\* The pages that selectors pick.
LEMMA BuiltList ==
    ASSUME NEW source, NEW selectors, IsList(selectors)
    PROVE  /\ IsList(BuildOrderedPDF(source, selectors))
           /\ Len(BuildOrderedPDF(source, selectors)) = Len(selectors)
           /\ \A i \in 1 .. Len(selectors) :
                 BuildOrderedPDF(source, selectors)[i] = source[selectors[i]]
<1> DEFINE b == BuildOrderedPDF(source, selectors)
<1>1. DOMAIN selectors = 1 .. Len(selectors) /\ Len(selectors) \in Nat
  BY DEF IsList
<1>2. b = [i \in 1 .. Len(selectors) |-> b[i]]
  BY <1>1 DEF BuildOrderedPDF
<1>3. \A i \in 1 .. Len(selectors) : b[i] = source[selectors[i]]
  BY <1>1 DEF BuildOrderedPDF
<1> QED  BY <1>1, <1>2, <1>3, Constructed

----------------------------------------------------------------------------
(* Selectors. *)

\* How many of a set there are up to a number tells the number.
LEMMA RankTells ==
    ASSUME NEW S \in SUBSET Nat, IsFiniteSet(S), NEW p \in S, NEW r \in S
    PROVE  LET Rank(x) == Cardinality({q \in S : q <= x}) IN
           /\ Rank(p) \in 1 .. Cardinality(S)
           /\ Rank(p) = Rank(r) => p = r
<1> DEFINE Upto(x) == {q \in S : q <= x}
<1>1. ASSUME NEW x \in S
      PROVE  /\ IsFiniteSet(Upto(x)) /\ Cardinality(Upto(x)) \in 1 .. Cardinality(S)
  <2>1. Upto(x) \in SUBSET S /\ x \in Upto(x)
    OBVIOUS
  <2>2. IsFiniteSet(Upto(x)) /\ Cardinality(Upto(x)) <= Cardinality(S)
    BY <2>1, FS_Subset
  <2>3. Cardinality(Upto(x)) \in Nat /\ Cardinality(S) \in Nat
    BY <2>2, FS_CardinalityType
  <2>4. Cardinality(Upto(x)) # 0
    BY <2>1, <2>2, FS_EmptySet
  <2> QED  BY <2>2, <2>3, <2>4
<1>2. ASSUME NEW x \in S, NEW y \in S, x <= y, Cardinality(Upto(x)) = Cardinality(Upto(y))
      PROVE  x = y
  <2>0. \A q \in S : q <= x => q <= y
    BY <1>2
  <2>1. Upto(x) \in SUBSET Upto(y)
    BY <2>0
  <2>2. Upto(x) = Upto(y)
    BY <1>1, <1>2, <2>1, FS_Subset
  <2>3. y \in Upto(x)
    BY <2>2
  <2> QED  BY <1>2, <2>3
<1>3. p <= r \/ r <= p
  OBVIOUS
<1> QED  BY <1>1, <1>2, <1>3

\* A set in order: a list of its elements, each once, each at its rank.
LEMMA InOrderLists ==
    ASSUME NEW S \in SUBSET Nat, IsFiniteSet(S)
    PROVE  /\ IsList(InOrder(S)) /\ Len(InOrder(S)) = Cardinality(S)
           /\ \A i \in 1 .. Cardinality(S) :
                 InOrder(S)[i] \in S /\ Cardinality({q \in S : q <= InOrder(S)[i]}) = i
           /\ \A p \in S : \E i \in 1 .. Cardinality(S) : InOrder(S)[i] = p
<1> DEFINE Rank(x) == Cardinality({q \in S : q <= x})
           n == Cardinality(S)
           o == InOrder(S)
<1>1. n \in Nat
  BY FS_CardinalityType
<1>2. \A x \in S : Rank(x) \in 1 .. n
  BY RankTells
<1>3. \A x, y \in S : Rank(x) = Rank(y) => x = y
  BY RankTells
<1>4. \A i \in 1 .. n : \E x \in S : Rank(x) = i
  <2> DEFINE f == [x \in S |-> Rank(x)]
  <2> HIDE DEF Rank, n
  <2>1. f \in [S -> 1 .. n] /\ \A x, y \in S : f[x] = f[y] => x = y
    BY <1>2, <1>3
  <2>2. f \in Injection(S, 1 .. n)
    BY <2>1, Fun_IsInj
  <2>3. IsFiniteSet(1 .. n) /\ Cardinality(1 .. n) = n
    BY <1>1, FS_Interval
  <2>4. f \in Surjection(S, 1 .. n)
    BY <2>2, <2>3, FS_Injection DEF n
  <2>5. \A i \in 1 .. n : \E x \in S : f[x] = i
    BY <2>4 DEF Surjection
  <2> QED  BY <2>5
<1>5. o = [i \in 1 .. n |-> CHOOSE x \in S : Rank(x) = i]
  BY DEF InOrder
<1>6. \A i \in 1 .. n : o[i] \in S /\ Rank(o[i]) = i
  <2> HIDE DEF Rank, n, o
  <2> QED  BY <1>4, <1>5
<1>7. IsList(o) /\ Len(o) = n
  <2> HIDE DEF Rank, n, o
  <2>1. o = [i \in 1 .. n |-> o[i]]
    BY <1>5
  <2> QED  BY <1>1, <2>1, Constructed
<1>8. \A x \in S : o[Rank(x)] = x
  <2> HIDE DEF Rank, n, o
  <2> QED  BY <1>2, <1>3, <1>6
<1> QED  BY <1>2, <1>6, <1>7, <1>8

\* Page y of the even or of the odd pages is page 2y - Parity.
Parity(even) == IF even THEN 0 ELSE 1

\* pageSelectors: 2, 4, 6 ... or 1, 3, 5 ... up to the number of pages.
LEMMA Selectors ==
    ASSUME NEW totalPages \in Nat, NEW even \in BOOLEAN
    PROVE  LET s == PageSelectors(totalPages, even)
               n == (totalPages + Parity(even)) \div 2
           IN  /\ IsList(s) /\ Len(s) = n /\ n \in Nat
               /\ \A i \in 1 .. n : s[i] = 2 * i - Parity(even) /\ s[i] \in 1 .. totalPages
<1> DEFINE Par == Parity(even)
           n == (totalPages + Par) \div 2
           S == {i \in 1 .. totalPages : (i % 2 = 0) = even}
           At(i) == 2 * i - Par
           o == InOrder(S)
<1>1. Par \in {0, 1} /\ (even <=> Par = 0)
  BY DEF Parity
<1>2. n \in Nat
  BY <1>1
<1>3. \A i \in 1 .. n : At(i) \in S
  BY <1>1, <1>2
<1>4. \A p \in S : \E i \in 1 .. n : p = At(i)
  <2> TAKE p \in S
  <2> DEFINE i == (p + Par) \div 2
  <2>1. i \in 1 .. n /\ p = At(i)
    BY <1>1, <1>2
  <2> QED  BY <2>1
<1>5. S \in SUBSET Nat /\ IsFiniteSet(S)
  <2>1. IsFiniteSet(1 .. totalPages)
    BY FS_Interval
  <2> QED  BY <2>1, FS_Subset
<1>6. ASSUME NEW i \in 0 .. n, NEW T, T = {q \in S : q <= At(i)}
      PROVE  Cardinality(T) = i
  <2> DEFINE f == [j \in 1 .. i |-> At(j)]
  <2>0. \A j \in 1 .. i : At(j) \in T
    <3>1. \A j \in 1 .. i : j \in 1 .. n /\ At(j) <= At(i)
      BY <1>1, <1>2
    <3> QED  BY <1>3, <1>6, <3>1
  <2>1. f \in [1 .. i -> T] /\ \A j, k \in 1 .. i : f[j] = f[k] => j = k
    <3>1. \A j, k \in 1 .. i : At(j) = At(k) => j = k
      BY <1>1, <1>2
    <3> HIDE DEF At
    <3> QED  BY <2>0, <3>1
  <2>2. \A q \in T : \E j \in 1 .. i : f[j] = q
    BY <1>1, <1>2, <1>4, <1>6
  <2>3. f \in Bijection(1 .. i, T)
    BY <2>1, <2>2, Fun_IsBij
  <2>4. i \in Nat
    BY <1>2
  <2> QED  BY <2>3, <2>4, FS_CountingElements DEF ExistsBijection
<1>7. Cardinality(S) = n
  <2>0. \A j \in 1 .. n : At(j) <= At(n)
    BY <1>1, <1>2
  <2>1. S = {q \in S : q <= At(n)}
    <3> HIDE DEF At, S
    <3> QED  BY <1>4, <2>0
  <2> QED  BY <1>2, <1>6, <2>1
<1>8. ASSUME NEW i \in 1 .. n
      PROVE  o[i] = At(i) /\ o[i] \in 1 .. totalPages
  <2>1. o[i] \in S /\ Cardinality({q \in S : q <= o[i]}) = i
    BY <1>5, <1>7, InOrderLists
  <2>2. PICK j \in 1 .. n : o[i] = At(j)
    BY <1>4, <2>1
  <2>3. j = i
    BY <1>2, <1>6, <2>1, <2>2
  <2> QED  BY <2>1, <2>2, <2>3
<1>9. IsList(o) /\ Len(o) = n
  BY <1>5, <1>7, InOrderLists
<1>10. PageSelectors(totalPages, even) = o
  BY DEF PageSelectors
<1> QED  BY <1>2, <1>8, <1>9, <1>10

----------------------------------------------------------------------------
(* Copies. *)

\* A place is in the pile, and tells the copy and the sheet.
LEMMA PlaceTells ==
    ASSUME NEW copies \in Nat, NEW n \in Nat, NEW collate \in BOOLEAN,
           NEW c \in 1 .. copies, NEW i \in 1 .. n
    PROVE  LET at == Place(copies, collate, n, c, i) IN
           /\ at \in 1 .. n * copies
           /\ i = IF collate THEN ((at - 1) % n) + 1 ELSE ((at - 1) \div copies) + 1
           /\ c = IF collate THEN ((at - 1) \div n) + 1 ELSE ((at - 1) % copies) + 1
<1>1. ASSUME NEW m \in Nat, NEW k \in Nat, NEW q \in 1 .. k, NEW r \in 1 .. m
      PROVE  /\ (q - 1) * m + r \in 1 .. m * k
             /\ ((q - 1) * m + r - 1) % m = r - 1 /\ ((q - 1) * m + r - 1) \div m = q - 1
  <2>1. m > 0 /\ q - 1 \in Nat /\ r - 1 \in 0 .. m - 1 /\ (q - 1) * m \in Nat
    OBVIOUS
  <2>2. (q - 1) * m + m <= m * k
    OBVIOUS
  <2>3. \A a \in Nat, b \in 0 .. m - 1 : (a * m + b) \div m = a /\ (a * m + b) % m = b
    BY <2>1
  <2>4. (q - 1) * m + r - 1 = (q - 1) * m + (r - 1)
    BY <2>1
  <2> QED  BY <2>1, <2>2, <2>3, <2>4
<1>2. copies * n = n * copies
  OBVIOUS
<1> QED  BY <1>1, <1>2 DEF Place

\* No two sheets have one place.
LEMMA PlaceInjective ==
    ASSUME NEW copies \in Nat, NEW n \in Nat, NEW collate \in BOOLEAN,
           NEW c \in 1 .. copies, NEW i \in 1 .. n, NEW d \in 1 .. copies, NEW j \in 1 .. n
    PROVE  Place(copies, collate, n, c, i) = Place(copies, collate, n, d, j) => c = d /\ i = j
<1> DEFINE at == Place(copies, collate, n, c, i)
           bt == Place(copies, collate, n, d, j)
<1>1. /\ i = IF collate THEN ((at - 1) % n) + 1 ELSE ((at - 1) \div copies) + 1
      /\ c = IF collate THEN ((at - 1) \div n) + 1 ELSE ((at - 1) % copies) + 1
  BY PlaceTells
<1>2. /\ j = IF collate THEN ((bt - 1) % n) + 1 ELSE ((bt - 1) \div copies) + 1
      /\ d = IF collate THEN ((bt - 1) \div n) + 1 ELSE ((bt - 1) % copies) + 1
  BY PlaceTells
<1> HIDE DEF at, bt
<1>3. at = bt => c = d /\ i = j
  BY <1>1, <1>2
<1> QED  BY <1>3 DEF at, bt

\* Every place is that of some sheet of some copy.
LEMMA PlacesCover ==
    ASSUME NEW copies \in Nat, NEW n \in Nat, NEW collate \in BOOLEAN,
           NEW at \in 1 .. n * copies
    PROVE  \E c \in 1 .. copies, i \in 1 .. n : at = Place(copies, collate, n, c, i)
<1>1. ASSUME NEW m \in Nat, NEW k \in Nat, NEW p \in 1 .. m * k
      PROVE  \E q \in 1 .. k, r \in 1 .. m : p = (q - 1) * m + r
  <2> DEFINE q == ((p - 1) \div m) + 1
             r == ((p - 1) % m) + 1
  <2>1. m > 0
    OBVIOUS
  <2>2. q \in Nat \ {0} /\ r \in 1 .. m /\ p = (q - 1) * m + r
    BY <2>1
  <2>3. q <= k
    <3> HIDE DEF q, r
    <3>1. SUFFICES ASSUME q - 1 >= k PROVE FALSE
      BY <2>2
    <3>2. (q - 1) * m >= k * m
      BY <2>2, <3>1
    <3>3. k * m = m * k /\ m * k \in Nat /\ (q - 1) * m \in Nat
      BY <2>2
    <3> QED  BY <2>2, <3>2, <3>3
  <2> HIDE DEF q, r
  <2>4. q \in 1 .. k
    BY <2>2, <2>3
  <2> QED  BY <2>2, <2>4
<1>2. CASE collate
  BY <1>1, <1>2 DEF Place
<1>3. CASE ~collate
  <2>1. at \in 1 .. copies * n
    <3>1. copies * n = n * copies
      OBVIOUS
    <3> QED  BY <3>1
  <2>2. \E q \in 1 .. n, r \in 1 .. copies : at = (q - 1) * copies + r
    BY <1>1, <2>1
  <2> QED  BY <1>3, <2>2 DEF Place
<1> QED  BY <1>2, <1>3

\* Turned round, a pile has the last copy of the last sheet first.
LEMMA PlaceReversed ==
    ASSUME NEW copies \in Nat, NEW n \in Nat, NEW collate \in BOOLEAN,
           NEW c \in 1 .. copies, NEW i \in 1 .. n
    PROVE  /\ copies + 1 - c \in 1 .. copies /\ n + 1 - i \in 1 .. n
           /\ n * copies + 1 - Place(copies, collate, n, c, i)
                 = Place(copies, collate, n, copies + 1 - c, n + 1 - i)
  BY DEF Place

\* applyCopiesForPDF: each page of each copy in its place.
LEMMA CopiesList ==
    ASSUME NEW s, IsList(s), NEW copies \in Nat, NEW collate \in BOOLEAN
    PROVE  LET a == ApplyCopies(s, copies, collate) IN
           /\ IsList(a) /\ Len(a) = Len(s) * copies /\ Len(s) * copies \in Nat
           /\ \A c \in 1 .. copies, i \in 1 .. Len(s) :
                 a[Place(copies, collate, Len(s), c, i)] = s[i]
<1> DEFINE a == ApplyCopies(s, copies, collate)
           n == Len(s)
<1>1. n \in Nat /\ n * copies \in Nat
  BY DEF IsList
<1>2. a = [k \in 1 .. n * copies |-> a[k]]
  BY DEF ApplyCopies
<1>3. ASSUME NEW c \in 1 .. copies, NEW i \in 1 .. n
      PROVE  a[Place(copies, collate, n, c, i)] = s[i]
  <2> DEFINE at == Place(copies, collate, n, c, i)
  <2>1. at \in 1 .. n * copies
        /\ i = IF collate THEN ((at - 1) % n) + 1 ELSE ((at - 1) \div copies) + 1
    <3> HIDE DEF n, a
    <3> QED  BY <1>1, PlaceTells
  <2> HIDE DEF at
  <2>2. a[at] = s[IF collate THEN ((at - 1) % n) + 1 ELSE ((at - 1) \div copies) + 1]
    BY <2>1 DEF ApplyCopies
  <2> HIDE DEF a
  <2>3. a[at] = s[i]
    <3>1. CASE collate
      BY <2>1, <2>2, <3>1
    <3>2. CASE ~collate
      BY <2>1, <2>2, <3>2
    <3> QED  BY <3>1, <3>2
  <2> QED  BY <2>3 DEF at
<1> HIDE DEF a
<1> QED  BY <1>1, <1>2, <1>3, Constructed DEF a

\* One copy is the file itself.
LEMMA OneCopy ==
    ASSUME NEW s, IsList(s), NEW collate \in BOOLEAN
    PROVE  /\ ApplyCopies(s, 1, collate) = s
           /\ \A n \in Nat : \A i \in 1 .. n : Place(1, collate, n, 1, i) = i
<1>1. \A n \in Nat : \A i \in 1 .. n : Place(1, collate, n, 1, i) = i
  BY DEF Place
<1>2. Len(s) \in Nat
  BY DEF IsList
<1> DEFINE a == ApplyCopies(s, 1, collate)
<1>3. /\ IsList(a) /\ Len(a) = Len(s) * 1
      /\ \A c \in 1 .. 1, i \in 1 .. Len(s) : a[Place(1, collate, Len(s), c, i)] = s[i]
  <2>1. 1 \in Nat
    OBVIOUS
  <2> QED  BY <2>1, CopiesList
<1>4. a = s
  <2> HIDE DEF a
  <2> QED  BY <1>1, <1>2, <1>3 DEF IsList
<1> QED  BY <1>1, <1>4

----------------------------------------------------------------------------
(* The document. *)

\* What was asked for; Select may turn a job's duplex off, and keeps the rest.
JobOK ==
    /\ job \in
        [origin : Origins, pages : (SUBSET (1 .. MaxPages)) \ {{}}, nup : Nups,
         copies : 1 .. MaxCopies, collate : BOOLEAN, duplex : {"off", "auto", "manual"},
         reverse : BOOLEAN, firstPassOdd : BOOLEAN, padToEven : BOOLEAN,
         reverseFirst : BOOLEAN, reverseSecond : BOOLEAN, feed : {"sameOrder", "reverseOrder"}]
    /\ job.origin = "bot" => job.collate
    /\ job.duplex # "off" => ~job.reverse

\* The document has pages, none is blank, and each shows other source pages.
LEMMA DocumentList ==
    ASSUME JobOK
    PROVE  /\ IsList(Document) /\ Len(Document) \in Nat \ {0}
           /\ \A i \in 1 .. Len(Document) : Document[i] # Blank
           /\ \A i, j \in 1 .. Len(Document) : Document[i] = Document[j] => i = j
<1> DEFINE sel == Selected(job.pages)
           n == Cardinality(job.pages)
           m == job.nup
           len == (n + m - 1) \div m
           From(i) == (i - 1) * m + 1
           To(i) == IF i * m < n THEN i * m ELSE n
<1>1. job.pages \in SUBSET Nat /\ IsFiniteSet(job.pages) /\ job.pages # {}
  <2>1. MaxPages \in Nat
    BY SheetsAssumption
  <2>2. IsFiniteSet(1 .. MaxPages)
    BY <2>1, FS_Interval
  <2>3. job.pages \in SUBSET (1 .. MaxPages) /\ job.pages # {}
    BY DEF JobOK
  <2> QED  BY <2>1, <2>2, <2>3, FS_Subset
<1>2. n \in Nat \ {0} /\ m \in Nat \ {0}
  <2>1. n \in Nat /\ n # 0
    BY <1>1, FS_CardinalityType, FS_EmptySet
  <2> QED  BY <2>1, SheetsAssumption DEF JobOK
<1>3. /\ Len(sel) = n
      /\ \A i \in 1 .. n : sel[i] \in job.pages
      /\ \A i, j \in 1 .. n : sel[i] = sel[j] => i = j
  <2>1. /\ Len(sel) = n
        /\ \A i \in 1 .. n : sel[i] \in job.pages
                             /\ Cardinality({q \in job.pages : q <= sel[i]}) = i
    BY <1>1, InOrderLists DEF Selected
  <2> HIDE DEF sel, n
  <2> QED  BY <2>1
<1> HIDE DEF sel, n, m
<1>4. len \in Nat \ {0} /\ \A i \in 1 .. len : From(i) \in 1 .. n /\ To(i) \in From(i) .. n
  <2>1. n + m - 1 \in Nat /\ n + m - 1 >= m
    BY <1>2
  <2>2. len \in Nat \ {0}
    BY <1>2, <2>1
  <2>3. len * m <= n + m - 1
    BY <1>2, <2>1
  <2>4. ASSUME NEW i \in 1 .. len
        PROVE  From(i) \in 1 .. n /\ To(i) \in From(i) .. n
    <3> HIDE DEF len
    <3>1. i * m <= len * m /\ i * m = (i - 1) * m + m /\ (i - 1) * m \in Nat
      BY <1>2, <2>2
    <3> QED  BY <1>2, <2>2, <2>3, <3>1
  <2> QED  BY <2>2, <2>4
<1>5. Document = [i \in 1 .. len |-> SubSeq(sel, From(i), To(i))]
  BY <1>3 DEF Document, Laid, sel, m
<1>6. IsList(Document) /\ Len(Document) = len
  <2> HIDE DEF len, From, To
  <2>1. Document = [i \in 1 .. len |-> Document[i]]
    BY <1>5
  <2> QED  BY <1>4, <2>1, Constructed
<1>7. ASSUME NEW i \in 1 .. len
      PROVE  Len(Document[i]) # 0 /\ Document[i][1] = sel[From(i)]
  <2> HIDE DEF len, From, To
  <2>1. From(i) \in 1 .. n /\ To(i) \in From(i) .. n
    BY <1>4
  <2>2. \A j \in From(i) .. To(i) : sel[j] \in job.pages
    BY <1>2, <1>3, <2>1
  <2>3. /\ Len(SubSeq(sel, From(i), To(i))) = To(i) - From(i) + 1
        /\ \A j \in 1 .. To(i) - From(i) + 1 :
              SubSeq(sel, From(i), To(i))[j] = sel[From(i) + j - 1]
    BY <1>2, <2>1, <2>2, SubSeqProperties
  <2>4. Document[i] = SubSeq(sel, From(i), To(i))
    BY <1>5
  <2> QED  BY <1>2, <2>1, <2>3, <2>4
<1>8. ASSUME NEW i \in 1 .. len, NEW j \in 1 .. len, Document[i] = Document[j]
      PROVE  i = j
  <2>1. From(i) = From(j)
    <3> HIDE DEF len, From, To
    <3> QED  BY <1>3, <1>4, <1>7, <1>8
  <2> QED  BY <1>2, <1>4, <2>1
<1>9. \A i \in 1 .. len : Document[i] # Blank
  <2> HIDE DEF len, From, To
  <2> QED  BY <1>7 DEF Blank
<1> QED  BY <1>4, <1>6, <1>8, <1>9

\* The file with a blank page after an odd number of pages, as configured.
Padded(s) == IF job.padToEven /\ Len(s) % 2 = 1 THEN Append(s, Blank) ELSE s

\* Padding keeps the pages where they are.
LEMMA PaddedList ==
    ASSUME NEW s, IsList(s), JobOK
    PROVE  /\ IsList(Padded(s))
           /\ Len(Padded(s)) = Len(s) + (IF job.padToEven /\ Len(s) % 2 = 1 THEN 1 ELSE 0)
           /\ \A i \in 1 .. Len(s) : Padded(s)[i] = s[i]
           /\ job.padToEven /\ Len(s) % 2 = 1 => Padded(s)[Len(s) + 1] = Blank
<1> DEFINE p == Append(s, Blank)
           S == {s[i] : i \in 1 .. Len(s)} \cup {Blank}
<1>1. Len(s) \in Nat
  BY DEF IsList
<1>2. s \in Seq(S) /\ Blank \in S
  BY <1>1 DEF IsList
<1>3. /\ p \in Seq(S) /\ Len(p) = Len(s) + 1
      /\ \A i \in 1 .. Len(s) : p[i] = s[i]
      /\ p[Len(s) + 1] = Blank
  BY <1>2, AppendProperties
<1>4. IsList(p)
  <2>1. p \in [1 .. Len(p) -> S] /\ Len(p) \in Nat
    BY <1>3, LenProperties
  <2> QED  BY <2>1 DEF IsList
<1> QED  BY <1>1, <1>3, <1>4 DEF Padded

----------------------------------------------------------------------------
(* The two passes. *)

Copied(s) == ApplyCopies(s, job.copies, job.collate)
Pass(s, even, reversed) ==
    BuildOrderedPDF(Padded(s), Ordered(PageSelectors(Len(Padded(s)), even), reversed))
FirstPages(s) == Pass(s, ~job.firstPassOdd, job.reverseFirst)
SecondPages(s) == Pass(s, job.firstPassOdd, job.reverseSecond)

\* Page y of a pass is page 2y or 2y - 1 of the padded file, from either end.
LEMMA PassList ==
    ASSUME NEW s, IsList(s), JobOK, NEW even \in BOOLEAN, NEW reversed \in BOOLEAN
    PROVE  LET p == Pass(s, even, reversed)
               n == (Len(Padded(s)) + Parity(even)) \div 2
           IN  /\ IsList(p) /\ Len(p) = n /\ n \in Nat
               /\ \A i \in 1 .. n :
                     LET y == IF reversed THEN n + 1 - i ELSE i IN
                     /\ 2 * y - Parity(even) \in 1 .. Len(Padded(s))
                     /\ p[i] = Padded(s)[2 * y - Parity(even)]
<1> DEFINE total == Len(Padded(s))
           n == (total + Parity(even)) \div 2
           sel == PageSelectors(total, even)
           o == Ordered(sel, reversed)
           p == BuildOrderedPDF(Padded(s), o)
<1>1. total \in Nat
  BY PaddedList DEF IsList
<1>2. /\ IsList(sel) /\ Len(sel) = n /\ n \in Nat
      /\ \A i \in 1 .. n : sel[i] = 2 * i - Parity(even) /\ sel[i] \in 1 .. total
  BY <1>1, Selectors
<1> HIDE DEF total, n, sel
<1>3. /\ IsList(o) /\ Len(o) = n
      /\ \A i \in 1 .. n :
            /\ IF reversed THEN n + 1 - i \in 1 .. n ELSE i \in 1 .. n
            /\ o[i] = sel[IF reversed THEN n + 1 - i ELSE i]
  BY <1>2, OrderedList
<1> HIDE DEF o
<1>4. /\ IsList(p) /\ Len(p) = n
      /\ \A i \in 1 .. n : p[i] = Padded(s)[o[i]]
  BY <1>3, BuiltList
<1> HIDE DEF p
<1>5. ASSUME NEW i \in 1 .. n, NEW y, y = IF reversed THEN n + 1 - i ELSE i
      PROVE  2 * y - Parity(even) \in 1 .. total /\ p[i] = Padded(s)[2 * y - Parity(even)]
  <2>1. y \in 1 .. n /\ o[i] = sel[y]
    BY <1>3, <1>5
  <2> QED  BY <1>2, <1>4, <2>1
<1>6. Pass(s, even, reversed) = p
  BY DEF Pass, p, o, sel, total
<1> QED  BY <1>2, <1>4, <1>5, <1>6 DEF n, total

\* What CopiesList says of the copies that were asked for.
LEMMA CopiedList ==
    ASSUME NEW s, IsList(s), JobOK
    PROVE  /\ job.copies \in Nat \ {0} /\ job.collate \in BOOLEAN /\ Len(s) \in Nat
           /\ IsList(Copied(s)) /\ Len(Copied(s)) = Len(s) * job.copies
           /\ \A c \in 1 .. job.copies, i \in 1 .. Len(s) :
                 Copied(s)[Place(job.copies, job.collate, Len(s), c, i)] = s[i]
<1>1. job.copies \in Nat \ {0} /\ job.collate \in BOOLEAN /\ Len(s) \in Nat
  BY SheetsAssumption DEF JobOK, IsList
<1>2. job.copies \in Nat
  BY <1>1
<1> QED  BY <1>1, <1>2, CopiesList, Zenon DEF Copied

\* Copies that are whole numbers of sheets may be made before the split or after.
LEMMA SplitCopies ==
    ASSUME NEW s, IsList(s), JobOK, NEW even \in BOOLEAN, NEW reversed \in BOOLEAN,
           job.copies = 1 \/ (job.collate /\ Len(s) % 2 = 0)
    PROVE  Pass(Copied(s), even, reversed) = Copied(Pass(s, even, reversed))
<1> DEFINE C == job.copies
<1>1. C \in Nat \ {0} /\ job.collate \in BOOLEAN /\ Len(s) \in Nat
  BY CopiedList
<1>2. IsList(Pass(s, even, reversed))
  BY PassList
<1>3. CASE C = 1
  <2>1. Copied(s) = s /\ Copied(Pass(s, even, reversed)) = Pass(s, even, reversed)
    BY <1>1, <1>2, <1>3, OneCopy DEF Copied
  <2> QED  BY <2>1
<1>4. CASE job.collate /\ Len(s) % 2 = 0
  <2> DEFINE par == Parity(even)
             f == Copied(s)
             p == Pass(s, even, reversed)
             a == Copied(p)
             b == Pass(f, even, reversed)
  <2>1. PICK h \in Nat : Len(s) = 2 * h
    BY <1>1, <1>4
  <2>0. par \in {0, 1}
    BY DEF Parity
  <2>2. /\ IsList(f) /\ Len(f) = 2 * h * C
        /\ \A c \in 1 .. C, i \in 1 .. 2 * h : f[Place(C, TRUE, 2 * h, c, i)] = s[i]
    <3>1. job.collate = TRUE
      BY <1>1, <1>4
    <3>2. /\ IsList(f) /\ Len(f) = Len(s) * C
          /\ \A c \in 1 .. C, i \in 1 .. Len(s) :
                f[Place(C, job.collate, Len(s), c, i)] = s[i]
      BY CopiedList, Zenon
    <3> HIDE DEF f, C
    <3> QED  BY <2>1, <3>1, <3>2, Zenon
  <2>3. h * C \in Nat /\ 2 * h * C = 2 * (h * C)
    BY <1>1, <2>1
  <2>4. Padded(s) = s /\ Padded(f) = f
    BY <1>4, <2>1, <2>2, <2>3 DEF Padded
  <2>5. (2 * h + par) \div 2 = h /\ (2 * (h * C) + par) \div 2 = h * C
    BY <2>0, <2>1, <2>3
  <2>6. /\ IsList(p) /\ Len(p) = h
        /\ \A i \in 1 .. h :
              LET y == IF reversed THEN h + 1 - i ELSE i IN
              2 * y - par \in 1 .. 2 * h /\ p[i] = s[2 * y - par]
    <3>1. (Len(Padded(s)) + Parity(even)) \div 2 = h /\ Len(Padded(s)) = 2 * h
      BY <2>1, <2>4, <2>5
    <3>2. LET n == (Len(Padded(s)) + Parity(even)) \div 2
          IN  /\ IsList(p) /\ Len(p) = n
              /\ \A i \in 1 .. n :
                    LET y == IF reversed THEN n + 1 - i ELSE i IN
                    /\ 2 * y - Parity(even) \in 1 .. Len(Padded(s))
                    /\ p[i] = Padded(s)[2 * y - Parity(even)]
      BY PassList
    <3> HIDE DEF p
    <3> QED  BY <2>4, <3>1, <3>2
  <2>7. /\ IsList(b) /\ Len(b) = h * C
        /\ \A k \in 1 .. h * C :
              b[k] = f[2 * (IF reversed THEN h * C + 1 - k ELSE k) - par]
    <3>1. (Len(Padded(f)) + Parity(even)) \div 2 = h * C
      BY <2>2, <2>3, <2>4, <2>5
    <3>2. IsList(f)
      BY <2>2
    <3> HIDE DEF f
    <3>3. LET n == (Len(Padded(f)) + Parity(even)) \div 2
          IN  /\ IsList(b) /\ Len(b) = n
              /\ \A k \in 1 .. n :
                    b[k] = Padded(f)[2 * (IF reversed THEN n + 1 - k ELSE k) - Parity(even)]
      BY <3>2, PassList
    <3> HIDE DEF b
    <3> QED  BY <2>4, <3>1, <3>3
  <2>8. /\ IsList(a) /\ Len(a) = h * C
        /\ \A c \in 1 .. C, i \in 1 .. h : a[Place(C, TRUE, h, c, i)] = p[i]
    <3>1. job.collate = TRUE
      BY <1>1, <1>4
    <3>2. IsList(p)
      BY <2>6
    <3>3. /\ IsList(a) /\ Len(a) = Len(p) * C
          /\ \A c \in 1 .. C, i \in 1 .. Len(p) :
                a[Place(C, job.collate, Len(p), c, i)] = p[i]
      BY <3>2, CopiedList, Zenon
    <3> HIDE DEF p, a, C
    <3> QED  BY <2>6, <3>1, <3>3, Zenon
  <2> HIDE DEF par, f, p, a, b, C
  <2>9. ASSUME NEW k \in 1 .. h * C
        PROVE  a[k] = b[k]
    <3>0. \E c \in 1 .. C, i \in 1 .. h : k = Place(C, TRUE, h, c, i)
      <4>1. C \in Nat /\ TRUE \in BOOLEAN
        BY <1>1
      <4> QED  BY <2>1, <4>1, PlacesCover, Zenon
    <3>1. PICK c \in 1 .. C, i \in 1 .. h : k = Place(C, TRUE, h, c, i)
      BY <3>0
    <3> DEFINE y == IF reversed THEN h + 1 - i ELSE i
               d == IF reversed THEN C + 1 - c ELSE c
    <3>2. y \in 1 .. h /\ d \in 1 .. C
      BY <1>1, <2>1
    <3>3. (IF reversed THEN h * C + 1 - k ELSE k) = (d - 1) * h + y
      BY <1>1, <2>1, <3>1 DEF Place
    <3>5. 2 * y - par \in 1 .. 2 * h /\ p[i] = s[2 * y - par]
      BY <2>6
    <3>4. 2 * ((d - 1) * h + y) - par = Place(C, TRUE, 2 * h, d, 2 * y - par)
      <4> HIDE DEF y, d
      <4> QED  BY <1>1, <2>0, <2>1, <3>2 DEF Place
    <3>6. b[k] = s[2 * y - par]
      <4> DEFINE z == IF reversed THEN h * C + 1 - k ELSE k
      <4>1. b[k] = f[2 * z - par]
        BY <2>7
      <4>2. z = (d - 1) * h + y
        BY <3>3
      <4> HIDE DEF y, d, z
      <4>3. 2 * z - par = Place(C, TRUE, 2 * h, d, 2 * y - par)
        BY <3>4, <4>2, Zenon
      <4>4. f[Place(C, TRUE, 2 * h, d, 2 * y - par)] = s[2 * y - par]
        BY <2>2, <3>2, <3>5
      <4> QED  BY <4>1, <4>3, <4>4, Zenon
    <3> HIDE DEF y, d
    <3> QED  BY <2>8, <3>1, <3>5, <3>6
  <2> QED  BY <2>7, <2>8, <2>9 DEF IsList, a, b, f, p
<1> QED  BY <1>3, <1>4

----------------------------------------------------------------------------
(* The sheets. *)

\* A stack that has every copy in its place, from either end.
LEMMA CopiesHeld ==
    ASSUME JobOK, NEW stack, IsList(stack), NEW sheets, IsList(sheets),
           Len(stack) = Len(sheets) * job.copies, NEW reversed \in BOOLEAN,
           \A c \in 1 .. job.copies, i \in 1 .. Len(sheets) :
              stack[Place(job.copies, job.collate, Len(sheets), c, i)]
                 = sheets[IF reversed THEN Len(sheets) + 1 - i ELSE i]
    PROVE  Holds(Ordered(stack, reversed), sheets)
<1> DEFINE n == Len(sheets)
           C == job.copies
           o == Ordered(stack, reversed)
           At(c, i) == Place(C, job.collate, n, c, i)
<1>1. C \in Nat /\ job.collate \in BOOLEAN /\ n \in Nat /\ DOMAIN sheets = 1 .. n
  BY CopiedList DEF IsList
<1>2. n * C = C * n
  BY <1>1
<1>3. /\ Len(o) = n * C
      /\ \A k \in 1 .. n * C : o[k] = stack[IF reversed THEN n * C + 1 - k ELSE k]
  BY OrderedList
<1>4. ASSUME NEW c \in 1 .. C, NEW i \in 1 .. n
      PROVE  o[At(c, i)] = sheets[i]
  <2>1. At(c, i) \in 1 .. n * C
    <3> HIDE DEF C, n, o
    <3> QED  BY <1>1, PlaceTells
  <2>2. /\ C + 1 - c \in 1 .. C /\ n + 1 - i \in 1 .. n
        /\ n * C + 1 - At(c, i) = At(C + 1 - c, n + 1 - i)
    <3> HIDE DEF C, n, o
    <3> QED  BY <1>1, PlaceReversed
  <2>3. n + 1 - (n + 1 - i) = i
    BY <1>1
  <2>4. \A d \in 1 .. C, j \in 1 .. n :
           stack[At(d, j)] = sheets[IF reversed THEN n + 1 - j ELSE j]
    OBVIOUS
  <2> HIDE DEF At, o, C, n
  <2>5. CASE reversed
    <3>1. o[At(c, i)] = stack[At(C + 1 - c, n + 1 - i)]
      BY <1>3, <2>1, <2>2, <2>5
    <3>2. stack[At(C + 1 - c, n + 1 - i)] = sheets[n + 1 - (n + 1 - i)]
      BY <2>2, <2>4, <2>5
    <3> QED  BY <2>3, <3>1, <3>2
  <2>6. CASE ~reversed
    BY <1>3, <2>1, <2>4, <2>6
  <2> QED  BY <2>5, <2>6
<1>5. \A c \in 1 .. C, i \in DOMAIN sheets : o[At(c, i)] = sheets[i]
  BY <1>1, <1>4
<1> QED  BY <1>2, <1>3, <1>5 DEF Holds

\* The sheets of a file printed on one side, and on both by the printer.
OneSided(f) == [i \in DOMAIN f |-> <<f[i], Blank>>]
TwoSided(f) ==
    [i \in 1 .. (Len(f) + 1) \div 2 |->
        <<f[2 * i - 1], IF 2 * i <= Len(f) THEN f[2 * i] ELSE Blank>>]

\* One side of each sheet: the stack lies as the file, or as its reverse.
LEMMA OneSidedHeld ==
    ASSUME JobOK, NEW s, IsList(s), NEW reversed \in BOOLEAN,
           NEW f, f = Ordered(Copied(s), reversed) \/ f = Copied(Ordered(s, reversed))
    PROVE  /\ IsList(f)
           /\ Holds(Ordered(OneSided(f), reversed), OneSided(s))
<1> DEFINE n == Len(s)
           C == job.copies
           At(c, i) == Place(C, job.collate, n, c, i)
           From(i) == IF reversed THEN n + 1 - i ELSE i
           a == Copied(s)
           r == Ordered(s, reversed)
<1>1. C \in Nat /\ job.collate \in BOOLEAN /\ n \in Nat
  BY CopiedList
<1>2. /\ IsList(f) /\ Len(f) = n * C
      /\ \A c \in 1 .. C, i \in 1 .. n : f[At(c, i)] = s[From(i)]
  <2>1. CASE f = Ordered(a, reversed)
    <3>1. IsList(a) /\ Len(a) = n * C /\ \A c \in 1 .. C, i \in 1 .. n : a[At(c, i)] = s[i]
      BY CopiedList, Zenon
    <3>2. /\ IsList(f) /\ Len(f) = n * C
          /\ \A k \in 1 .. n * C : f[k] = a[IF reversed THEN n * C + 1 - k ELSE k]
      <4> HIDE DEF a
      <4> QED  BY <2>1, <3>1, OrderedList
    <3>3. ASSUME NEW c \in 1 .. C, NEW i \in 1 .. n
          PROVE  f[At(c, i)] = s[From(i)]
      <4>1. At(c, i) \in 1 .. n * C
        BY <1>1, PlaceTells
      <4>2. /\ C + 1 - c \in 1 .. C /\ n + 1 - i \in 1 .. n
            /\ n * C + 1 - At(c, i) = At(C + 1 - c, n + 1 - i)
        <5> HIDE DEF n, C, a
        <5> QED  BY <1>1, PlaceReversed
      <4> HIDE DEF At, a, n, C
      <4> QED  BY <3>1, <3>2, <4>1, <4>2
    <3> QED  BY <3>2, <3>3
  <2>2. CASE f = Copied(r)
    <3>1. IsList(r) /\ Len(r) = n /\ \A i \in 1 .. n : From(i) \in 1 .. n /\ r[i] = s[From(i)]
      BY OrderedList
    <3> HIDE DEF r
    <3>2. /\ IsList(f) /\ Len(f) = Len(r) * C
          /\ \A c \in 1 .. C, i \in 1 .. Len(r) :
                f[Place(C, job.collate, Len(r), c, i)] = r[i]
      BY <2>2, <3>1, CopiedList, Zenon
    <3> HIDE DEF n, From
    <3> QED  BY <3>1, <3>2
  <2> QED  BY <2>1, <2>2
<1> DEFINE p == OneSided(f)
           q == OneSided(s)
<1>3. IsList(p) /\ Len(p) = n * C /\ \A k \in 1 .. n * C : p[k] = <<f[k], Blank>>
  <2>1. DOMAIN f = 1 .. n * C /\ n * C \in Nat
    BY <1>1, <1>2 DEF IsList
  <2>2. p = [k \in 1 .. n * C |-> p[k]] /\ \A k \in 1 .. n * C : p[k] = <<f[k], Blank>>
    BY <2>1 DEF OneSided
  <2> QED  BY <2>1, <2>2, Constructed
<1>4. IsList(q) /\ Len(q) = n /\ \A i \in 1 .. n : q[i] = <<s[i], Blank>>
  <2>1. DOMAIN s = 1 .. n
    BY DEF IsList
  <2>2. q = [i \in 1 .. n |-> q[i]] /\ \A i \in 1 .. n : q[i] = <<s[i], Blank>>
    BY <2>1 DEF OneSided
  <2> QED  BY <1>1, <2>2, Constructed
<1>5. \A c \in 1 .. C, i \in 1 .. n : p[At(c, i)] = q[From(i)]
  <2> TAKE c \in 1 .. C, i \in 1 .. n
  <2>1. At(c, i) \in 1 .. n * C
    <3> HIDE DEF n, C, p, q
    <3> QED  BY <1>1, PlaceTells
  <2>2. From(i) \in 1 .. n
    BY <1>1
  <2> HIDE DEF At, From, p, q
  <2> QED  BY <1>2, <1>3, <1>4, <2>1, <2>2
<1>6. Holds(Ordered(p, reversed), q)
  <2> HIDE DEF p, q
  <2> QED  BY <1>3, <1>4, <1>5, CopiesHeld
<1> QED  BY <1>2, <1>6

\* The sheets that TwoSided makes.
LEMMA TwoSidedList ==
    ASSUME NEW s, IsList(s)
    PROVE  LET n == (Len(s) + 1) \div 2 IN
           /\ IsList(TwoSided(s)) /\ Len(TwoSided(s)) = n /\ n \in Nat
           /\ \A i \in 1 .. n :
                 /\ 2 * i - 1 \in 1 .. Len(s)
                 /\ TwoSided(s)[i]
                       = <<s[2 * i - 1], IF 2 * i <= Len(s) THEN s[2 * i] ELSE Blank>>
<1> DEFINE n == (Len(s) + 1) \div 2
           t == TwoSided(s)
<1>1. Len(s) \in Nat
  BY DEF IsList
<1>2. n \in Nat /\ \A i \in 1 .. n : 2 * i - 1 \in 1 .. Len(s)
  BY <1>1
<1> HIDE DEF n
<1>3. /\ t = [i \in 1 .. n |-> t[i]]
      /\ \A i \in 1 .. n : t[i] = <<s[2 * i - 1], IF 2 * i <= Len(s) THEN s[2 * i] ELSE Blank>>
  BY DEF TwoSided, n
<1>4. IsList(t) /\ Len(t) = n
  <2> HIDE DEF t
  <2> QED  BY <1>2, <1>3, Constructed
<1> QED  BY <1>2, <1>3, <1>4 DEF n

\* Both sides by the printer: one copy, or collated copies of whole sheets.
LEMMA TwoSidedHeld ==
    ASSUME JobOK, NEW s, IsList(s),
           job.copies = 1 \/ (job.collate /\ Len(s) % 2 = 0)
    PROVE  Holds(TwoSided(Copied(s)), TwoSided(s))
<1> DEFINE C == job.copies
           h == (Len(s) + 1) \div 2
           q == TwoSided(s)
           f == Copied(s)
           p == TwoSided(f)
<1>1. C \in Nat \ {0} /\ job.collate \in BOOLEAN /\ Len(s) \in Nat
  BY CopiedList
<1>2. /\ IsList(q) /\ Len(q) = h /\ h \in Nat
      /\ \A i \in 1 .. h :
            /\ 2 * i - 1 \in 1 .. Len(s)
            /\ q[i] = <<s[2 * i - 1], IF 2 * i <= Len(s) THEN s[2 * i] ELSE Blank>>
  BY TwoSidedList
<1>3. CASE C = 1
  <2>1. f = s
    BY <1>1, <1>3, OneCopy DEF Copied
  <2>2. \A i \in 1 .. h : Place(1, job.collate, h, 1, i) = i
    BY <1>1, <1>2, OneCopy
  <2>3. DOMAIN q = 1 .. h
    BY <1>2 DEF IsList
  <2> HIDE DEF q, h
  <2> QED  BY <1>2, <1>3, <2>1, <2>2, <2>3 DEF Holds, q
<1>4. CASE job.collate /\ Len(s) % 2 = 0
  <2>1. Len(s) = 2 * h
    BY <1>1, <1>4
  <2>2. IsList(f) /\ Len(f) = 2 * h * C
        /\ \A c \in 1 .. C, i \in 1 .. 2 * h : f[Place(C, TRUE, 2 * h, c, i)] = s[i]
    <3>1. job.collate = TRUE
      BY <1>1, <1>4
    <3>2. /\ IsList(f) /\ Len(f) = Len(s) * C
          /\ \A c \in 1 .. C, i \in 1 .. Len(s) :
                f[Place(C, job.collate, Len(s), c, i)] = s[i]
      BY CopiedList, Zenon
    <3> HIDE DEF f, C, h
    <3> QED  BY <2>1, <3>1, <3>2, Zenon
  <2> HIDE DEF h
  <2>3. h * C \in Nat /\ 2 * h * C = 2 * (h * C)
    BY <1>1, <1>2
  <2>4. (2 * h * C + 1) \div 2 = h * C
    BY <2>3
  <2>5. /\ IsList(p) /\ Len(p) = h * C
        /\ \A k \in 1 .. h * C :
              p[k] = <<f[2 * k - 1], IF 2 * k <= Len(f) THEN f[2 * k] ELSE Blank>>
    <3>1. IsList(f)
      BY <2>2
    <3> HIDE DEF f
    <3>2. LET n == (Len(f) + 1) \div 2 IN
          /\ IsList(p) /\ Len(p) = n
          /\ \A k \in 1 .. n :
                p[k] = <<f[2 * k - 1], IF 2 * k <= Len(f) THEN f[2 * k] ELSE Blank>>
      BY <3>1, TwoSidedList
    <3> HIDE DEF p
    <3> QED  BY <2>2, <2>4, <3>2
  <2> HIDE DEF p, q, f, C
  <2>6. ASSUME NEW c \in 1 .. C, NEW i \in 1 .. h
        PROVE  p[Place(C, TRUE, h, c, i)] = q[i]
    <3> DEFINE k == Place(C, TRUE, h, c, i)
    <3>1. k \in 1 .. h * C
      <4>1. C \in Nat /\ TRUE \in BOOLEAN
        BY <1>1
      <4> QED  BY <1>2, <4>1, PlaceTells
    <3>2. /\ 2 * k - 1 = Place(C, TRUE, 2 * h, c, 2 * i - 1)
          /\ 2 * k = Place(C, TRUE, 2 * h, c, 2 * i)
          /\ 2 * i - 1 \in 1 .. 2 * h /\ 2 * i \in 1 .. 2 * h
      BY <1>1, <1>2 DEF Place
    <3> HIDE DEF k
    <3>3. f[2 * k - 1] = s[2 * i - 1] /\ f[2 * k] = s[2 * i]
      BY <2>2, <3>2
    <3>4. 2 * k <= Len(f)
      BY <1>1, <1>2, <2>2, <2>3, <3>1
    <3>5. q[i] = <<s[2 * i - 1], s[2 * i]>>
      BY <1>2, <2>1, <3>2
    <3>6. p[k] = <<f[2 * k - 1], f[2 * k]>>
      BY <2>5, <3>1, <3>4
    <3> QED  BY <3>3, <3>5, <3>6 DEF k
  <2>7. DOMAIN q = 1 .. h /\ h * C = C * h /\ job.collate = TRUE
    BY <1>1, <1>2, <1>4 DEF IsList
  <2> QED  BY <1>2, <2>5, <2>6, <2>7 DEF Holds, C, p, f, q
<1> QED  BY <1>3, <1>4

\* The sheets of two passes, the first turned over and fed again.
On(side, i) == IF i <= Len(side) THEN side[i] ELSE Blank
TwoPasses(f, g) ==
    LET old == Ordered(f, job.feed = "reverseOrder")
        last == IF Len(old) > Len(g) THEN Len(old) ELSE Len(g)
    IN  [i \in 1 .. last |-> Sheet(On(old, i), On(g, i))]

\* The sheets of two passes, one by one; the longer pass gives their number.
LEMMA TwoPassesList ==
    ASSUME JobOK, NEW f, IsList(f), NEW g, IsList(g)
    PROVE  LET old == Ordered(f, job.feed = "reverseOrder")
               p == TwoPasses(f, g)
           IN  /\ IsList(p) /\ IsList(old) /\ Len(old) = Len(f)
               /\ Len(p) = IF Len(f) > Len(g) THEN Len(f) ELSE Len(g)
               /\ \A i \in 1 .. Len(p) : p[i] = Sheet(On(old, i), On(g, i))
<1> DEFINE old == Ordered(f, job.feed = "reverseOrder")
           n == IF Len(f) > Len(g) THEN Len(f) ELSE Len(g)
           p == TwoPasses(f, g)
<1>1. IsList(old) /\ Len(old) = Len(f)
  <2>1. (job.feed = "reverseOrder") \in BOOLEAN
    OBVIOUS
  <2> QED  BY <2>1, OrderedList
<1>2. n \in Nat
  BY DEF IsList
<1> HIDE DEF old
<1>3. /\ p = [i \in 1 .. n |-> p[i]]
      /\ \A i \in 1 .. n : p[i] = Sheet(On(old, i), On(g, i))
  BY <1>1 DEF TwoPasses, old
<1> HIDE DEF p, n
<1>4. IsList(p) /\ Len(p) = n
  BY <1>2, <1>3, Constructed
<1> QED  BY <1>1, <1>3, <1>4 DEF old, n, p

\* A pass over whole sheets.
LEMMA WholePass ==
    ASSUME NEW s, IsList(s), JobOK, NEW even \in BOOLEAN, NEW reversed \in BOOLEAN,
           NEW m \in Nat, Len(Padded(s)) = 2 * m
    PROVE  /\ IsList(Pass(s, even, reversed)) /\ Len(Pass(s, even, reversed)) = m
           /\ \A i \in 1 .. m :
                 Pass(s, even, reversed)[i]
                    = Padded(s)[2 * (IF reversed THEN m + 1 - i ELSE i) - Parity(even)]
<1> DEFINE p == Pass(s, even, reversed)
           d == Padded(s)
           par == Parity(even)
<1>1. LET n == (Len(d) + par) \div 2
      IN  /\ IsList(p) /\ Len(p) = n
          /\ \A i \in 1 .. n : p[i] = d[2 * (IF reversed THEN n + 1 - i ELSE i) - par]
  BY PassList
<1>2. par \in {0, 1}
  BY DEF Parity
<1> HIDE DEF p, d, par
<1>3. (Len(d) + par) \div 2 = m
  BY <1>2 DEF d
<1>4. /\ IsList(p) /\ Len(p) = m
      /\ \A i \in 1 .. m : p[i] = d[2 * (IF reversed THEN m + 1 - i ELSE i) - par]
  BY <1>1, <1>3
<1> QED  BY <1>4 DEF p, d, par

\* By hand: with a suitable configuration page 2k is on the back of page 2k - 1,
\* and the stack lies in order or, if the second pass is reversed, in reverse.
LEMMA ByHandHeld ==
    ASSUME JobOK, Suited, NEW s, IsList(s), Len(Padded(s)) % 2 = 0
    PROVE  Holds(Ordered(TwoPasses(Copied(FirstPages(s)), Copied(SecondPages(s))),
                         job.reverseSecond),
                 TwoSided(s))
<1> DEFINE C == job.copies
           col == job.collate
           r1 == job.reverseFirst
           r2 == job.reverseSecond
           fed == job.feed = "reverseOrder"
           par == Parity(~job.firstPassOdd)
           q == TwoSided(s)
           d == Padded(s)
           fp == FirstPages(s)
           sp == SecondPages(s)
           f == Copied(fp)
           g == Copied(sp)
           old == Ordered(f, fed)
           p == TwoPasses(f, g)
           Back(back, n, i) == IF back THEN n + 1 - i ELSE i
<1>1. C \in Nat \ {0} /\ col \in BOOLEAN /\ Len(s) \in Nat
  BY CopiedList
<1>2. /\ r1 \in BOOLEAN /\ r2 \in BOOLEAN /\ fed \in BOOLEAN /\ (r1 = r2) = ~fed
      /\ job.firstPassOdd \in BOOLEAN
      /\ par = (IF job.firstPassOdd THEN 1 ELSE 0) /\ Parity(job.firstPassOdd) = 1 - par
  BY DEF JobOK, Suited, Parity
<1>3. /\ IsList(d) /\ (Len(d) = Len(s) \/ Len(d) = Len(s) + 1)
      /\ \A i \in 1 .. Len(s) : d[i] = s[i]
      /\ Len(d) = Len(s) + 1 => d[Len(s) + 1] = Blank
  BY <1>1, PaddedList
<1>4. PICK m \in Nat : Len(d) = 2 * m
  <2>1. Len(d) \in Nat /\ Len(d) % 2 = 0
    BY <1>3 DEF IsList
  <2> HIDE DEF d
  <2> QED  BY <2>1
<1>5. /\ (2 * m + par) \div 2 = m /\ (2 * m + (1 - par)) \div 2 = m
      /\ (Len(s) + 1) \div 2 = m
  <2>1. par \in {0, 1}
    BY <1>2
  <2> HIDE DEF d, par
  <2> QED  BY <1>1, <1>3, <1>4, <2>1
<1>6. /\ IsList(fp) /\ Len(fp) = m
      /\ \A i \in 1 .. m : fp[i] = d[2 * Back(r1, m, i) - par]
  <2>1. PICK even \in BOOLEAN : even = ~job.firstPassOdd
    OBVIOUS
  <2>2. PICK back \in BOOLEAN : back = r1
    BY <1>2
  <2>3. fp = Pass(s, even, back) /\ par = Parity(even)
    BY <2>1, <2>2 DEF FirstPages
  <2> HIDE DEF fp, par, r1
  <2>4. /\ IsList(fp) /\ Len(fp) = m
        /\ \A i \in 1 .. m : fp[i] = d[2 * Back(back, m, i) - par]
    BY <1>4, <2>3, WholePass
  <2> QED  BY <2>2, <2>4
<1>7. /\ IsList(sp) /\ Len(sp) = m
      /\ \A i \in 1 .. m : sp[i] = d[2 * Back(r2, m, i) - (1 - par)]
  <2>1. PICK even \in BOOLEAN : even = job.firstPassOdd
    BY <1>2
  <2>2. PICK back \in BOOLEAN : back = r2
    BY <1>2
  <2>3. sp = Pass(s, even, back) /\ 1 - par = Parity(even)
    BY <1>2, <2>1, <2>2 DEF SecondPages
  <2> HIDE DEF sp, par, r2
  <2>4. /\ IsList(sp) /\ Len(sp) = m
        /\ \A i \in 1 .. m : sp[i] = d[2 * Back(back, m, i) - Parity(even)]
    BY <1>4, <2>3, WholePass
  <2> QED  BY <2>2, <2>3, <2>4
<1> HIDE DEF fp, sp, d, par
<1>8. /\ IsList(f) /\ Len(f) = m * C
      /\ \A c \in 1 .. C, i \in 1 .. m : f[Place(C, col, m, c, i)] = fp[i]
  <2>1. /\ IsList(f) /\ Len(f) = Len(fp) * C
        /\ \A c \in 1 .. C, i \in 1 .. Len(fp) : f[Place(C, col, Len(fp), c, i)] = fp[i]
    BY <1>6, CopiedList, Zenon
  <2> HIDE DEF f
  <2> QED  BY <1>6, <2>1
<1>9. /\ IsList(g) /\ Len(g) = m * C
      /\ \A c \in 1 .. C, i \in 1 .. m : g[Place(C, col, m, c, i)] = sp[i]
  <2>1. /\ IsList(g) /\ Len(g) = Len(sp) * C
        /\ \A c \in 1 .. C, i \in 1 .. Len(sp) : g[Place(C, col, Len(sp), c, i)] = sp[i]
    BY <1>7, CopiedList, Zenon
  <2> HIDE DEF g
  <2> QED  BY <1>7, <2>1
<1> HIDE DEF f, g
<1>10. /\ IsList(p) /\ Len(p) = m * C
       /\ \A k \in 1 .. m * C : p[k] = Sheet(old[k], g[k]) /\ old[k] = f[Back(fed, m * C, k)]
  <2>0. m * C \in Nat
    BY <1>1
  <2>1. /\ IsList(p) /\ Len(p) = m * C
        /\ Len(old) = m * C
        /\ \A k \in 1 .. m * C : p[k] = Sheet(On(old, k), On(g, k))
    BY <1>8, <1>9, <2>0, TwoPassesList
  <2>2. \A k \in 1 .. Len(f) : old[k] = f[Back(fed, Len(f), k)]
    <3>1. fed \in BOOLEAN /\ IsList(f)
      BY <1>2, <1>8
    <3> HIDE DEF fed
    <3> QED  BY <3>1, OrderedList
  <2> HIDE DEF p, old, C
  <2>3. \A k \in 1 .. m * C : On(old, k) = old[k] /\ On(g, k) = g[k]
    BY <1>9, <2>0, <2>1 DEF On
  <2> QED  BY <1>8, <2>1, <2>2, <2>3
<1>11. /\ IsList(q) /\ Len(q) = m
       /\ \A i \in 1 .. m :
             2 * i - 1 \in 1 .. Len(s)
             /\ q[i] = <<s[2 * i - 1], IF 2 * i <= Len(s) THEN s[2 * i] ELSE Blank>>
  <2>1. LET n == (Len(s) + 1) \div 2
        IN  /\ IsList(q) /\ Len(q) = n
            /\ \A i \in 1 .. n :
                  2 * i - 1 \in 1 .. Len(s)
                  /\ q[i] = <<s[2 * i - 1], IF 2 * i <= Len(s) THEN s[2 * i] ELSE Blank>>
    BY TwoSidedList
  <2> HIDE DEF q
  <2> QED  BY <1>5, <2>1
<1> HIDE DEF p, q, old
<1>12. \A i \in 1 .. m : q[i] = <<d[2 * i - 1], d[2 * i]>>
  <2> TAKE i \in 1 .. m
  <2>1. 2 * i - 1 \in 1 .. Len(s) /\ 2 * i \in 1 .. 2 * m
    BY <1>11
  <2>2. CASE 2 * i <= Len(s)
    <3>1. 2 * i \in 1 .. Len(s)
      BY <1>1, <2>1, <2>2
    <3>2. q[i] = <<s[2 * i - 1], s[2 * i]>>
      BY <1>11, <2>2
    <3> QED  BY <1>3, <2>1, <3>1, <3>2
  <2>3. CASE ~(2 * i <= Len(s))
    <3>1. 2 * i = Len(s) + 1 /\ Len(d) = Len(s) + 1
      BY <1>1, <1>3, <1>4, <2>1, <2>3
    <3>2. q[i] = <<s[2 * i - 1], Blank>>
      BY <1>11, <2>3
    <3> QED  BY <1>3, <2>1, <3>1, <3>2
  <2> QED  BY <2>2, <2>3
<1>13. ASSUME NEW c \in 1 .. C, NEW i \in 1 .. m
       PROVE  p[Place(C, col, m, c, i)] = q[Back(r2, m, i)]
  <2> DEFINE k == Place(C, col, m, c, i)
             y == Back(r2, m, i)
  <2>0. C \in Nat
    BY <1>1
  <2>1. k \in 1 .. m * C
    BY <1>1, <2>0, PlaceTells
  <2>2. /\ C + 1 - c \in 1 .. C /\ m + 1 - i \in 1 .. m
        /\ m * C + 1 - k = Place(C, col, m, C + 1 - c, m + 1 - i)
    <3> HIDE DEF C, col
    <3> QED  BY <1>1, <2>0, PlaceReversed
  <2> HIDE DEF k, C, col
  <2>3. y \in 1 .. m
    BY <2>2
  <2>4. f[Back(fed, m * C, k)] = fp[Back(fed, m, i)]
    <3>1. CASE fed
      BY <1>8, <2>2, <3>1
    <3>2. CASE ~fed
      BY <1>8, <3>2 DEF k
    <3> QED  BY <3>1, <3>2
  <2>5. Back(fed, m, i) \in 1 .. m /\ Back(r1, m, Back(fed, m, i)) = y
    BY <1>2, <2>2
  <2> HIDE DEF Back, y, r1, r2, fed
  <2>6. old[k] = d[2 * y - par]
    BY <1>6, <1>10, <2>1, <2>4, <2>5
  <2>7. g[k] = d[2 * y - (1 - par)]
    BY <1>7, <1>9 DEF k, y
  <2>8. p[k] = Sheet(d[2 * y - par], d[2 * y - (1 - par)])
    BY <1>10, <2>1, <2>6, <2>7
  <2>9. p[k] = <<d[2 * y - 1], d[2 * y]>>
    <3>1. 2 * y - 0 = 2 * y /\ 1 - 1 = 0 /\ 1 - 0 = 1
      BY <2>3
    <3>2. CASE job.firstPassOdd
      BY <1>2, <2>8, <3>1, <3>2 DEF Sheet
    <3>3. CASE ~job.firstPassOdd
      BY <1>2, <2>8, <3>1, <3>3 DEF Sheet
    <3> QED  BY <3>2, <3>3
  <2> QED  BY <1>12, <2>3, <2>9 DEF k, y
<1>14. \A c \in 1 .. C, i \in 1 .. Len(q) :
           p[Place(C, col, Len(q), c, i)] = q[IF r2 THEN Len(q) + 1 - i ELSE i]
  BY <1>11, <1>13
<1>15. Holds(Ordered(p, r2), q)
  <2>1. Len(p) = Len(q) * C
    BY <1>10, <1>11
  <2>2. r2 \in BOOLEAN /\ IsList(p) /\ IsList(q)
    BY <1>2, <1>10, <1>11
  <2> QED  BY <1>14, <2>1, <2>2, CopiesHeld, ZenonT(60)
<1> QED  BY <1>15 DEF p, q, f, g, fp, sp

----------------------------------------------------------------------------
(* The invariant: what the handler has made of the document at each step. *)

Bot == job.origin = "bot"

\* What is printed as one job, and the two passes, as each origin makes them.
OneJob ==
    IF Bot THEN Ordered(Copied(Document), job.reverse) ELSE Copied(Ordered(Document, job.reverse))
FirstPass == IF Bot THEN FirstPages(Copied(Document)) ELSE Copied(FirstPages(Document))
SecondPass == IF Bot THEN SecondPages(Copied(Document)) ELSE Copied(SecondPages(Document))

FileFollows ==
    /\ step = "reverse" => file = IF Bot THEN Copied(Document) ELSE Document
    /\ step = "copy" => file = IF Bot THEN Document ELSE Ordered(Document, job.reverse)
    /\ step = "split" => file = IF Bot THEN Copied(Document) ELSE Document
    /\ step = "print" => file = OneJob

PassesFollow ==
    /\ step = "copyPasses" =>
          ~Bot /\ first = FirstPages(Document) /\ second = SecondPages(Document)
    /\ step \in {"firstPass", "turn"} => first = FirstPass /\ second = SecondPass

PileFollows ==
    step = "done" =>
        pile = CASE job.duplex = "off"  -> OneSided(OneJob)
                 [] job.duplex = "auto" -> TwoSided(OneJob)
                 [] OTHER               -> TwoPasses(FirstPass, SecondPass)

SheetsInv ==
    /\ JobOK
    /\ step \in {"select", "reverse", "copy", "split", "copyPasses", "firstPass", "turn",
                 "print", "done"}
    /\ step = "reverse" => job.duplex = "off"
    /\ step = "copy" /\ ~Bot => job.duplex # "manual"
    /\ step = "print" => job.duplex # "manual"
    /\ step \in {"split", "copyPasses", "firstPass", "turn"} => job.duplex = "manual"
    /\ FileFollows
    /\ PassesFollow
    /\ PileFollows

\* The jobs are well formed, and nothing is made of them yet.
LEMMA InitEstablishes == Init => SheetsInv
<1> SUFFICES ASSUME Init PROVE SheetsInv
  OBVIOUS
<1>1. JobOK
  BY DEF Init, Jobs, JobOK
<1>2. step = "select"
  BY DEF Init
<1> QED  BY <1>1, <1>2 DEF SheetsInv, FileFollows, PassesFollow, PileFollows

\* Each step makes of the file what the next one expects.
LEMMA StepKeeps ==
    ASSUME SheetsInv, [Next]_vars
    PROVE  SheetsInv'
<1> USE DEF SheetsInv, FileFollows, PassesFollow, PileFollows, Goto
<1>1. ASSUME job' = job
      PROVE  /\ JobOK' /\ Document' = Document /\ Bot' = Bot /\ OneJob' = OneJob
             /\ FirstPass' = FirstPass /\ SecondPass' = SecondPass
             /\ \A s : Copied(s)' = Copied(s)
             /\ FirstPages(Document)' = FirstPages(Document)
             /\ SecondPages(Document)' = SecondPages(Document)
             /\ TwoPasses(FirstPass, SecondPass)' = TwoPasses(FirstPass, SecondPass)
  <2>1. JobOK' /\ Document' = Document /\ Bot' = Bot
    BY <1>1 DEF JobOK, Document, Bot
  <2>2. OneJob' = OneJob /\ Copied(Document)' = Copied(Document)
    BY <1>1, <2>1 DEF OneJob, Copied
  <2>3. /\ FirstPages(Document)' = FirstPages(Document)
        /\ SecondPages(Document)' = SecondPages(Document)
        /\ FirstPass' = FirstPass /\ SecondPass' = SecondPass
    BY <1>1, <2>1, <2>2
       DEF FirstPass, SecondPass, FirstPages, SecondPages, Pass, Padded, Copied
  <2>4. TwoPasses(FirstPass, SecondPass)' = TwoPasses(FirstPass, SecondPass)
    BY <1>1, <2>3 DEF TwoPasses, Sheet, On
  <2>5. \A s : Copied(s)' = Copied(s)
    BY <1>1 DEF Copied
  <2> QED  BY <2>1, <2>2, <2>3, <2>4, <2>5
<1>2. CASE Select
  <2> DEFINE duplex == IF Len(Document) = 1 THEN "off" ELSE job.duplex
  <2>1. /\ job' = [job EXCEPT !.duplex = duplex] /\ file' = Document
        /\ step' = IF Bot THEN "copy"
                   ELSE CASE duplex = "manual" -> "split"
                          [] duplex = "off" -> "reverse"
                          [] OTHER -> "copy"
    BY <1>2 DEF Select, Document, Bot
  <2> HIDE DEF duplex
  <2>2. duplex \in {"off", "auto", "manual"} /\ (duplex # "off" => duplex = job.duplex)
    BY DEF duplex, JobOK
  <2>3. JobOK' /\ job'.duplex = duplex /\ job'.reverse = job.reverse /\ Bot' = Bot
    BY <2>1, <2>2 DEF JobOK, Bot
  <2>4. Document' = Document
    BY <2>1 DEF JobOK, Document
  <2>5. duplex # "off" => Ordered(Document, job.reverse) = Document
    BY <2>2 DEF JobOK, Ordered
  <2> HIDE DEF JobOK
  <2> QED  BY <2>1, <2>2, <2>3, <2>4, <2>5
<1>3. CASE ReverseFile
  <2>1. /\ step = "reverse" /\ step' = (IF Bot THEN "print" ELSE "copy") /\ job' = job
        /\ file' = Ordered(file, job.reverse)
    BY <1>3 DEF ReverseFile, Bot
  <2> QED  BY <1>1, <2>1 DEF OneJob
<1>4. CASE CopyFile
  <2>1. /\ step = "copy" /\ job' = job /\ file' = Copied(file)
        /\ step' = CASE job.duplex = "manual" -> "split"
                     [] job.duplex = "off" /\ Bot -> "reverse"
                     [] OTHER -> "print"
    BY <1>4 DEF CopyFile, Copied, Bot
  <2>2. job.duplex # "off" => Ordered(Copied(Document), job.reverse) = Copied(Document)
    BY DEF JobOK, Ordered
  <2> QED  BY <1>1, <2>1, <2>2 DEF OneJob
<1>5. CASE Split
  <2>1. /\ step = "split" /\ step' = (IF Bot THEN "firstPass" ELSE "copyPasses")
        /\ job' = job /\ first' = FirstPages(file) /\ second' = SecondPages(file)
    BY <1>5 DEF Split, FirstPages, SecondPages, Pass, Padded, Bot
  <2> QED  BY <1>1, <2>1 DEF FirstPass, SecondPass
<1>6. CASE CopyPasses
  BY <1>1, <1>6 DEF CopyPasses, Copied, FirstPass, SecondPass
<1>7. CASE PrintOneJob
  <2>1. /\ step = "print" /\ step' = "done" /\ job' = job
        /\ pile' = IF job.duplex = "off" THEN OneSided(file) ELSE TwoSided(file)
    BY <1>7 DEF PrintOneJob, OneSided, TwoSided
  <2>2. job.duplex \in {"off", "auto"}
    BY <2>1 DEF JobOK
  <2> QED  BY <1>1, <2>1, <2>2 DEF OneSided, TwoSided
<1>8. CASE PrintFirstPass
  BY <1>1, <1>8 DEF PrintFirstPass
<1>9. CASE PrintSecondPass
  <2>1. /\ step = "turn" /\ step' = "done" /\ job' = job /\ pile' = TwoPasses(first, second)
    BY <1>9 DEF PrintSecondPass, TwoPasses, On
  <2> QED  BY <1>1, <2>1
<1>10. CASE Done \/ UNCHANGED vars
  BY <1>1, <1>10 DEF Done, vars
<1> QED  BY <1>2, <1>3, <1>4, <1>5, <1>6, <1>7, <1>8, <1>9, <1>10 DEF Next

\* Whatever was asked for and however the printer is configured, the file, the
\* passes and the pile are at each step what the handler (SubmitPrintJob or
\* handleBotPrint) is to have made of the document.
THEOREM Invariance == Spec => []SheetsInv
<1> QED  BY InitEstablishes, StepKeeps, PTL DEF Spec

----------------------------------------------------------------------------
(* SheetsRight. *)

\* Splitting copies of whole sheets is copying the passes.
LEMMA PassesOfEither ==
    ASSUME JobOK, job.copies = 1 \/ (job.collate /\ Len(Document) % 2 = 0)
    PROVE  FirstPass = Copied(FirstPages(Document)) /\ SecondPass = Copied(SecondPages(Document))
<1>1. IsList(Document)
  BY DocumentList
<1>2. /\ (~job.firstPassOdd) \in BOOLEAN /\ job.firstPassOdd \in BOOLEAN
      /\ job.reverseFirst \in BOOLEAN /\ job.reverseSecond \in BOOLEAN
  BY DEF JobOK
<1>3. /\ FirstPages(Copied(Document)) = Copied(FirstPages(Document))
      /\ SecondPages(Copied(Document)) = Copied(SecondPages(Document))
  BY <1>1, <1>2, SplitCopies DEF FirstPages, SecondPages
<1> QED  BY <1>3 DEF FirstPass, SecondPass

\* What the steps have made is right.
LEMMA RightFollows ==
    ASSUME SheetsInv
    PROVE  SheetsRight
<1> SUFFICES ASSUME step = "done", Suited, ~OddUnpadded, ~BotCopies, ~AutoCopies
             PROVE  RightPile
  BY DEF SheetsRight
<1> DEFINE D == Document
<1>1. JobOK /\ IsList(D) /\ Len(D) \in Nat
  BY DocumentList DEF SheetsInv
<1>2. CopyOfSheets = IF job.duplex = "off" THEN OneSided(D) ELSE TwoSided(D)
  BY DEF CopyOfSheets, OneSided, TwoSided
<1>3. job.copies \in Nat \ {0} /\ job.duplex \in {"off", "auto", "manual"}
  BY <1>1, CopiedList DEF JobOK
<1>4. CASE job.duplex = "off"
  <2>1. pile = OneSided(OneJob)
    BY <1>4 DEF SheetsInv, PileFollows
  <2>2. OneJob = Ordered(Copied(D), job.reverse) \/ OneJob = Copied(Ordered(D, job.reverse))
    BY DEF OneJob
  <2>3. job.reverse \in BOOLEAN
    BY <1>1 DEF JobOK
  <2>4. Holds(Ordered(pile, job.reverse), OneSided(D))
    BY <1>1, <2>1, <2>2, <2>3, OneSidedHeld
  <2> QED  BY <1>2, <1>4, <2>4 DEF RightPile
<1>5. CASE job.duplex = "auto"
  <2>1. pile = TwoSided(OneJob)
    BY <1>5 DEF SheetsInv, PileFollows
  <2>2. OneJob = Copied(D)
    BY <1>1, <1>5 DEF OneJob, JobOK, Ordered
  <2>3. job.copies = 1 \/ (job.collate /\ Len(D) % 2 = 0)
    BY <1>1, <1>3, <1>5 DEF AutoCopies
  <2>4. Holds(pile, TwoSided(D))
    BY <1>1, <2>1, <2>2, <2>3, TwoSidedHeld
  <2> QED  BY <1>2, <1>5, <2>4 DEF RightPile
<1>6. CASE job.duplex = "manual"
  <2>1. pile = TwoPasses(FirstPass, SecondPass)
    BY <1>6 DEF SheetsInv, PileFollows
  <2>2. Len(Padded(D)) % 2 = 0
    <3>1. Len(Padded(D)) = Len(D) + (IF job.padToEven /\ Len(D) % 2 = 1 THEN 1 ELSE 0)
      BY <1>1, PaddedList
    <3>2. job.padToEven \/ Len(D) % 2 # 1
      BY <1>6 DEF OddUnpadded
    <3>3. \A n \in Nat : n % 2 # 1 => n % 2 = 0
      OBVIOUS
    <3>4. \A n \in Nat : n % 2 = 1 => (n + 1) % 2 = 0
      OBVIOUS
    <3>5. CASE job.padToEven /\ Len(D) % 2 = 1
      BY <1>1, <3>1, <3>4, <3>5
    <3>6. CASE ~(job.padToEven /\ Len(D) % 2 = 1)
      <4>1. Len(Padded(D)) = Len(D) /\ Len(D) % 2 # 1
        BY <1>1, <3>1, <3>2, <3>6
      <4> QED  BY <1>1, <3>3, <4>1
    <3> QED  BY <3>5, <3>6
  <2>3. FirstPass = Copied(FirstPages(D)) /\ SecondPass = Copied(SecondPages(D))
    <3>1. CASE job.copies = 1 \/ (job.collate /\ Len(D) % 2 = 0)
      BY <1>1, <3>1, PassesOfEither
    <3>2. CASE ~(job.copies = 1 \/ (job.collate /\ Len(D) % 2 = 0))
      <4>1. ~Bot
        BY <1>1, <1>3, <1>6, <3>2 DEF BotCopies, Bot, JobOK
      <4> QED  BY <4>1 DEF FirstPass, SecondPass
    <3> QED  BY <3>1, <3>2
  <2>4. Holds(Ordered(pile, job.reverseSecond), TwoSided(D))
    BY <1>1, <2>1, <2>2, <2>3, ByHandHeld
  <2>5. job.reverseSecond \in BOOLEAN
    BY <1>1 DEF JobOK
  <2> QED  BY <1>2, <1>6, <2>4, <2>5 DEF RightPile, Ordered
<1> QED  BY <1>3, <1>4, <1>5, <1>6

\* A configuration that suits the printer (prepareManualDuplexFiles) puts page 2k
\* on the back of page 2k - 1 of each copy, in order, for any document, layout and
\* number of copies, but for the named cases.
THEOREM SheetsAreRight == Spec => []SheetsRight
<1> QED  BY Invariance, RightFollows, PTL

----------------------------------------------------------------------------
(* How many times a page occurs. *)

Occurrences(v, s) == {i \in 1 .. Len(s) : s[i] = v}
Times(v, s) == Cardinality(Occurrences(v, s))

\* Two finite sets are as large if their elements can be paired.
LEMMA Paired ==
    ASSUME NEW S, IsFiniteSet(S), NEW T, NEW f, f \in [S -> T],
           \A x, y \in S : f[x] = f[y] => x = y, \A z \in T : \E x \in S : f[x] = z
    PROVE  IsFiniteSet(T) /\ Cardinality(T) = Cardinality(S)
<1>1. f \in Bijection(S, T)
  BY Fun_IsBij
<1> QED  BY <1>1, FS_Bijection DEF ExistsBijection

\* A list has finitely many occurrences of a page.
LEMMA TimesType ==
    ASSUME NEW v, NEW s, IsList(s)
    PROVE  IsFiniteSet(Occurrences(v, s)) /\ Times(v, s) \in Nat
<1>1. Len(s) \in Nat
  BY DEF IsList
<1>2. IsFiniteSet(1 .. Len(s))
  BY <1>1, FS_Interval
<1>3. Occurrences(v, s) \in SUBSET (1 .. Len(s))
  BY DEF Occurrences
<1>4. IsFiniteSet(Occurrences(v, s))
  BY <1>2, <1>3, FS_Subset
<1> QED  BY <1>4, FS_CardinalityType DEF Times

\* A page of the document occurs in it once.
LEMMA TimesDocument ==
    ASSUME JobOK, NEW v \in Range(Document)
    PROVE  v # Blank /\ Times(v, Document) = 1
<1>1. /\ IsList(Document) /\ Len(Document) \in Nat
      /\ \A i \in 1 .. Len(Document) : Document[i] # Blank
      /\ \A i, j \in 1 .. Len(Document) : Document[i] = Document[j] => i = j
  BY DocumentList
<1>2. DOMAIN Document = 1 .. Len(Document)
  BY <1>1 DEF IsList
<1>3. PICK k \in 1 .. Len(Document) : v = Document[k]
  BY <1>2 DEF Range
<1>4. Occurrences(v, Document) = {k}
  BY <1>1, <1>3 DEF Occurrences
<1> QED  BY <1>1, <1>3, <1>4, FS_Singleton DEF Times

\* Turning a list round keeps its pages.
LEMMA TimesOrdered ==
    ASSUME NEW v, NEW s, IsList(s), NEW reversed \in BOOLEAN
    PROVE  Times(v, Ordered(s, reversed)) = Times(v, s)
<1> DEFINE o == Ordered(s, reversed)
           n == Len(s)
           S == Occurrences(v, s)
           T == Occurrences(v, o)
           Back(i) == IF reversed THEN n + 1 - i ELSE i
           f == [i \in S |-> Back(i)]
<1>1. n \in Nat /\ IsFiniteSet(S)
  BY TimesType DEF IsList
<1>2. Len(o) = n /\ \A i \in 1 .. n : Back(i) \in 1 .. n /\ o[i] = s[Back(i)]
  BY OrderedList
<1>3. \A i \in 1 .. n : Back(Back(i)) = i
  BY <1>1
<1> HIDE DEF o, n, Back
<1>4. \A i \in S : i \in 1 .. n /\ Back(i) \in T
  BY <1>2, <1>3 DEF Occurrences, n
<1>5. \A i \in T : i \in 1 .. n /\ Back(i) \in S
  BY <1>2, <1>3 DEF Occurrences, n
<1> HIDE DEF S, T
<1>6. f \in [S -> T] /\ \A x, y \in S : f[x] = f[y] => x = y
  BY <1>3, <1>4
<1>7. \A z \in T : \E x \in S : f[x] = z
  BY <1>3, <1>5
<1> HIDE DEF f
<1>8. Cardinality(T) = Cardinality(S)
  BY <1>1, <1>6, <1>7, Paired
<1> QED  BY <1>8 DEF Times, S, T, o

\* Each copy has each page again.
LEMMA TimesCopied ==
    ASSUME NEW v, NEW s, IsList(s), JobOK
    PROVE  Times(v, Copied(s)) = Times(v, s) * job.copies
<1> DEFINE a == Copied(s)
           n == Len(s)
           C == job.copies
           At(c, i) == Place(C, job.collate, n, c, i)
           O == Occurrences(v, s)
           S == O \X (1 .. C)
           T == Occurrences(v, a)
           f == [x \in S |-> At(x[2], x[1])]
<1>1. C \in Nat /\ job.collate \in BOOLEAN /\ n \in Nat
  BY CopiedList
<1>2. IsList(a) /\ Len(a) = n * C /\ \A c \in 1 .. C, i \in 1 .. n : a[At(c, i)] = s[i]
  BY CopiedList, Zenon
<1>3. \A c \in 1 .. C, i \in 1 .. n : At(c, i) \in 1 .. n * C
  BY <1>1, PlaceTells
<1>4. ASSUME NEW c \in 1 .. C, NEW i \in 1 .. n, NEW d \in 1 .. C, NEW j \in 1 .. n,
             At(c, i) = At(d, j)
      PROVE  c = d /\ i = j
  <2> HIDE DEF C, n
  <2> QED  BY <1>1, <1>4, PlaceInjective
<1>5. \A k \in 1 .. n * C : \E c \in 1 .. C, i \in 1 .. n : k = At(c, i)
  <2> HIDE DEF C, n
  <2> QED  BY <1>1, PlacesCover, Zenon
<1> HIDE DEF At, a
<1>6. \A x \in S : x[1] \in 1 .. n /\ s[x[1]] = v /\ x[2] \in 1 .. C /\ x = <<x[1], x[2]>>
  BY DEF Occurrences
<1>7. \A k \in T : k \in 1 .. n * C /\ a[k] = v
  BY <1>2 DEF Occurrences
<1>8. \A x \in S : At(x[2], x[1]) \in T
  BY <1>2, <1>3, <1>6 DEF Occurrences
<1>9. \A k \in T : \E x \in S : k = At(x[2], x[1])
  <2> TAKE k \in T
  <2>1. PICK c \in 1 .. C, i \in 1 .. n : k = At(c, i)
    BY <1>5, <1>7
  <2>2. s[i] = v
    BY <1>2, <1>7, <2>1
  <2>3. <<i, c>> \in S
    BY <2>2 DEF Occurrences
  <2> QED  BY <2>1, <2>3
<1>10. IsFiniteSet(S) /\ Cardinality(S) = Times(v, s) * C
  <2>0. 1 \in Int /\ C \in Int /\ C - 1 + 1 = C /\ (1 > C => C = 0)
    BY <1>1
  <2>1. IsFiniteSet(O) /\ IsFiniteSet(1 .. C) /\ Cardinality(1 .. C) = C
    <3> HIDE DEF C
    <3> QED  BY <2>0, TimesType, FS_Interval
  <2> QED  BY <2>1, FS_Product DEF Times
<1> HIDE DEF S, T, C, n
<1>11. f \in [S -> T] /\ \A x, y \in S : f[x] = f[y] => x = y
  BY <1>4, <1>6, <1>8
<1>12. \A z \in T : \E x \in S : f[x] = z
  BY <1>9
<1> HIDE DEF f
<1>13. Cardinality(T) = Cardinality(S)
  BY <1>10, <1>11, <1>12, Paired
<1> QED  BY <1>10, <1>13 DEF Times, T, a, C

\* The padding adds nothing but a blank page.
LEMMA TimesPadded ==
    ASSUME JobOK, NEW v, v # Blank, NEW s, IsList(s)
    PROVE  Times(v, Padded(s)) = Times(v, s)
<1>1. /\ Len(Padded(s)) = Len(s) \/ Len(Padded(s)) = Len(s) + 1
      /\ \A i \in 1 .. Len(s) : Padded(s)[i] = s[i]
      /\ Len(Padded(s)) = Len(s) + 1 => Padded(s)[Len(s) + 1] = Blank
      /\ Len(s) \in Nat
  BY PaddedList DEF IsList
<1>2. Occurrences(v, Padded(s)) = Occurrences(v, s)
  BY <1>1 DEF Occurrences
<1> QED  BY <1>2 DEF Times

\* A pass has the pages of one parity.
LEMMA TimesPass ==
    ASSUME JobOK, NEW v, NEW s, IsList(s), NEW even \in BOOLEAN, NEW reversed \in BOOLEAN
    PROVE  Times(v, Pass(s, even, reversed))
              = Cardinality({k \in Occurrences(v, Padded(s)) : (k % 2 = 0) = even})
<1> DEFINE p == Pass(s, even, reversed)
           d == Padded(s)
           par == Parity(even)
           n == (Len(d) + par) \div 2
           Page(i) == 2 * (IF reversed THEN n + 1 - i ELSE i) - par
           S == Occurrences(v, p)
           T == {k \in Occurrences(v, d) : (k % 2 = 0) = even}
           f == [i \in S |-> Page(i)]
<1>1. IsList(d) /\ Len(d) \in Nat /\ par \in {0, 1} /\ (even <=> par = 0)
  BY PaddedList DEF IsList, Parity
<1>2. /\ IsList(p) /\ Len(p) = n /\ n \in Nat
      /\ \A i \in 1 .. n : Page(i) \in 1 .. Len(d) /\ p[i] = d[Page(i)]
  BY PassList
<1> HIDE DEF p, d, par
<1>3. \A i, j \in 1 .. n : Page(i) = Page(j) => i = j
  <2> HIDE DEF n
  <2> QED  BY <1>1, <1>2
<1>4. \A i \in 1 .. n : (Page(i) % 2 = 0) = even
  <2> TAKE i \in 1 .. n
  <2> HIDE DEF n
  <2> DEFINE y == IF reversed THEN n + 1 - i ELSE i
  <2>1. y \in Nat /\ y > 0 /\ Page(i) = 2 * y - par
    BY <1>2
  <2> HIDE DEF y
  <2>2. (2 * y) % 2 = 0 /\ (2 * y - 1) % 2 = 1 /\ 2 * y - 0 = 2 * y
    BY <2>1
  <2> HIDE DEF Page
  <2>3. CASE par = 0
    BY <1>1, <2>1, <2>2, <2>3
  <2>4. CASE par = 1
    BY <1>1, <2>1, <2>2, <2>4
  <2> QED  BY <1>1, <2>3, <2>4
<1>5. \A k \in 1 .. Len(d) : (k % 2 = 0) = even => \E i \in 1 .. n : k = Page(i)
  <2> TAKE k \in 1 .. Len(d)
  <2> HAVE (k % 2 = 0) = even
  <2>1. PICK y \in 1 .. n : k = 2 * y - par
    <3>1. (k + par) \div 2 \in 1 .. n /\ k = 2 * ((k + par) \div 2) - par
      BY <1>1
    <3> QED  BY <3>1
  <2> DEFINE i == IF reversed THEN n + 1 - y ELSE y
  <2> HIDE DEF n
  <2>2. i \in 1 .. n /\ Page(i) = k
    BY <1>1, <1>2, <2>1
  <2> QED  BY <2>2
<1> HIDE DEF Page, n
<1>6. \A i \in S : i \in 1 .. n /\ Page(i) \in T
  BY <1>2, <1>4 DEF Occurrences
<1>7. \A k \in T : \E i \in S : k = Page(i)
  <2> TAKE k \in T
  <2>1. k \in 1 .. Len(d) /\ (k % 2 = 0) = even /\ d[k] = v
    BY DEF Occurrences
  <2>2. PICK i \in 1 .. n : k = Page(i)
    BY <1>5, <2>1
  <2> QED  BY <1>2, <2>1, <2>2 DEF Occurrences
<1>8. IsFiniteSet(S)
  BY <1>2, TimesType
<1> HIDE DEF S, T
<1>9. f \in [S -> T] /\ \A x, y \in S : f[x] = f[y] => x = y
  BY <1>3, <1>6
<1>10. \A z \in T : \E x \in S : f[x] = z
  BY <1>7
<1> HIDE DEF f
<1>11. Cardinality(T) = Cardinality(S)
  BY <1>8, <1>9, <1>10, Paired
<1> QED  BY <1>11 DEF Times, S, T, p, d

\* The two passes together have the pages of the file.
LEMMA TimesPasses ==
    ASSUME JobOK, NEW v, v # Blank, NEW s, IsList(s)
    PROVE  /\ Times(v, FirstPages(s)) \in Nat /\ Times(v, SecondPages(s)) \in Nat
           /\ Times(v, FirstPages(s)) + Times(v, SecondPages(s)) = Times(v, s)
<1> DEFINE d == Padded(s)
           O == Occurrences(v, d)
           odd == job.firstPassOdd
           S == {k \in O : (k % 2 = 0) = (~odd)}
           T == {k \in O : (k % 2 = 0) = odd}
<1>1. /\ odd \in BOOLEAN /\ (~odd) \in BOOLEAN
      /\ job.reverseFirst \in BOOLEAN /\ job.reverseSecond \in BOOLEAN
  BY DEF JobOK
<1>2. Times(v, FirstPages(s)) = Cardinality(S) /\ Times(v, SecondPages(s)) = Cardinality(T)
  <2>1. \A even, reversed \in BOOLEAN :
            Times(v, Pass(s, even, reversed)) = Cardinality({k \in O : (k % 2 = 0) = even})
    BY TimesPass
  <2> HIDE DEF O
  <2>2. Times(v, Pass(s, ~odd, job.reverseFirst)) = Cardinality(S)
    BY <1>1, <2>1, Zenon
  <2>3. Times(v, Pass(s, odd, job.reverseSecond)) = Cardinality(T)
    BY <1>1, <2>1, Zenon
  <2> HIDE DEF S, T
  <2> QED  BY <2>2, <2>3 DEF FirstPages, SecondPages
<1>3. IsFiniteSet(O) /\ Times(v, s) = Cardinality(O)
  <2>1. IsList(d)
    BY PaddedList
  <2>2. Times(v, d) = Times(v, s)
    BY TimesPadded
  <2> QED  BY <2>1, <2>2, TimesType DEF Times
<1> HIDE DEF O
<1>4. /\ IsFiniteSet(S) /\ IsFiniteSet(T)
      /\ Cardinality(S) \in Nat /\ Cardinality(T) \in Nat
  <2>1. S \in SUBSET O /\ T \in SUBSET O
    OBVIOUS
  <2> QED  BY <1>3, <2>1, FS_Subset, FS_CardinalityType
<1>5. S \cup T = O /\ S \cap T = {}
  BY <1>1
<1>6. Cardinality(S \cup T) = Cardinality(S) + Cardinality(T) - Cardinality(S \cap T)
  BY <1>4, FS_Union
<1>7. Cardinality(S \cap T) = 0
  BY <1>5, FS_EmptySet
<1>8. Cardinality(O) = Cardinality(S) + Cardinality(T)
  <2>1. \A x, y, z \in Nat : z = 0 => x + y - z = x + y
    OBVIOUS
  <2>2. Cardinality(O) = Cardinality(S) + Cardinality(T) - Cardinality(S \cap T)
    <3> HIDE DEF S, T
    <3> QED  BY <1>5, <1>6
  <2> HIDE DEF S, T
  <2> QED  BY <1>4, <1>7, <2>1, <2>2
<1> HIDE DEF S, T
<1> QED  BY <1>2, <1>3, <1>4, <1>8

----------------------------------------------------------------------------
(* NothingLost. *)

\* One side of the pile shows a page as often as what was printed on it has it.
LEMMA ShowingSide ==
    ASSUME IsList(pile), NEW s, IsList(s), Len(s) <= Len(pile), NEW side \in {1, 2},
           \A i \in 1 .. Len(pile) : pile[i][side] = On(s, i), NEW v, v # Blank
    PROVE  LET shown == {at \in Showing(v) : at[2] = side} IN
           IsFiniteSet(shown) /\ Cardinality(shown) = Times(v, s)
<1> DEFINE S == Occurrences(v, s)
           T == {at \in Showing(v) : at[2] = side}
           f == [i \in S |-> <<i, side>>]
<1>1. Len(pile) \in Nat /\ DOMAIN pile = 1 .. Len(pile) /\ Len(s) \in Nat
  BY DEF IsList
<1>2. \A i \in S : i \in 1 .. Len(pile) /\ pile[i][side] = v
  BY <1>1 DEF Occurrences, On
<1>3. \A i \in S : <<i, side>> \in T
  BY <1>1, <1>2 DEF Showing
<1>4. \A at \in T : at[1] \in S /\ at = <<at[1], side>>
  <2> TAKE at \in T
  <2>1. at[1] \in 1 .. Len(pile) /\ at = <<at[1], side>> /\ pile[at[1]][side] = v
    BY <1>1 DEF Showing
  <2>2. On(s, at[1]) = v
    BY <2>1
  <2>3. at[1] <= Len(s)
    BY <2>2 DEF On
  <2> QED  BY <1>1, <2>1, <2>2, <2>3 DEF On, Occurrences
<1>5. IsFiniteSet(S)
  BY TimesType
<1> HIDE DEF S, T
<1>6. f \in [S -> T] /\ \A x, y \in S : f[x] = f[y] => x = y
  BY <1>3
<1>7. \A z \in T : \E x \in S : f[x] = z
  BY <1>4
<1> HIDE DEF f
<1>8. IsFiniteSet(T) /\ Cardinality(T) = Cardinality(S)
  BY <1>5, <1>6, <1>7, Paired
<1> QED  BY <1>8 DEF Times, S, T

\* Both sides of the pile.
LEMMA ShowingSides ==
    ASSUME IsList(pile), NEW s, IsList(s), NEW u, IsList(u),
           Len(s) <= Len(pile), Len(u) <= Len(pile),
           NEW a \in {1, 2}, NEW b \in {1, 2}, a # b,
           \A i \in 1 .. Len(pile) : pile[i][a] = On(s, i) /\ pile[i][b] = On(u, i),
           NEW v, v # Blank
    PROVE  Cardinality(Showing(v)) = Times(v, s) + Times(v, u)
<1> DEFINE S == {at \in Showing(v) : at[2] = a}
           T == {at \in Showing(v) : at[2] = b}
<1>1. IsFiniteSet(S) /\ Cardinality(S) = Times(v, s)
  BY ShowingSide
<1>2. IsFiniteSet(T) /\ Cardinality(T) = Times(v, u)
  BY ShowingSide
<1>3. S \cup T = Showing(v) /\ S \cap T = {}
  BY DEF Showing
<1>4. Times(v, s) \in Nat /\ Times(v, u) \in Nat
  BY TimesType
<1> HIDE DEF S, T
<1>5. Cardinality(Showing(v)) = Cardinality(S) + Cardinality(T) - Cardinality(S \cap T)
  BY <1>1, <1>2, <1>3, FS_Union
<1>6. Cardinality(S \cap T) = 0
  BY <1>3, FS_EmptySet
<1> QED  BY <1>1, <1>2, <1>4, <1>5, <1>6

\* A file on one side of its sheets.
LEMMA ShowingOneSided ==
    ASSUME NEW f, IsList(f), pile = OneSided(f), NEW v, v # Blank
    PROVE  Cardinality(Showing(v)) = Times(v, f)
<1> DEFINE none == << >>
<1>1. Len(f) \in Nat /\ DOMAIN f = 1 .. Len(f)
  BY DEF IsList
<1>2. /\ pile = [i \in 1 .. Len(f) |-> pile[i]]
      /\ \A i \in 1 .. Len(f) : pile[i] = <<f[i], Blank>>
  BY <1>1 DEF OneSided
<1>3. IsList(pile) /\ Len(pile) = Len(f)
  BY <1>1, <1>2, Constructed
<1>4. IsList(none) /\ Len(none) = 0
  BY DEF IsList
<1>5. Times(v, none) = 0
  <2>1. Occurrences(v, none) = {}
    BY <1>4 DEF Occurrences
  <2> QED  BY <2>1, FS_EmptySet DEF Times
<1> HIDE DEF none
<1>6. \A i \in 1 .. Len(pile) : pile[i][1] = On(f, i) /\ pile[i][2] = On(none, i)
  BY <1>1, <1>2, <1>3, <1>4 DEF On
<1>7. Cardinality(Showing(v)) = Times(v, f) + Times(v, none)
  BY <1>1, <1>3, <1>4, <1>6, ShowingSides
<1> QED  BY <1>5, <1>7, TimesType

\* A file on both sides, page after page.
LEMMA ShowingTwoSided ==
    ASSUME NEW f, IsList(f), pile = TwoSided(f), NEW v, v # Blank
    PROVE  Cardinality(Showing(v)) = Times(v, f)
<1> DEFINE S == Occurrences(v, f)
           T == Showing(v)
           h == (Len(f) + 1) \div 2
           At(k) == <<(k + 1) \div 2, IF k % 2 = 1 THEN 1 ELSE 2>>
           g == [k \in S |-> At(k)]
<1>1. /\ IsList(pile) /\ Len(pile) = h /\ h \in Nat
      /\ \A i \in 1 .. h :
            /\ 2 * i - 1 \in 1 .. Len(f)
            /\ pile[i] = <<f[2 * i - 1], IF 2 * i <= Len(f) THEN f[2 * i] ELSE Blank>>
  BY TwoSidedList
<1>2. DOMAIN pile = 1 .. h /\ Len(f) \in Nat
  BY <1>1 DEF IsList
<1>3. ASSUME NEW k \in 1 .. Len(f)
      PROVE  /\ At(k) \in (1 .. h) \X {1, 2} /\ pile[At(k)[1]][At(k)[2]] = f[k]
             /\ k = IF At(k)[2] = 1 THEN 2 * At(k)[1] - 1 ELSE 2 * At(k)[1]
  <2>1. PICK i \in 1 .. h : (k % 2 = 1 /\ k = 2 * i - 1) \/ (k % 2 # 1 /\ k = 2 * i)
    <3>1. /\ (k + 1) \div 2 \in 1 .. h
          /\ k % 2 = 1 => k = 2 * ((k + 1) \div 2) - 1
          /\ k % 2 # 1 => k = 2 * ((k + 1) \div 2)
      BY <1>2
    <3> QED  BY <3>1
  <2>2. (k + 1) \div 2 = i
    BY <1>1, <2>1
  <2>3. CASE k % 2 = 1
    <3>1. At(k) = <<i, 1>> /\ k = 2 * i - 1
      BY <2>1, <2>2, <2>3
    <3> HIDE DEF At, h
    <3> QED  BY <1>1, <3>1
  <2>4. CASE k % 2 # 1
    <3>1. At(k) = <<i, 2>> /\ k = 2 * i
      BY <2>1, <2>2, <2>4
    <3> HIDE DEF At, h
    <3> QED  BY <1>1, <3>1
  <2> QED  BY <2>3, <2>4
<1>4. ASSUME NEW at \in T
      PROVE  \E k \in S : At(k) = at
  <2>1. PICK i \in 1 .. h, x \in {1, 2} : at = <<i, x>> /\ pile[i][x] = v
    BY <1>2 DEF Showing
  <2>2. CASE x = 1
    <3>1. 2 * i - 1 \in 1 .. Len(f) /\ f[2 * i - 1] = v
      BY <1>1, <2>1, <2>2
    <3>2. (2 * i - 1 + 1) \div 2 = i /\ (2 * i - 1) % 2 = 1
      BY <1>1
    <3>3. At(2 * i - 1) = at
      BY <2>1, <2>2, <3>2
    <3> HIDE DEF At
    <3> QED  BY <3>1, <3>3 DEF Occurrences
  <2>3. CASE x = 2
    <3>1. 2 * i <= Len(f) /\ f[2 * i] = v
      BY <1>1, <2>1, <2>3
    <3>2. (2 * i + 1) \div 2 = i /\ (2 * i) % 2 = 0 /\ 2 * i \in 1 .. Len(f)
      BY <1>1, <1>2, <3>1
    <3>3. At(2 * i) = at
      BY <2>1, <2>3, <3>2
    <3> HIDE DEF At
    <3> QED  BY <3>1, <3>2, <3>3 DEF Occurrences
  <2> QED  BY <2>2, <2>3
<1> HIDE DEF At, h
<1>5. \A k \in S : k \in 1 .. Len(f) /\ At(k) \in T
  BY <1>2, <1>3 DEF Occurrences, Showing
<1>6. IsFiniteSet(S)
  BY TimesType
<1>7. \A k, l \in S : At(k) = At(l) => k = l
  BY <1>3, <1>5
<1> HIDE DEF S, T
<1>8. g \in [S -> T] /\ \A x, y \in S : g[x] = g[y] => x = y
  BY <1>5, <1>7
<1>9. \A z \in T : \E x \in S : g[x] = z
  BY <1>4
<1> HIDE DEF g
<1>10. Cardinality(T) = Cardinality(S)
  BY <1>6, <1>8, <1>9, Paired
<1> QED  BY <1>10 DEF Times, S, T

\* Two passes on the two sides.
LEMMA ShowingTwoPasses ==
    ASSUME JobOK, NEW f, IsList(f), NEW g, IsList(g), pile = TwoPasses(f, g), NEW v, v # Blank
    PROVE  Cardinality(Showing(v)) = Times(v, f) + Times(v, g)
<1> DEFINE fed == job.feed = "reverseOrder"
           old == Ordered(f, fed)
           a == IF job.firstPassOdd THEN 1 ELSE 2
           b == IF job.firstPassOdd THEN 2 ELSE 1
<1>1. /\ IsList(pile) /\ IsList(old) /\ Len(old) = Len(f)
      /\ Len(pile) = IF Len(f) > Len(g) THEN Len(f) ELSE Len(g)
      /\ \A i \in 1 .. Len(pile) : pile[i] = Sheet(On(old, i), On(g, i))
  BY TwoPassesList
<1>2. Times(v, old) = Times(v, f)
  <2>1. fed \in BOOLEAN
    OBVIOUS
  <2> HIDE DEF fed
  <2> QED  BY <2>1, TimesOrdered
<1>3. Len(old) <= Len(pile) /\ Len(g) <= Len(pile)
  <2>1. Len(f) \in Nat /\ Len(g) \in Nat
    BY DEF IsList
  <2> HIDE DEF old
  <2> QED  BY <1>1, <2>1
<1> HIDE DEF old
<1>4. \A i \in 1 .. Len(pile) : pile[i][a] = On(old, i) /\ pile[i][b] = On(g, i)
  <2> TAKE i \in 1 .. Len(pile)
  <2>1. pile[i] = Sheet(On(old, i), On(g, i))
    BY <1>1
  <2>2. CASE job.firstPassOdd
    BY <2>1, <2>2 DEF Sheet
  <2>3. CASE ~job.firstPassOdd
    BY <2>1, <2>3 DEF Sheet
  <2> QED  BY <2>2, <2>3
<1>5. a \in {1, 2} /\ b \in {1, 2} /\ a # b
  OBVIOUS
<1> HIDE DEF a, b
<1>6. Cardinality(Showing(v)) = Times(v, old) + Times(v, g)
  BY <1>1, <1>3, <1>4, <1>5, ShowingSides
<1> QED  BY <1>2, <1>6

\* As often as there are copies.
LEMMA CountFollows ==
    ASSUME SheetsInv
    PROVE  NothingLost
<1> SUFFICES ASSUME step = "done", NEW v \in Range(Document)
             PROVE  Cardinality(Showing(v)) = job.copies
  BY DEF NothingLost
<1> DEFINE D == Document
           C == job.copies
<1>1. JobOK /\ IsList(D) /\ v # Blank /\ Times(v, D) = 1
  BY DocumentList, TimesDocument DEF SheetsInv
<1>2. C \in Nat /\ IsList(Copied(D)) /\ Times(v, Copied(D)) = C
  BY <1>1, CopiedList, TimesCopied
<1>3. /\ job.reverse \in BOOLEAN /\ job.duplex \in {"off", "auto", "manual"}
      /\ (~job.firstPassOdd) \in BOOLEAN /\ job.firstPassOdd \in BOOLEAN
      /\ job.reverseFirst \in BOOLEAN /\ job.reverseSecond \in BOOLEAN
  BY <1>1 DEF JobOK
<1> HIDE DEF C
<1>4. IsList(OneJob) /\ Times(v, OneJob) = C
  <2>1. CASE Bot
    BY <1>2, <1>3, <2>1, OrderedList, TimesOrdered DEF OneJob
  <2>2. CASE ~Bot
    <3>1. IsList(Ordered(D, job.reverse)) /\ Times(v, Ordered(D, job.reverse)) = 1
      BY <1>1, <1>3, OrderedList, TimesOrdered
    <3>2. /\ IsList(Copied(Ordered(D, job.reverse)))
          /\ Times(v, Copied(Ordered(D, job.reverse))) = C
      BY <1>1, <1>2, <3>1, CopiedList, TimesCopied DEF C
    <3> QED  BY <2>2, <3>2 DEF OneJob
  <2> QED  BY <2>1, <2>2
<1>5. /\ IsList(FirstPass) /\ IsList(SecondPass)
      /\ Times(v, FirstPass) + Times(v, SecondPass) = C
  <2>1. ASSUME NEW s, IsList(s)
        PROVE  IsList(FirstPages(s)) /\ IsList(SecondPages(s))
    BY <1>1, <1>3, <2>1, PassList DEF FirstPages, SecondPages
  <2>2. CASE Bot
    <3>1. Times(v, FirstPages(Copied(D))) + Times(v, SecondPages(Copied(D))) = C
      BY <1>1, <1>2, TimesPasses
    <3> QED  BY <1>2, <2>1, <2>2, <3>1 DEF FirstPass, SecondPass
  <2>3. CASE ~Bot
    <3> DEFINE f == FirstPages(D)
               g == SecondPages(D)
    <3>1. /\ IsList(f) /\ IsList(g) /\ Times(v, f) \in Nat /\ Times(v, g) \in Nat
          /\ Times(v, f) + Times(v, g) = 1
      BY <1>1, <2>1, TimesPasses
    <3> HIDE DEF f, g
    <3>2. /\ IsList(Copied(f)) /\ IsList(Copied(g))
          /\ Times(v, Copied(f)) = Times(v, f) * C /\ Times(v, Copied(g)) = Times(v, g) * C
      BY <1>1, <3>1, CopiedList, TimesCopied DEF C
    <3>3. Times(v, f) * C + Times(v, g) * C = C
      <4>1. (Times(v, f) = 0 /\ Times(v, g) = 1) \/ (Times(v, f) = 1 /\ Times(v, g) = 0)
        BY <3>1
      <4> QED  BY <1>2, <4>1
    <3> QED  BY <2>3, <3>2, <3>3 DEF FirstPass, SecondPass, f, g
  <2> QED  BY <2>2, <2>3
<1>6. CASE job.duplex = "off"
  <2>1. pile = OneSided(OneJob)
    BY <1>6 DEF SheetsInv, PileFollows
  <2> QED  BY <1>1, <1>4, <2>1, ShowingOneSided DEF C
<1>7. CASE job.duplex = "auto"
  <2>1. pile = TwoSided(OneJob)
    BY <1>7 DEF SheetsInv, PileFollows
  <2> QED  BY <1>1, <1>4, <2>1, ShowingTwoSided DEF C
<1>8. CASE job.duplex = "manual"
  <2>1. pile = TwoPasses(FirstPass, SecondPass)
    BY <1>8 DEF SheetsInv, PileFollows
  <2> QED  BY <1>1, <1>5, <2>1, ShowingTwoPasses DEF C
<1> QED  BY <1>3, <1>6, <1>7, <1>8

\* Suited or not, padded or not, every page of the document is on as many sheets as
\* copies were asked for: pageSelectors with 1 and with 2 leave out none and repeat
\* none, for any number of pages.
THEOREM NothingIsLost == Spec => []NothingLost
<1> QED  BY Invariance, CountFollows, PTL

=============================================================================
