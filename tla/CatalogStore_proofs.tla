------------------------ MODULE CatalogStore_proofs ------------------------
(***************************************************************************)
(* Proofs about CatalogStore: its types, that what is written is read back *)
(* unchanged, and that it implements AtomicCatalog, for any writers,       *)
(* identifiers, texts and number of crashes.  Most of it is about the      *)
(* data: sorting, encoding and decoding, and what one mutation changes.    *)
(***************************************************************************)
EXTENDS CatalogStore, FunctionTheorems, FiniteSetTheorems,
        SequenceTheorems, TLAPS

-----------------------------------------------------------------------------
(* Sorting                                                                 *)

\* The positions before one are those of the same or a smaller identifier.
Rank(ids, i) == Cardinality({k \in DOMAIN ids : ids[k] <= ids[i]})

LEMMA RankBound ==
    ASSUME NEW n \in Nat, NEW ids \in [1 .. n -> Nat], NEW i \in 1 .. n
    PROVE  Rank(ids, i) \in 1 .. n
<1> DEFINE below == {k \in DOMAIN ids : ids[k] <= ids[i]}
<1>1. below \in SUBSET (1 .. n) /\ i \in below
  OBVIOUS
<1>2. IsFiniteSet(1 .. n) /\ Cardinality(1 .. n) = n
  BY FS_Interval
<1> HIDE DEF below
<1>3. IsFiniteSet(below) /\ Cardinality(below) <= Cardinality(1 .. n)
  BY <1>1, <1>2, FS_Subset
<1>4. Cardinality(below) \in Nat
  BY <1>3, FS_CardinalityType
<1>5. Cardinality(below) # 0
  BY <1>1, <1>3, FS_EmptySet
<1>6. Rank(ids, i) = Cardinality(below)
  BY DEF Rank, below
<1> QED
  BY <1>2, <1>3, <1>4, <1>5, <1>6 DEF Rank, below

LEMMA RankGrows ==
    ASSUME NEW n \in Nat, NEW ids \in [1 .. n -> Nat],
           NEW i \in 1 .. n, NEW k \in 1 .. n, ids[i] < ids[k]
    PROVE  Rank(ids, i) < Rank(ids, k)
<1> DEFINE lower == {j \in DOMAIN ids : ids[j] <= ids[i]}
           upper == {j \in DOMAIN ids : ids[j] <= ids[k]}
<1>1. lower \in SUBSET upper /\ k \in upper /\ k \notin lower
  OBVIOUS
<1>2. upper \in SUBSET (1 .. n)
  OBVIOUS
<1>3. IsFiniteSet(1 .. n)
  BY FS_Interval
<1> HIDE DEF lower, upper
<1>4. IsFiniteSet(upper)
  BY <1>2, <1>3, FS_Subset
<1>5. IsFiniteSet(lower) /\ Cardinality(lower) <= Cardinality(upper)
      /\ Cardinality(upper) # Cardinality(lower)
  BY <1>1, <1>4, FS_Subset
<1>6. Cardinality(lower) \in Nat /\ Cardinality(upper) \in Nat
  BY <1>4, <1>5, FS_CardinalityType
<1> QED
  BY <1>5, <1>6 DEF Rank, lower, upper

\* Distinct numbers can be put in order.
LEMMA OrderExists ==
    ASSUME NEW n \in Nat, NEW ids \in [1 .. n -> Nat],
           \A i, k \in 1 .. n : ids[i] = ids[k] => i = k
    PROVE  \E p \in Bijection(1 .. n, 1 .. n) :
             \A i, k \in 1 .. n : i < k => ~ (ids[p[k]] < ids[p[i]])
<1> DEFINE rank == [i \in 1 .. n |-> Rank(ids, i)]
           p == Inverse(rank, 1 .. n, 1 .. n)
<1>1. rank \in [1 .. n -> 1 .. n]
  BY RankBound
<1>2. ASSUME NEW i \in 1 .. n, NEW k \in 1 .. n, ids[i] < ids[k]
      PROVE  rank[i] < rank[k]
  BY <1>2, RankGrows
<1>3. \A i, k \in 1 .. n : ids[i] < ids[k] => rank[i] < rank[k]
  BY <1>2
<1> HIDE DEF rank
<1>4. ASSUME NEW i \in 1 .. n, NEW k \in 1 .. n, rank[i] = rank[k]
      PROVE  i = k
  <2>1. rank[i] \in Int /\ ~ (rank[i] < rank[k]) /\ ~ (rank[k] < rank[i])
    BY <1>1, <1>4
  <2>2. ids[i] \in Int /\ ids[k] \in Int /\ ~ (ids[i] < ids[k]) /\ ~ (ids[k] < ids[i])
    BY <1>3, <2>1
  <2> QED
    BY <2>2
<1>5. rank \in Injection(1 .. n, 1 .. n)
  BY <1>1, <1>4, Fun_IsInj
<1>6. IsFiniteSet(1 .. n)
  BY FS_Interval
<1>7. rank \in Surjection(1 .. n, 1 .. n)
  BY <1>5, <1>6, FS_Injection
<1>8. rank \in Bijection(1 .. n, 1 .. n)
  BY <1>5, <1>7, Fun_IsBij
<1>9. /\ p \in Bijection(1 .. n, 1 .. n)
      /\ \A i \in 1 .. n : p[rank[i]] = i
  BY <1>8, Fun_BijInverse
<1> HIDE DEF p
<1>10. p \in [1 .. n -> 1 .. n]
  BY <1>9, Fun_BijectionProperties
<1>11. \A j \in 1 .. n : \E i \in 1 .. n : rank[i] = j
  BY <1>7 DEF Surjection
<1>12. \A j \in 1 .. n : rank[p[j]] = j
  BY <1>9, <1>11
<1>13. ASSUME NEW i \in 1 .. n, NEW k \in 1 .. n, i < k
       PROVE  ~ (ids[p[k]] < ids[p[i]])
  <2>1. p[i] \in 1 .. n /\ p[k] \in 1 .. n
    BY <1>10
  <2>2. rank[p[i]] = i /\ rank[p[k]] = k
    BY <1>12
  <2> QED
    BY <1>3, <1>13, <2>1, <2>2
<1> QED
  BY <1>9, <1>13

\* Of numbers that ascend there is only one order.
LEMMA OrderUnique ==
    ASSUME NEW n \in Nat, NEW p \in Bijection(1 .. n, 1 .. n),
           \A i, k \in 1 .. n : i < k => p[i] < p[k]
    PROVE  \A i \in 1 .. n : p[i] = i
<1> SUFFICES ASSUME NEW i \in 1 .. n
             PROVE  p[i] = i
  OBVIOUS
<1>1. p \in [1 .. n -> 1 .. n] /\ \A a, b \in 1 .. n : p[a] = p[b] => a = b
  BY DEF Bijection, Injection
<1> DEFINE low == [k \in 1 .. i |-> p[k]]
           high == [k \in i .. n |-> p[k]]
<1>2. ASSUME NEW k \in 1 .. i
      PROVE  k \in 1 .. n /\ p[k] \in 1 .. p[i]
  <2>1. k \in 1 .. n /\ (k = i \/ k < i)
    OBVIOUS
  <2>2. p[k] \in 1 .. n /\ p[i] \in 1 .. n /\ (p[k] = p[i] \/ p[k] < p[i])
    BY <1>1, <2>1
  <2> QED
    BY <2>1, <2>2
<1>3. ASSUME NEW k \in i .. n
      PROVE  k \in 1 .. n /\ p[k] \in p[i] .. n
  <2>1. k \in 1 .. n /\ (k = i \/ i < k)
    OBVIOUS
  <2>2. p[k] \in 1 .. n /\ p[i] \in 1 .. n /\ (p[k] = p[i] \/ p[i] < p[k])
    BY <1>1, <2>1
  <2> QED
    BY <2>1, <2>2
<1>4. low \in [1 .. i -> 1 .. p[i]] /\ \A a, b \in 1 .. i : low[a] = low[b] => a = b
  BY <1>1, <1>2
<1>5. high \in [i .. n -> p[i] .. n] /\ \A a, b \in i .. n : high[a] = high[b] => a = b
  BY <1>1, <1>3
<1> HIDE DEF low, high
<1>6. low \in Injection(1 .. i, 1 .. p[i]) /\ high \in Injection(i .. n, p[i] .. n)
  BY <1>4, <1>5, Fun_IsInj
<1>7. p[i] \in Int /\ i \in Int /\ n \in Int
  BY <1>1
<1>8. IsFiniteSet(1 .. p[i]) /\ IsFiniteSet(p[i] .. n)
  BY <1>7, FS_Interval
<1>9. Cardinality(1 .. i) <= Cardinality(1 .. p[i])
  BY <1>6, <1>8, FS_Injection
<1>10. Cardinality(i .. n) <= Cardinality(p[i] .. n)
  BY <1>6, <1>8, FS_Injection
<1>11. /\ Cardinality(1 .. i) = i /\ Cardinality(1 .. p[i]) = p[i]
       /\ Cardinality(i .. n) = n - i + 1 /\ Cardinality(p[i] .. n) = n - p[i] + 1
  BY <1>1, <1>7, FS_Interval
<1> QED
  BY <1>7, <1>9, <1>10, <1>11

-----------------------------------------------------------------------------
(* Entries and their sequences                                             *)

\* What Decoded accepts before it sorts: entries with distinct identifiers.
Distinct(entries) ==
    \A i, k \in DOMAIN entries : entries[i].id = entries[k].id => i = k

LEMMA IdsAreNumbers == \A e \in Entries : e.id \in Nat /\ e.id \in IDs /\ e # None
BY CatalogStoreAssumption DEF Entries

LEMMA ListLength ==
    ASSUME NEW n \in Nat, NEW e \in [1 .. n -> Entries], Distinct(e)
    PROVE  n \in 0 .. Cardinality(IDs)
<1> DEFINE ids == [i \in 1 .. n |-> e[i].id]
<1>1. ids \in [1 .. n -> IDs] /\ \A i, k \in 1 .. n : ids[i] = ids[k] => i = k
  BY IdsAreNumbers DEF Distinct
<1> HIDE DEF ids
<1>2. ids \in Injection(1 .. n, IDs)
  BY <1>1, Fun_IsInj
<1>3. IsFiniteSet(IDs)
  BY CatalogStoreAssumption
<1>4. Cardinality(1 .. n) <= Cardinality(IDs)
  BY <1>2, <1>3, FS_Injection
<1>5. Cardinality(1 .. n) = n
  BY FS_Interval
<1>6. Cardinality(IDs) \in Nat
  BY <1>3, FS_CardinalityType
<1> QED
  BY <1>4, <1>5, <1>6

LEMMA CatalogsAreLists ==
    ASSUME NEW e
    PROVE  e \in Catalogs <=>
             \E n \in Nat : e \in [1 .. n -> Entries] /\ Distinct(e)
                            /\ \A i, k \in 1 .. n : i < k => ByID(e[i], e[k])
<1>1. IsFiniteSet(IDs)
  BY CatalogStoreAssumption
<1>2. Cardinality(IDs) \in Nat
  BY <1>1, FS_CardinalityType
<1>3. ASSUME e \in Catalogs
      PROVE  \E n \in Nat : e \in [1 .. n -> Entries] /\ Distinct(e)
                            /\ \A i, k \in 1 .. n : i < k => ByID(e[i], e[k])
  <2>1. PICK n \in 0 .. Cardinality(IDs) :
          e \in [1 .. n -> Entries] /\ \A i, k \in 1 .. n : i < k => ByID(e[i], e[k])
    BY <1>3 DEF Catalogs
  <2>2. n \in Nat
    BY <1>2
  <2>3. \A i, k \in 1 .. n : e[i].id \in Nat /\ e[k].id \in Nat /\ (i < k => e[i].id < e[k].id)
    BY <2>1, IdsAreNumbers DEF ByID
  <2>4. Distinct(e)
    BY <2>1, <2>2, <2>3 DEF Distinct
  <2> QED
    BY <2>1, <2>2, <2>4
<1>4. ASSUME NEW n \in Nat, e \in [1 .. n -> Entries], Distinct(e),
             \A i, k \in 1 .. n : i < k => ByID(e[i], e[k])
      PROVE  e \in Catalogs
  <2>1. n \in 0 .. Cardinality(IDs)
    BY <1>4, ListLength
  <2> QED
    BY <1>4, <2>1 DEF Catalogs
<1> QED
  BY <1>3, <1>4

\* Sorting keeps the entries and puts them in order.
LEMMA SortedSorts ==
    ASSUME NEW n \in Nat, NEW e \in [1 .. n -> Entries], Distinct(e)
    PROVE  \E p \in Bijection(1 .. n, 1 .. n) :
             /\ Sorted(e) = [i \in 1 .. n |-> e[p[i]]]
             /\ \A i, k \in 1 .. n : i < k => ~ ByID(e[p[k]], e[p[i]])
<1> DEFINE ids == [i \in 1 .. n |-> e[i].id]
           Orders(p) == \A i, k \in 1 .. n : i < k => ~ ByID(e[p[k]], e[p[i]])
           order == CHOOSE p \in Bijection(1 .. n, 1 .. n) : Orders(p)
<1>1. ids \in [1 .. n -> Nat] /\ \A i, k \in 1 .. n : ids[i] = ids[k] => i = k
  BY IdsAreNumbers DEF Distinct
<1>2. \A i \in 1 .. n : ids[i] = e[i].id
  OBVIOUS
<1> HIDE DEF ids
<1>3. PICK p \in Bijection(1 .. n, 1 .. n) :
        \A i, k \in 1 .. n : i < k => ~ (ids[p[k]] < ids[p[i]])
  BY <1>1, OrderExists
<1>4. p \in [1 .. n -> 1 .. n]
  BY DEF Bijection, Injection
<1>5. Orders(p)
  BY <1>2, <1>3, <1>4 DEF ByID
<1> HIDE DEF Orders
<1>6. order \in Bijection(1 .. n, 1 .. n) /\ Orders(order)
  BY <1>5
<1>7. Sorted(e) = [i \in 1 .. n |-> e[order[i]]]
  <2>1. DOMAIN e = 1 .. n
    OBVIOUS
  <2> QED
    BY <2>1 DEF Sorted, Orders
<1> HIDE DEF order
<1> QED
  BY <1>6, <1>7 DEF Orders

LEMMA SortedIsCatalog ==
    ASSUME NEW n \in Nat, NEW e \in [1 .. n -> Entries], Distinct(e)
    PROVE  Sorted(e) \in Catalogs /\ Range(Sorted(e)) = Range(e)
<1> DEFINE s == Sorted(e)
<1>1. PICK p \in Bijection(1 .. n, 1 .. n) :
        /\ s = [i \in 1 .. n |-> e[p[i]]]
        /\ \A i, k \in 1 .. n : i < k => ~ ByID(e[p[k]], e[p[i]])
  BY SortedSorts
<1> HIDE DEF s
<1>2. /\ p \in [1 .. n -> 1 .. n]
      /\ \A i, k \in 1 .. n : p[i] = p[k] => i = k
      /\ \A k \in 1 .. n : \E i \in 1 .. n : p[i] = k
  BY DEF Bijection, Injection, Surjection, IsInjective
<1>3. s \in [1 .. n -> Entries] /\ \A i \in 1 .. n : s[i] = e[p[i]]
  BY <1>1, <1>2
<1>4. Distinct(s)
  <2>1. SUFFICES ASSUME NEW i \in 1 .. n, NEW k \in 1 .. n, s[i].id = s[k].id
                 PROVE  i = k
    BY <1>3 DEF Distinct
  <2>2. p[i] \in 1 .. n /\ p[k] \in 1 .. n /\ e[p[i]].id = e[p[k]].id
    BY <1>2, <1>3, <2>1
  <2>3. p[i] = p[k]
    BY <2>2 DEF Distinct
  <2> QED
    BY <1>2, <2>3
<1>5. ASSUME NEW i \in 1 .. n, NEW k \in 1 .. n, i < k
      PROVE  ByID(s[i], s[k])
  <2>1. s[i].id \in Nat /\ s[k].id \in Nat /\ s[i].id # s[k].id
    BY <1>3, <1>4, <1>5, IdsAreNumbers DEF Distinct
  <2>2. ~ (s[k].id < s[i].id)
    BY <1>1, <1>3, <1>5 DEF ByID
  <2> QED
    BY <2>1, <2>2 DEF ByID
<1>6. s \in Catalogs
  BY <1>3, <1>4, <1>5, CatalogsAreLists
<1>7. Range(s) = Range(e)
  BY <1>2, <1>3 DEF Range
<1> QED
  BY <1>6, <1>7 DEF s

\* A catalog is in order already.
LEMMA SortedAgain ==
    ASSUME NEW e \in Catalogs
    PROVE  Sorted(e) = e
<1>1. PICK n \in Nat : e \in [1 .. n -> Entries] /\ Distinct(e)
                       /\ \A i, k \in 1 .. n : i < k => ByID(e[i], e[k])
  BY CatalogsAreLists
<1>2. PICK p \in Bijection(1 .. n, 1 .. n) :
        /\ Sorted(e) = [i \in 1 .. n |-> e[p[i]]]
        /\ \A i, k \in 1 .. n : i < k => ~ ByID(e[p[k]], e[p[i]])
  BY <1>1, SortedSorts
<1>3. p \in [1 .. n -> 1 .. n] /\ \A i, k \in 1 .. n : p[i] = p[k] => i = k
  BY DEF Bijection, Injection, IsInjective
<1>4. ASSUME NEW i \in 1 .. n, NEW k \in 1 .. n, i < k
      PROVE  p[i] < p[k]
  <2>1. p[i] \in 1 .. n /\ p[k] \in 1 .. n /\ p[i] # p[k]
    BY <1>3, <1>4
  <2>2. ~ (p[k] < p[i])
    BY <1>1, <1>2, <1>4, <2>1
  <2> QED
    BY <2>1, <2>2
<1>5. \A i \in 1 .. n : p[i] = i
  BY <1>4, OrderUnique
<1> QED
  BY <1>1, <1>2, <1>5

-----------------------------------------------------------------------------
(* What is written is read back                                            *)

LEMMA ObjectReads ==
    ASSUME NEW e \in Entries
    PROVE  EntryOf(ObjectOf(e)) = e
<1> DEFINE object == [id |-> e.id, display_name |-> e.name,
                      canonical_url |-> e.url, note |-> e.note]
           fields == {"id", "display_name", "canonical_url", "note"}
                     \ (IF e.note = None THEN {"note"} ELSE {})
           o == ObjectOf(e)
<1>1. /\ e.id \in IDs /\ e.name \in Names /\ e.url \in URLs /\ e.note \in Notes \cup {None}
      /\ e = [id |-> e.id, name |-> e.name, url |-> e.url, note |-> e.note]
  BY DEF Entries
<1>2. o = [f \in fields |-> object[f]]
  BY DEF ObjectOf
<1>3. DOMAIN o = fields
  BY <1>2
<1>4. o.id = e.id /\ o.display_name = e.name /\ o.canonical_url = e.url
  BY <1>2
<1>5. e.note # None => o.note = e.note
  BY <1>2
<1> HIDE DEF o
<1>6. NoteOf(o) = e.note
  BY <1>3, <1>5 DEF NoteOf
<1>7. Has(o, {"id", "display_name", "canonical_url"})
  BY <1>1, <1>3, <1>4, CatalogStoreAssumption DEF Has
<1>8. EntryOf(o) = [id |-> e.id, name |-> e.name, url |-> e.url, note |-> e.note]
  BY <1>4, <1>6, <1>7 DEF EntryOf
<1> QED
  BY <1>1, <1>8 DEF o

LEMMA WrittenIsRead ==
    ASSUME NEW m \in Catalogs
    PROVE  /\ Encoded(m) \in Files
           /\ Decoded(Encoded(m)) = m
<1>1. PICK n \in Nat : m \in [1 .. n -> Entries] /\ Distinct(m)
  BY CatalogsAreLists
<1>2. Encoded(m) \in Files /\ Encoded(m) # Torn
  BY CatalogStoreAssumption DEF Files
<1>3. [i \in DOMAIN Encoded(m) |-> EntryOf(Encoded(m)[i])] = m
  BY <1>1, ObjectReads DEF Encoded
<1>4. None \notin {m[i] : i \in DOMAIN m}
  BY <1>1, IdsAreNumbers
<1>5. ~ \E i, k \in DOMAIN m : i < k /\ m[i].id = m[k].id
  BY <1>1 DEF Distinct
<1>6. Decoded(Encoded(m)) = Sorted(m)
  BY <1>2, <1>3, <1>4, <1>5 DEF Decoded
<1> QED
  BY <1>2, <1>6, SortedAgain

LEMMA FilesAreCatalogs ==
    ASSUME NEW f \in Files
    PROVE  Decoded(f) \in Catalogs /\ f = Encoded(Decoded(f)) /\ Decoded(f) # Torn
<1>1. PICK m \in Catalogs : f = Encoded(m)
  BY DEF Files
<1> QED
  BY <1>1, WrittenIsRead, CatalogStoreAssumption

-----------------------------------------------------------------------------
(* What readers see of a list                                              *)

Found(e, j) ==
    IF \E i \in DOMAIN e : e[i].id = j THEN e[CHOOSE i \in DOMAIN e : e[i].id = j] ELSE None

LEMMA FoundIs ==
    ASSUME NEW n \in Nat, NEW e \in [1 .. n -> Entries], Distinct(e)
    PROVE  /\ \A x \in Range(e) : Found(e, x.id) = x
           /\ \A j : (\A x \in Range(e) : x.id # j) => Found(e, j) = None
           /\ \A j : Found(e, j) \in Entries \cup {None}
<1>1. ASSUME NEW x \in Range(e)
      PROVE  Found(e, x.id) = x
  <2>1. PICK i \in 1 .. n : e[i] = x
    BY DEF Range
  <2> DEFINE k == CHOOSE k \in DOMAIN e : e[k].id = x.id
  <2>2. k \in DOMAIN e /\ e[k].id = x.id
    BY <2>1
  <2> HIDE DEF k
  <2>3. k = i
    BY <2>1, <2>2 DEF Distinct
  <2>4. Found(e, x.id) = e[k]
    BY <2>1 DEF Found, k
  <2> QED
    BY <2>1, <2>3, <2>4
<1>2. ASSUME NEW j, \A x \in Range(e) : x.id # j
      PROVE  Found(e, j) = None
  <2>1. \A i \in DOMAIN e : e[i].id # j
    BY <1>2 DEF Range
  <2> QED
    BY <2>1 DEF Found
<1>3. ASSUME NEW j
      PROVE  Found(e, j) \in Entries \cup {None}
  <2>1. CASE \E x \in Range(e) : x.id = j
    BY <1>1, <2>1 DEF Range
  <2>2. CASE ~ \E x \in Range(e) : x.id = j
    BY <1>2, <2>2
  <2> QED
    BY <2>1, <2>2
<1> QED
  BY <1>1, <1>2, <1>3

LEMMA ShownIsFound ==
    ASSUME NEW m \in Catalogs
    PROVE  Shown(Encoded(m)) = [j \in IDs |-> Found(m, j)]
<1>1. Decoded(Encoded(m)) = m /\ m # Torn
  BY WrittenIsRead, CatalogStoreAssumption
<1> QED
  BY <1>1 DEF Shown, Found

\* Two catalogs of which one is the other with one entry added, edited or removed.
Differ(a, b) ==
    \E j \in IDs : (a[j] # None \/ b[j] # None) /\ \A l \in IDs \ {j} : a[l] = b[l]

LEMMA DifferInOne ==
    ASSUME NEW m \in Catalogs, NEW c \in Catalogs, NEW j \in IDs,
           \E x \in Range(m) \cup Range(c) : x.id = j,
           \A x \in Entries : x.id # j => (x \in Range(m) <=> x \in Range(c))
    PROVE  Differ(Shown(Encoded(m)), Shown(Encoded(c)))
<1>1. PICK n \in Nat : m \in [1 .. n -> Entries] /\ Distinct(m)
  BY CatalogsAreLists
<1>2. PICK k \in Nat : c \in [1 .. k -> Entries] /\ Distinct(c)
  BY CatalogsAreLists
<1>3. Range(m) \subseteq Entries /\ Range(c) \subseteq Entries
  BY <1>1, <1>2 DEF Range
<1>4. Found(m, j) # None \/ Found(c, j) # None
  <2>1. PICK x \in Range(m) \cup Range(c) : x.id = j
    OBVIOUS
  <2>2. x # None
    BY <1>3, IdsAreNumbers
  <2>3. Found(m, j) = x \/ Found(c, j) = x
    BY <1>1, <1>2, <2>1, FoundIs
  <2> QED
    BY <2>2, <2>3
<1>5. ASSUME NEW l \in IDs, l # j
      PROVE  Found(m, l) = Found(c, l)
  <2>1. CASE \E x \in Range(m) : x.id = l
    <3>1. PICK x \in Range(m) : x.id = l
      BY <2>1
    <3>2. x \in Range(c)
      BY <1>3, <1>5, <3>1
    <3> QED
      BY <1>1, <1>2, <3>1, <3>2, FoundIs
  <2>2. CASE ~ \E x \in Range(m) : x.id = l
    <3>1. ~ \E x \in Range(c) : x.id = l
      BY <1>3, <1>5, <2>2
    <3> QED
      BY <1>1, <1>2, <2>2, <3>1, FoundIs
  <2> QED
    BY <2>1, <2>2
<1> QED
  BY <1>4, <1>5, ShownIsFound DEF Differ

-----------------------------------------------------------------------------
(* Requests                                                                *)

LEMMA ObjectFields ==
    ASSUME NEW o \in Objects
    PROVE  /\ "id" \in DOMAIN o => o.id \in IDs \cup {Bad}
           /\ "display_name" \in DOMAIN o => o.display_name \in Names \cup {Bad}
           /\ "canonical_url" \in DOMAIN o => o.canonical_url \in URLs \cup {Bad}
           /\ "note" \in DOMAIN o => o.note \in Notes
<1> DEFINE all == {"id", "display_name", "canonical_url", "note"}
           named == UNION {{[f \in fields |-> object[f]] : object \in WellFormed} :
                             fields \in SUBSET all}
           Typed(x) == /\ "id" \in DOMAIN x => x.id \in IDs \cup {Bad}
                       /\ "display_name" \in DOMAIN x => x.display_name \in Names \cup {Bad}
                       /\ "canonical_url" \in DOMAIN x => x.canonical_url \in URLs \cup {Bad}
                       /\ "note" \in DOMAIN x => x.note \in Notes
<1>1. ASSUME NEW x \in named
      PROVE  Typed(x) /\ DOMAIN x \subseteq all /\ x = [f \in DOMAIN x |-> x[f]]
  <2>1. PICK fields \in SUBSET all, object \in WellFormed : x = [f \in fields |-> object[f]]
    OBVIOUS
  <2>2. /\ object.id \in IDs /\ object.display_name \in Names
        /\ object.canonical_url \in URLs /\ object.note \in Notes
    BY DEF WellFormed
  <2>3. Typed(x)
    BY <2>1, <2>2
  <2>4. DOMAIN x = fields
    BY <2>1
  <2> QED
    BY <2>1, <2>3, <2>4
<1>2. ASSUME NEW x \in named, NEW f \in DOMAIN x \ {"note"}, o = [x EXCEPT ![f] = Bad]
      PROVE  Typed(o)
  <2>1. DOMAIN o = DOMAIN x
    BY <1>1, <1>2
  <2>2. \A g \in DOMAIN x : o[g] = IF g = f THEN Bad ELSE x[g]
    BY <1>1, <1>2
  <2>3. Typed(x) /\ f # "note"
    BY <1>1
  <2> HIDE DEF named
  <2> QED
    BY <2>1, <2>2, <2>3
<1>3. o \in named \/ \E x \in named : \E f \in DOMAIN x \ {"note"} : o = [x EXCEPT ![f] = Bad]
  BY DEF Objects
<1> HIDE DEF named
<1>4. Typed(o)
  BY <1>1, <1>2, <1>3
<1> QED
  BY <1>4

LEMMA Decoders ==
    ASSUME NEW o \in Objects
    PROVE  EntryOf(o) \in Entries \cup {None} /\ EditOf(o) \in Edits \cup {None}
<1>1. NoteOf(o) \in Notes \cup {None}
  BY ObjectFields DEF NoteOf
<1>2. Has(o, {"id", "display_name"}) => o.id \in IDs /\ o.display_name \in Names
  BY ObjectFields DEF Has
<1>3. Has(o, {"id", "display_name", "canonical_url"}) =>
        o.id \in IDs /\ o.display_name \in Names /\ o.canonical_url \in URLs
  BY ObjectFields DEF Has
<1>4. EntryOf(o) \in Entries \cup {None}
  BY <1>1, <1>3 DEF EntryOf, Entries
<1>5. EditOf(o) \in Edits \cup {None}
  BY <1>1, <1>2 DEF EditOf, Edits
<1> QED
  BY <1>4, <1>5

LEMMA ChangeTypes ==
    ASSUME NEW c \in Changes
    PROVE  /\ c.action = "add" => c.entry \in Entries
           /\ c.action = "edit" => c.edit \in Edits
           /\ c.action = "remove" => c.id \in IDs
<1>1. /\ {EntryOf(o) : o \in Objects} \ {None} \subseteq Entries
      /\ {EditOf(o) : o \in Objects} \ {None} \subseteq Edits
  BY Decoders
<1> QED
  BY <1>1 DEF Changes

\* Where an entry stood before the removal of the one at position i.
Skip(i, k) == IF k < i THEN k ELSE k + 1

LEMMA Skipped ==
    ASSUME NEW n \in Nat, NEW i \in 1 .. n
    PROVE  /\ \A k \in 1 .. n - 1 : Skip(i, k) \in (1 .. n) \ {i}
           /\ \A j, k \in 1 .. n - 1 : Skip(i, j) = Skip(i, k) => j = k
           /\ \A j \in (1 .. n) \ {i} : \E k \in 1 .. n - 1 : j = Skip(i, k)
<1> n - 1 \in Int
  OBVIOUS
<1>1. ASSUME NEW k \in 1 .. n - 1
      PROVE  Skip(i, k) \in (1 .. n) \ {i}
  BY DEF Skip
<1>3. ASSUME NEW j \in 1 .. n - 1, NEW k \in 1 .. n - 1, Skip(i, j) = Skip(i, k)
      PROVE  j = k
  BY <1>3 DEF Skip
<1>2. ASSUME NEW j \in (1 .. n) \ {i}
      PROVE  \E k \in 1 .. n - 1 : j = Skip(i, k)
  <2>1. CASE j < i
    <3>1. j \in 1 .. n - 1 /\ j = Skip(i, j)
      BY <2>1 DEF Skip
    <3> QED
      BY <3>1
  <2>2. CASE ~ (j < i)
    <3>1. j - 1 \in 1 .. n - 1 /\ j = Skip(i, j - 1)
      BY <2>2 DEF Skip
    <3> QED
      BY <3>1
  <2> QED
    BY <2>1, <2>2
<1> QED
  BY <1>1, <1>2, <1>3

LEMMA WithoutSkips ==
    ASSUME NEW n \in Nat, NEW m \in [1 .. n -> Entries], NEW i \in 1 .. n
    PROVE  /\ Without(m, i) \in [1 .. n - 1 -> Entries] /\ n - 1 \in Nat
           /\ \A k \in 1 .. n - 1 : Without(m, i)[k] = m[Skip(i, k)]
<1> DEFINE a == SubSeq(m, 1, i - 1)
           b == SubSeq(m, i + 1, n)
<1>1. m \in Seq(Entries) /\ Len(m) = n
  OBVIOUS
<1>2. a \in Seq(Entries) /\ Len(a) = i - 1 /\ \A k \in 1 .. i - 1 : a[k] = m[k]
  BY <1>1
<1>3. b \in Seq(Entries) /\ Len(b) = n - i /\ \A k \in 1 .. n - i : b[k] = m[i + k]
  BY <1>1
<1>4. Without(m, i) = a \o b
  BY <1>1 DEF Without
<1> HIDE DEF a, b
<1>5. a \o b \in Seq(Entries) /\ Len(a \o b) = n - 1 /\ n - 1 \in Nat
  <2>1. a \o b \in Seq(Entries) /\ Len(a \o b) = Len(a) + Len(b)
    BY <1>2, <1>3, ConcatProperties
  <2>2. (i - 1) + (n - i) = n - 1 /\ n - 1 \in Nat
    OBVIOUS
  <2> QED
    BY <1>2, <1>3, <2>1, <2>2
<1>6. ASSUME NEW k \in 1 .. n - 1
      PROVE  (a \o b)[k] = m[Skip(i, k)]
  <2>1. CASE k < i
    BY <1>2, <1>3, <2>1 DEF Skip
  <2>2. CASE ~ (k < i)
    <3>1. (a \o b)[k] = b[k - (i - 1)]
      BY <1>2, <1>3, <2>2
    <3>2. k - (i - 1) \in 1 .. n - i /\ i + (k - (i - 1)) = k + 1
      BY <2>2
    <3> QED
      BY <1>3, <2>2, <3>1, <3>2 DEF Skip
  <2> QED
    BY <2>1, <2>2
<1>7. a \o b \in [1 .. n - 1 -> Entries]
  BY <1>5, LenProperties
<1> QED
  BY <1>4, <1>5, <1>6, <1>7

\* What a mutation makes of a catalog differs from it in the entry it names.
LEMMA ChangedDiffers ==
    ASSUME NEW m \in Catalogs, NEW c \in Changes, Changed(m, c) # Torn
    PROVE  \E n \in Nat : \E j \in IDs :
             LET e == Changed(m, c) IN
             /\ e \in [1 .. n -> Entries] /\ Distinct(e)
             /\ \E x \in Range(m) \cup Range(e) : x.id = j
             /\ \A x \in Entries : x.id # j => (x \in Range(m) <=> x \in Range(e))
<1> DEFINE At(id) == {i \in DOMAIN m : m[i].id = id}
           e == Changed(m, c)
           Goal(n, j) == /\ e \in [1 .. n -> Entries] /\ Distinct(e)
                         /\ \E x \in Range(m) \cup Range(e) : x.id = j
                         /\ \A x \in Entries : x.id # j => (x \in Range(m) <=> x \in Range(e))
<1>1. PICK n \in Nat : m \in [1 .. n -> Entries] /\ Distinct(m)
  BY CatalogsAreLists
<1>2. CASE c.action = "add"
  <2>1. c.entry \in Entries /\ c.entry.id \in IDs
    BY <1>2, ChangeTypes, IdsAreNumbers
  <2>2. At(c.entry.id) = {} /\ e = Append(m, c.entry)
    BY <1>2 DEF Changed
  <2>3. /\ e \in [1 .. n + 1 -> Entries]
        /\ \A i \in 1 .. n : e[i] = m[i]
        /\ e[n + 1] = c.entry
    <3>1. m \in Seq(Entries) /\ Len(m) = n
      BY <1>1
    <3>2. e \in Seq(Entries) /\ Len(e) = n + 1 /\ e[n + 1] = c.entry
          /\ \A i \in 1 .. n : e[i] = m[i]
      BY <2>1, <2>2, <3>1
    <3> QED
      BY <3>2
  <2>4. \A i \in 1 .. n : m[i].id # c.entry.id
    BY <1>1, <2>2
  <2> HIDE DEF e
  <2>5. Distinct(e)
    BY <1>1, <2>3, <2>4 DEF Distinct
  <2>6. \A x : x \in Range(e) <=> x \in Range(m) \/ x = c.entry
    BY <1>1, <2>3 DEF Range
  <2>7. Goal(n + 1, c.entry.id)
    BY <2>1, <2>3, <2>5, <2>6
  <2> QED
    BY <2>1, <2>7 DEF e
<1>3. CASE c.action = "edit"
  <2> DEFINE i == CHOOSE i \in At(c.edit.id) : TRUE
             new == Apply(c.edit, m[i])
  <2>1. At(c.edit.id) # {} /\ e = [m EXCEPT ![i] = new]
    BY <1>3 DEF Changed
  <2>2. i \in 1 .. n /\ m[i].id = c.edit.id
    BY <1>1, <2>1
  <2> HIDE DEF i
  <2>3. new \in Entries /\ new.id = m[i].id
    <3>1. c.edit \in Edits
      BY <1>3, ChangeTypes
    <3>2. m[i] \in Entries
      BY <1>1, <2>2
    <3> QED
      BY <3>1, <3>2 DEF Apply, Entries, Edits
  <2> HIDE DEF new
  <2>4. e \in [1 .. n -> Entries] /\ \A k \in 1 .. n : e[k] = IF k = i THEN new ELSE m[k]
    BY <1>1, <2>1, <2>2, <2>3
  <2> HIDE DEF e
  <2>5. Distinct(e)
    BY <1>1, <2>2, <2>3, <2>4 DEF Distinct
  <2>6. \A x : x.id # m[i].id => (x \in Range(e) <=> x \in Range(m))
    BY <1>1, <2>2, <2>3, <2>4 DEF Range
  <2>7. m[i] \in Range(m) /\ m[i].id \in IDs
    BY <1>1, <2>2, IdsAreNumbers DEF Range
  <2>8. Goal(n, m[i].id)
    BY <2>4, <2>5, <2>6, <2>7
  <2> QED
    BY <2>7, <2>8 DEF e
<1>4. CASE c.action = "remove"
  <2> DEFINE i == CHOOSE i \in At(c.id) : TRUE
  <2>1. At(c.id) # {} /\ e = Without(m, i)
    BY <1>4 DEF Changed
  <2>2. i \in 1 .. n /\ m[i].id = c.id
    BY <1>1, <2>1
  <2> HIDE DEF i
  <2>3. /\ e \in [1 .. n - 1 -> Entries] /\ n - 1 \in Nat
        /\ \A k \in 1 .. n - 1 : e[k] = m[Skip(i, k)]
    BY <1>1, <2>1, <2>2, WithoutSkips
  <2> HIDE DEF e
  <2>4. /\ \A k \in 1 .. n - 1 : Skip(i, k) \in (1 .. n) \ {i}
        /\ \A j, k \in 1 .. n - 1 : Skip(i, j) = Skip(i, k) => j = k
        /\ \A j \in (1 .. n) \ {i} : \E k \in 1 .. n - 1 : j = Skip(i, k)
    BY <1>1, <2>2, Skipped, Zenon
  <2>5. Distinct(e) /\ \A x : x.id # m[i].id => (x \in Range(e) <=> x \in Range(m))
    <3>1. ASSUME NEW j \in 1 .. n - 1, NEW k \in 1 .. n - 1, e[j].id = e[k].id
          PROVE  j = k
      <4>1. Skip(i, j) \in DOMAIN m /\ Skip(i, k) \in DOMAIN m
        BY <1>1, <2>4
      <4>2. m[Skip(i, j)].id = m[Skip(i, k)].id
        BY <2>3, <3>1
      <4>3. Skip(i, j) = Skip(i, k)
        BY <1>1, <4>1, <4>2 DEF Distinct
      <4> QED
        BY <2>4, <4>3
    <3>2. Distinct(e)
      BY <2>3, <3>1 DEF Distinct
    <3>3. \A x : x \in Range(e) => x \in Range(m)
      BY <1>1, <2>3, <2>4 DEF Range
    <3>4. ASSUME NEW x \in Range(m), x.id # m[i].id
          PROVE  x \in Range(e)
      <4>1. PICK j \in 1 .. n : m[j] = x
        BY <1>1 DEF Range
      <4>2. j \in (1 .. n) \ {i}
        BY <3>4, <4>1
      <4>3. PICK k \in 1 .. n - 1 : j = Skip(i, k)
        BY <2>4, <4>2
      <4> QED
        BY <2>3, <4>1, <4>3 DEF Range
    <3> QED
      BY <3>2, <3>3, <3>4
  <2>6. m[i] \in Range(m) /\ m[i].id \in IDs
    BY <1>1, <2>2, IdsAreNumbers DEF Range
  <2>7. Goal(n - 1, m[i].id)
    BY <2>3, <2>5, <2>6
  <2> QED
    BY <2>3, <2>6, <2>7 DEF e
<1> QED
  BY <1>2, <1>3, <1>4 DEF Changes

LEMMA NextCatalog ==
    ASSUME NEW m \in Catalogs, NEW c \in Changes \cup {NoChange}, Changed(m, c) # Torn
    PROVE  LET next == Sorted(Changed(m, c)) IN
           next \in Catalogs /\ Differ(Shown(Encoded(m)), Shown(Encoded(next)))
<1>1. c \in Changes
  BY DEF NoChange, Changed
<1>2. PICK n \in Nat, j \in IDs :
        LET e == Changed(m, c) IN
        /\ e \in [1 .. n -> Entries] /\ Distinct(e)
        /\ \E x \in Range(m) \cup Range(e) : x.id = j
        /\ \A x \in Entries : x.id # j => (x \in Range(m) <=> x \in Range(e))
  BY <1>1, ChangedDiffers
<1> DEFINE next == Sorted(Changed(m, c))
<1>3. next \in Catalogs /\ Range(next) = Range(Changed(m, c))
  BY <1>2, SortedIsCatalog
<1>4. /\ \E x \in Range(m) \cup Range(next) : x.id = j
      /\ \A x \in Entries : x.id # j => (x \in Range(m) <=> x \in Range(next))
  BY <1>2, <1>3
<1> HIDE DEF next
<1>5. Differ(Shown(Encoded(m)), Shown(Encoded(next)))
  BY <1>3, <1>4, DifferInOne
<1> QED
  BY <1>3, <1>5 DEF next

LEMMA EmptyCatalog == <<>> \in Catalogs
<1>1. <<>> \in [1 .. 0 -> Entries] /\ 0 \in Nat
  OBVIOUS
<1>2. Distinct(<<>>) /\ \A i, k \in 1 .. 0 : i < k => ByID(<<>>[i], <<>>[k])
  BY DEF Distinct
<1> QED
  BY <1>1, <1>2, CatalogsAreLists

-----------------------------------------------------------------------------
(* The invariant                                                           *)

\* How far a writer has come, and what is in its hands by then.
Progress(w) ==
    /\ wpc[w] = "change" => file = Encoded(memory[w])
    /\ wpc[w] \in {"create", "encode", "sync", "rename"} =>
         Differ(Shown(file), Shown(Encoded(memory[w])))
    /\ wpc[w] \in {"sync", "rename"} => temp[w].data = Encoded(memory[w])
    /\ wpc[w] = "rename" => temp[w].synced = TRUE
    /\ wpc[w] \in {"syncDirectory", "succeeded", "uncertain"} => file = Encoded(memory[w])
    /\ wpc[w] = "succeeded" => disk = file

IInv == TypeOK /\ synced = TRUE /\ \A w \in Writers : Progress(w)

Labels == {"idle", "list", "change", "create", "encode", "sync", "rename",
           "syncDirectory", "succeeded", "uncertain", "failed"}

\* Only the holder of the lock is not idle: a step has to account for its own
\* progress alone.
LEMMA Alone ==
    ASSUME IInv, NEW w \in Writers, wpc[w] # "idle"
    PROVE  /\ lock = w /\ wpc \in [Writers -> Labels] /\ crashes \in 0 .. MaxCrashes
           /\ \A v \in Writers \ {w} : wpc[v] = "idle"
           /\ wpc[w] \in Labels
BY DEF IInv, TypeOK, Labels

LEMMA StepAlone ==
    ASSUME IInv, NEW w \in Writers, wpc[w] # "idle",
           NEW l \in Labels \ {"idle"}, Goes(w, l),
           file' \in Files, disk' \in Files, synced' = TRUE,
           change' \in [Writers -> Changes \cup {NoChange}],
           memory' \in [Writers -> Catalogs],
           temp' \in [Writers -> [data : Files \cup {Torn}, synced : BOOLEAN]],
           wpc'[w] = l => Progress(w)'
    PROVE  IInv'
<1>1. /\ wpc' = [wpc EXCEPT ![w] = l] /\ lock' = w /\ crashes' \in 0 .. MaxCrashes
      /\ wpc \in [Writers -> Labels] /\ \A v \in Writers \ {w} : wpc[v] = "idle"
  BY Alone DEF Goes
<1>2. /\ wpc' \in [Writers -> Labels] /\ wpc'[w] = l
      /\ \A v \in Writers \ {w} : wpc'[v] = "idle"
  BY <1>1
<1>3. \A v \in Writers : wpc'[v] # "idle" <=> lock' = v
  BY <1>1, <1>2
<1>4. TypeOK'
  BY <1>1, <1>2, <1>3 DEF TypeOK, Labels
<1>5. \A v \in Writers : Progress(v)'
  BY <1>2 DEF Progress
<1> QED
  BY <1>4, <1>5 DEF IInv

\* Nobody runs.
LEMMA NobodyRuns ==
    ASSUME file' \in Files, disk' \in Files, synced' = TRUE, lock' = None,
           crashes' \in 0 .. MaxCrashes,
           wpc' \in [Writers -> {"idle"}],
           change' \in [Writers -> Changes \cup {NoChange}],
           memory' \in [Writers -> Catalogs],
           temp' \in [Writers -> [data : Files \cup {Torn}, synced : BOOLEAN]]
    PROVE  IInv'
<1>1. wpc' \in [Writers -> Labels] /\ \A v \in Writers : wpc'[v] = "idle"
  BY DEF Labels
<1>2. \A v \in Writers : wpc'[v] # "idle" <=> lock' = v
  BY <1>1, CatalogStoreAssumption
<1>3. TypeOK'
  BY <1>1, <1>2 DEF TypeOK, Labels
<1>4. \A v \in Writers : Progress(v)'
  BY <1>1 DEF Progress
<1> QED
  BY <1>3, <1>4 DEF IInv

NoTemps == [data : Files \cup {Torn}, synced : BOOLEAN]

LEMMA NoTempType == NoTemp \in NoTemps
BY DEF NoTemp, NoTemps

LEMMA InitHolds == Init => IInv
<1> SUFFICES ASSUME Init
             PROVE  IInv
  OBVIOUS
<1>1. \A w \in Writers : wpc[w] = "idle"
  BY DEF Init
<1>2. TypeOK
  <2>1. memory \in [Writers -> Catalogs] /\ temp \in [Writers -> NoTemps]
    BY EmptyCatalog, NoTempType DEF Init
  <2>2. crashes \in 0 .. MaxCrashes
    BY CatalogStoreAssumption DEF Init
  <2>3. \A w \in Writers : wpc[w] # "idle" <=> lock = w
    BY <1>1, CatalogStoreAssumption DEF Init
  <2> QED
    BY <2>1, <2>2, <2>3 DEF Init, TypeOK, NoTemps
<1>3. \A w \in Writers : Progress(w)
  BY <1>1 DEF Progress
<1> QED
  BY <1>2, <1>3 DEF Init, IInv

LEMMA Types ==
    ASSUME IInv
    PROVE  /\ file \in Files /\ disk \in Files /\ synced = TRUE
           /\ change \in [Writers -> Changes \cup {NoChange}]
           /\ memory \in [Writers -> Catalogs]
           /\ temp \in [Writers -> [data : Files \cup {Torn}, synced : BOOLEAN]]
           /\ wpc \in [Writers -> Labels] /\ crashes \in 0 .. MaxCrashes
BY DEF IInv, TypeOK, Labels

LEMMA LockHolds ==
    ASSUME IInv, NEW w \in Writers, Lock(w)
    PROVE  IInv'
<1>1. PICK c \in Changes : change' = [change EXCEPT ![w] = c]
  BY DEF Lock
<1>2. change' \in [Writers -> Changes \cup {NoChange}]
  BY <1>1, Types
<1>3. \A v \in Writers : wpc[v] = "idle"
  BY CatalogStoreAssumption DEF Lock, IInv, TypeOK
<1>4. /\ wpc' \in [Writers -> Labels] /\ wpc'[w] = "list" /\ lock' = w
      /\ \A v \in Writers \ {w} : wpc'[v] = "idle"
  BY <1>3, Types DEF Lock, Labels
<1>5. \A v \in Writers : wpc'[v] # "idle" <=> lock' = v
  BY <1>4
<1>6. TypeOK'
  BY <1>2, <1>4, <1>5, Types DEF Lock, TypeOK, Labels
<1>7. \A v \in Writers : Progress(v)'
  BY <1>4 DEF Progress
<1> QED
  BY <1>6, <1>7, Types DEF IInv, Lock

LEMMA ListHolds ==
    ASSUME IInv, NEW w \in Writers, ListEntries(w)
    PROVE  IInv'
<1>1. wpc[w] # "idle" /\ UNCHANGED <<file, synced, disk, change, temp>>
  BY DEF ListEntries
<1>2. CASE memory' = [memory EXCEPT ![w] = Decoded(file)] /\ Goes(w, "change")
  <2>1. Decoded(file) \in Catalogs /\ file = Encoded(Decoded(file))
    BY Types, FilesAreCatalogs
  <2>2. memory' \in [Writers -> Catalogs] /\ memory'[w] = Decoded(file)
    BY <1>2, <2>1, Types
  <2>3. wpc'[w] = "change" => Progress(w)'
    BY <1>1, <2>1, <2>2 DEF Progress
  <2> QED
    BY <1>1, <1>2, <2>2, <2>3, Types, StepAlone DEF Labels
<1>3. CASE Goes(w, "failed") /\ UNCHANGED memory
  <2>1. wpc'[w] = "failed" => Progress(w)'
    BY DEF Progress
  <2> QED
    BY <1>1, <1>3, <2>1, Types, StepAlone DEF Labels
<1> QED
  BY <1>2, <1>3 DEF ListEntries

LEMMA ChangeHolds ==
    ASSUME IInv, NEW w \in Writers, ChangeEntries(w)
    PROVE  IInv'
<1> DEFINE next == Sorted(Changed(memory[w], change[w]))
<1>1. wpc[w] = "change" /\ UNCHANGED <<file, synced, disk, change, temp>>
  BY DEF ChangeEntries
<1>2. CASE /\ Changed(memory[w], change[w]) # Torn
           /\ memory' = [memory EXCEPT ![w] = next] /\ Goes(w, "create")
  <2>1. file = Encoded(memory[w])
    BY <1>1 DEF IInv, Progress
  <2>2. next \in Catalogs /\ Differ(Shown(Encoded(memory[w])), Shown(Encoded(next)))
    BY <1>2, Types, NextCatalog
  <2> HIDE DEF next
  <2>3. memory' \in [Writers -> Catalogs] /\ memory'[w] = next
    BY <1>2, <2>2, Types
  <2>4. wpc'[w] = "create" => Progress(w)'
    <3>1. Differ(Shown(file), Shown(Encoded(next)))
      BY <2>1, <2>2
    <3>2. Differ(Shown(file'), Shown(Encoded(memory'[w])))
      BY <1>1, <2>3, <3>1
    <3> QED
      BY <3>2 DEF Progress
  <2> QED
    BY <1>1, <1>2, <2>3, <2>4, Types, StepAlone DEF Labels
<1>3. CASE Goes(w, "failed") /\ UNCHANGED memory
  <2>1. wpc'[w] = "failed" => Progress(w)'
    BY DEF Progress
  <2> QED
    BY <1>1, <1>3, <2>1, Types, StepAlone DEF Labels
<1> QED
  BY <1>1, <1>2, <1>3 DEF ChangeEntries

LEMMA CreateHolds ==
    ASSUME IInv, NEW w \in Writers, CreateTemp(w)
    PROVE  IInv'
<1>1. wpc[w] = "create" /\ UNCHANGED <<file, synced, disk, change, memory>>
      /\ temp' = [temp EXCEPT ![w] = NoTemp]
  BY DEF CreateTemp
<1>2. temp' \in [Writers -> [data : Files \cup {Torn}, synced : BOOLEAN]]
  BY <1>1, Types, NoTempType DEF NoTemps
<1>3. CASE Goes(w, "encode")
  <2>1. wpc'[w] = "encode" => Progress(w)'
    BY <1>1 DEF IInv, Progress
  <2> QED
    BY <1>1, <1>2, <1>3, <2>1, Types, StepAlone DEF Labels
<1>4. CASE Goes(w, "failed")
  <2>1. wpc'[w] = "failed" => Progress(w)'
    BY DEF Progress
  <2> QED
    BY <1>1, <1>2, <1>4, <2>1, Types, StepAlone DEF Labels
<1> QED
  BY <1>3, <1>4 DEF CreateTemp

LEMMA DiscardHolds ==
    ASSUME IInv, NEW w \in Writers, Discard(w)
    PROVE  IInv'
<1>1. /\ wpc[w] # "idle" /\ Goes(w, "failed")
      /\ UNCHANGED <<file, synced, disk, change, memory>>
      /\ temp' = [temp EXCEPT ![w] = NoTemp]
  BY DEF Discard
<1>2. temp' \in [Writers -> [data : Files \cup {Torn}, synced : BOOLEAN]]
  BY <1>1, Types, NoTempType DEF NoTemps
<1>3. wpc'[w] = "failed" => Progress(w)'
  BY DEF Progress
<1> QED
  BY <1>1, <1>2, <1>3, Types, StepAlone DEF Labels

LEMMA EncodeHolds ==
    ASSUME IInv, NEW w \in Writers, Encode(w)
    PROVE  IInv'
<1> DEFINE written == Encoded(memory[w])
<1>1. /\ wpc[w] = "encode" /\ Goes(w, "sync")
      /\ UNCHANGED <<file, synced, disk, change, memory>>
      /\ temp' = [temp EXCEPT ![w].data = written]
  BY DEF Encode
<1>2. written \in Files
  BY Types, WrittenIsRead
<1>3. Differ(Shown(file), Shown(written))
  BY <1>1 DEF IInv, Progress
<1> HIDE DEF written
<1>4. /\ temp' \in [Writers -> [data : Files \cup {Torn}, synced : BOOLEAN]]
      /\ temp'[w].data = written
  BY <1>1, <1>2, Types
<1>5. memory'[w] = memory[w] /\ file' = file
  BY <1>1
<1>6. Differ(Shown(file'), Shown(Encoded(memory'[w])))
  BY <1>3, <1>5 DEF written
<1>7. wpc'[w] = "sync" => Progress(w)'
  BY <1>4, <1>5, <1>6 DEF Progress, written
<1> QED
  BY <1>1, <1>4, <1>7, Types, StepAlone DEF Labels

LEMMA SyncHolds ==
    ASSUME IInv, NEW w \in Writers, SyncTemp(w)
    PROVE  IInv'
<1>1. /\ wpc[w] = "sync" /\ Goes(w, "rename")
      /\ UNCHANGED <<file, synced, disk, change, memory>>
      /\ temp' = [temp EXCEPT ![w].synced = TRUE]
  BY DEF SyncTemp
<1>2. temp[w].data = Encoded(memory[w]) /\ Differ(Shown(file), Shown(Encoded(memory[w])))
  BY <1>1 DEF IInv, Progress
<1>3. /\ temp' \in [Writers -> [data : Files \cup {Torn}, synced : BOOLEAN]]
      /\ temp'[w].data = temp[w].data /\ temp'[w].synced = TRUE
  BY <1>1, Types
<1>4. memory'[w] = memory[w] /\ file' = file
  BY <1>1
<1>5. /\ temp'[w].data = Encoded(memory'[w])
      /\ Differ(Shown(file'), Shown(Encoded(memory'[w])))
  BY <1>2, <1>3, <1>4
<1>6. wpc'[w] = "rename" => Progress(w)'
  BY <1>3, <1>5 DEF Progress
<1> QED
  BY <1>1, <1>3, <1>6, Types, StepAlone DEF Labels

LEMMA RenameHolds ==
    ASSUME IInv, NEW w \in Writers, RenameTemp(w)
    PROVE  IInv'
<1>1. /\ wpc[w] = "rename" /\ Goes(w, "syncDirectory")
      /\ UNCHANGED <<disk, change, memory>>
      /\ file' = temp[w].data /\ synced' = temp[w].synced
      /\ temp' = [temp EXCEPT ![w] = NoTemp]
  BY DEF RenameTemp
<1>2. temp[w].data = Encoded(memory[w]) /\ temp[w].synced = TRUE
  BY <1>1 DEF IInv, Progress
<1>3. temp' \in [Writers -> [data : Files \cup {Torn}, synced : BOOLEAN]]
  BY <1>1, Types, NoTempType DEF NoTemps
<1>4. file' \in Files /\ file' = Encoded(memory[w])
  BY <1>1, <1>2, Types, WrittenIsRead
<1>5. file' = Encoded(memory'[w])
  BY <1>1, <1>4
<1>6. synced' = TRUE
  BY <1>1, <1>2
<1>7. wpc'[w] = "syncDirectory" => Progress(w)'
  BY <1>5 DEF Progress
<1> QED
  BY <1>1, <1>3, <1>4, <1>6, <1>7, Types, StepAlone DEF Labels

LEMMA SyncDirectoryHolds ==
    ASSUME IInv, NEW w \in Writers, SyncDirectory(w)
    PROVE  IInv'
<1>1. /\ wpc[w] = "syncDirectory"
      /\ UNCHANGED <<file, synced, change, memory, temp>>
  BY DEF SyncDirectory
<1>2. file = Encoded(memory[w])
  BY <1>1 DEF IInv, Progress
<1>3. file' = Encoded(memory'[w])
  BY <1>1, <1>2
<1>4. CASE disk' = file /\ Goes(w, "succeeded")
  <2>1. wpc'[w] = "succeeded" => Progress(w)'
    BY <1>1, <1>3, <1>4 DEF Progress
  <2> QED
    BY <1>1, <1>4, <2>1, Types, StepAlone DEF Labels
<1>5. CASE UNCHANGED disk /\ Goes(w, "uncertain")
  <2>1. wpc'[w] = "uncertain" => Progress(w)'
    BY <1>3 DEF Progress
  <2> QED
    BY <1>1, <1>5, <2>1, Types, StepAlone DEF Labels
<1> QED
  BY <1>4, <1>5 DEF SyncDirectory

LEMMA CloseHolds ==
    ASSUME IInv, NEW w \in Writers, Close(w)
    PROVE  IInv'
<1>1. wpc[w] # "idle"
  BY DEF Close
<1>2. wpc' \in [Writers -> {"idle"}]
  BY <1>1, Alone DEF Close
<1>3. memory' \in [Writers -> Catalogs]
  BY Types, EmptyCatalog DEF Close
<1> QED
  BY <1>2, <1>3, Types, NobodyRuns DEF Close

LEMMA KillHolds ==
    ASSUME IInv, NEW w \in Writers, Kill(w)
    PROVE  IInv'
<1>1. wpc[w] # "idle"
  BY DEF Kill
<1>2. wpc' \in [Writers -> {"idle"}]
  BY <1>1, Alone DEF Kill
<1>3. memory' \in [Writers -> Catalogs]
  BY Types, EmptyCatalog DEF Kill
<1>4. temp' \in [Writers -> [data : Files \cup {Torn}, synced : BOOLEAN]]
  BY Types, NoTempType DEF Kill, NoTemps
<1>5. crashes' \in 0 .. MaxCrashes
  BY Types, CatalogStoreAssumption DEF Kill
<1> QED
  BY <1>2, <1>3, <1>4, <1>5, Types, NobodyRuns DEF Kill

LEMMA PowerLossHolds ==
    ASSUME IInv, PowerLoss
    PROVE  IInv'
<1>1. file' \in Files /\ disk' \in Files
  BY Types DEF PowerLoss
<1>2. memory' \in [Writers -> Catalogs]
  BY EmptyCatalog DEF PowerLoss
<1>3. temp' \in [Writers -> [data : Files \cup {Torn}, synced : BOOLEAN]]
  BY NoTempType DEF PowerLoss, NoTemps
<1>4. crashes' \in 0 .. MaxCrashes
  BY Types, CatalogStoreAssumption DEF PowerLoss
<1> QED
  BY <1>1, <1>2, <1>3, <1>4, NobodyRuns DEF PowerLoss

LEMMA StepHolds == IInv /\ [Next]_vars => IInv'
<1> SUFFICES ASSUME IInv, [Next]_vars
             PROVE  IInv'
  OBVIOUS
<1>1. ASSUME NEW w \in Writers, WriterStep(w)
      PROVE  IInv'
  BY <1>1, LockHolds, ListHolds, ChangeHolds, CreateHolds, DiscardHolds, EncodeHolds,
     SyncHolds, RenameHolds, SyncDirectoryHolds, CloseHolds DEF WriterStep
<1>2. CASE UNCHANGED vars
  BY <1>2 DEF vars, IInv, TypeOK, Progress
<1> QED
  BY <1>1, <1>2, KillHolds, PowerLossHolds DEF Next

\* The invariant is inductive.
LEMMA InvHolds == Spec => []IInv
BY InitHolds, StepHolds, PTL DEF Spec

\* Every variable keeps its type in every reachable state: the catalog's file
\* is always a file that can be read, and only the holder of the lock runs.
THEOREM TypeCorrect == Spec => []TypeOK
<1>1. IInv => TypeOK
  BY DEF IInv
<1> QED
  BY <1>1, InvHolds, PTL

\* Whatever sequence of adds, edits and removals led to it, the catalog a
\* writer renamed into place is read back as the entries it had in memory.
THEOREM WritesReadBack == Spec => []ReadsBack
<1>1. IInv => ReadsBack
  BY Types, WrittenIsRead DEF IInv, Progress, ReadsBack
<1> QED
  BY <1>1, InvHolds, PTL

-----------------------------------------------------------------------------
(* The refinement of AtomicCatalog                                         *)

Applied  == {w \in Writers : wpc[w] \in {"syncDirectory", "succeeded", "uncertain"}}
Reported == {w \in Writers : wpc[w] = "succeeded"}

LEMMA ShownIsCatalog ==
    ASSUME NEW f \in Files
    PROVE  Shown(f) \in [IDs -> Entries \cup {None}]
<1>1. PICK m \in Catalogs : f = Encoded(m)
  BY DEF Files
<1>2. PICK n \in Nat : m \in [1 .. n -> Entries] /\ Distinct(m)
  BY CatalogsAreLists
<1>3. \A j : Found(m, j) \in Entries \cup {None}
  BY <1>2, FoundIs
<1> QED
  BY <1>1, <1>3, ShownIsFound

\* A step that neither shows nor reports anything new.
LEMMA Stutters ==
    ASSUME UNCHANGED <<file, disk>>, Applied' = Applied, Reported' = Reported
    PROVE  UNCHANGED Promise!vars
BY DEF Promise!vars, Applied, Reported, Shown

LEMMA GoesApplied ==
    ASSUME IInv, NEW w \in Writers, NEW l, Goes(w, l)
    PROVE  /\ Applied' = IF l \in {"syncDirectory", "succeeded", "uncertain"}
                         THEN Applied \cup {w} ELSE Applied \ {w}
           /\ Reported' = IF l = "succeeded" THEN Reported \cup {w} ELSE Reported \ {w}
BY Types DEF Goes, Applied, Reported

LEMMA Hidden ==
    ASSUME IInv, NEW w \in Writers, NEW l, Goes(w, l), UNCHANGED <<file, disk>>,
           wpc[w] \in {"list", "change", "create", "encode", "sync", "rename"},
           l \in {"change", "create", "encode", "sync", "rename", "failed"}
    PROVE  UNCHANGED Promise!vars
<1>1. w \notin Applied /\ w \notin Reported
  BY DEF Applied, Reported
<1> QED
  BY <1>1, GoesApplied, Stutters

LEMMA RenameApplies ==
    ASSUME IInv, NEW w \in Writers, RenameTemp(w)
    PROVE  Promise!Apply(w)
<1>1. /\ wpc[w] = "rename" /\ Goes(w, "syncDirectory") /\ UNCHANGED disk
      /\ file' = temp[w].data
  BY DEF RenameTemp
<1>2. temp[w].data = Encoded(memory[w]) /\ Differ(Shown(file), Shown(Encoded(memory[w])))
  BY <1>1 DEF IInv, Progress
<1>3. Differ(Shown(file), Shown(file'))
  BY <1>1, <1>2
<1>4. file \in Files /\ file' \in Files
  BY <1>1, <1>2, Types, WrittenIsRead
<1> DEFINE before == Shown(file)
           after == Shown(file')
<1>5. before \in [IDs -> Entries \cup {None}] /\ after \in [IDs -> Entries \cup {None}]
  BY <1>4, ShownIsCatalog
<1> HIDE DEF before, after
<1>6. PICK j \in IDs : (before[j] # None \/ after[j] # None)
                       /\ \A l \in IDs \ {j} : before[l] = after[l]
  BY <1>3 DEF Differ, before, after
<1>7. after[j] \in Entries \cup {None} /\ after = [before EXCEPT ![j] = after[j]]
  BY <1>5, <1>6
<1>8. w \notin Applied /\ w \notin Reported
  BY <1>1 DEF Applied, Reported
<1>9. Applied' = Applied \cup {w} /\ Reported' = Reported
  BY <1>1, <1>8, GoesApplied
<1>10. Shown(disk)' = Shown(disk)
  BY <1>1
<1> QED
  BY <1>6, <1>7, <1>8, <1>9, <1>10
  DEF Promise!Apply, Applied, Reported, before, after

LEMMA SyncDirectoryReports ==
    ASSUME IInv, NEW w \in Writers, SyncDirectory(w)
    PROVE  Promise!Report(w) \/ UNCHANGED Promise!vars
<1>1. wpc[w] = "syncDirectory" /\ UNCHANGED file
  BY DEF SyncDirectory
<1>2. w \in Applied /\ w \notin Reported
  BY <1>1 DEF Applied, Reported
<1>3. CASE disk' = file /\ Goes(w, "succeeded")
  <2>1. Applied' = Applied /\ Reported' = Reported \cup {w}
    BY <1>2, <1>3, GoesApplied
  <2>2. Shown(disk)' = Shown(file) /\ Shown(file)' = Shown(file)
    BY <1>1, <1>3
  <2>3. Promise!Report(w)
    BY <1>2, <2>1, <2>2 DEF Promise!Report, Applied, Reported
  <2> QED
    BY <2>3
<1>4. CASE UNCHANGED disk /\ Goes(w, "uncertain")
  <2>1. Applied' = Applied /\ Reported' = Reported
    BY <1>2, <1>4, GoesApplied
  <2> QED
    BY <1>1, <1>4, <2>1, Stutters
<1> QED
  BY <1>3, <1>4 DEF SyncDirectory

\* The end of a writer, by itself or by a kill.
LEMMA EndEnds ==
    ASSUME IInv, NEW w \in Writers, wpc' = [wpc EXCEPT ![w] = "idle"],
           UNCHANGED <<file, disk>>
    PROVE  Promise!End(w) \/ UNCHANGED Promise!vars
<1>1. Applied' = Applied \ {w} /\ Reported' = Reported \ {w}
  BY Types DEF Applied, Reported
<1>2. CASE w \in Applied
  <2>1. Shown(disk)' = Shown(disk) /\ Shown(file)' = Shown(file)
    OBVIOUS
  <2>2. Promise!End(w)
    BY <1>1, <1>2, <2>1 DEF Promise!End, Applied, Reported
  <2> QED
    BY <2>2
<1>3. CASE w \notin Applied
  <2>1. w \notin Reported
    BY <1>3 DEF Applied, Reported
  <2> QED
    BY <1>1, <1>3, <2>1, Stutters
<1> QED
  BY <1>2, <1>3

LEMMA PowerLossStops ==
    ASSUME IInv, PowerLoss
    PROVE  Promise!PowerLoss
<1>1. file' \in {disk, file} /\ disk' = file'
  BY Types DEF PowerLoss
<1>2. \A w \in Writers : wpc'[w] = "idle"
  BY DEF PowerLoss
<1>3. Applied' = {} /\ Reported' = {}
  BY <1>2 DEF Applied, Reported
<1>4. Shown(file)' \in {Shown(file), Shown(disk)} /\ Shown(disk)' = Shown(file)'
  BY <1>1
<1> QED
  BY <1>3, <1>4 DEF Promise!PowerLoss, Applied, Reported

LEMMA InitPromises == Init => Promise!Init
<1> SUFFICES ASSUME Init
             PROVE  Promise!Init
  OBVIOUS
<1>1. Shown(file) \in [IDs -> Entries \cup {None}] /\ Shown(disk) = Shown(file)
  BY ShownIsCatalog DEF Init
<1>2. Applied = {} /\ Reported = {}
  BY DEF Init, Applied, Reported
<1> QED
  BY <1>1, <1>2 DEF Promise!Init, Promise!Catalogs, Applied, Reported

LEMMA StepPromises == IInv /\ [Next]_vars => [Promise!Next]_(Promise!vars)
<1> SUFFICES ASSUME IInv, [Next]_vars
             PROVE  Promise!Next \/ UNCHANGED Promise!vars
  OBVIOUS
<1>1. ASSUME NEW w \in Writers, WriterStep(w)
      PROVE  Promise!Next \/ UNCHANGED Promise!vars
  <2>1. CASE Lock(w)
    <3>1. Applied' = Applied /\ Reported' = Reported
      BY <2>1, Types DEF Lock, Applied, Reported
    <3> QED
      BY <2>1, <3>1, Stutters DEF Lock
  <2>2. CASE ListEntries(w)
    BY <2>2, Hidden DEF ListEntries
  <2>3. CASE ChangeEntries(w)
    BY <2>3, Hidden DEF ChangeEntries
  <2>4. CASE CreateTemp(w)
    BY <2>4, Hidden DEF CreateTemp
  <2>5. CASE Discard(w)
    BY <2>5, Hidden DEF Discard
  <2>6. CASE Encode(w)
    BY <2>6, Hidden DEF Encode
  <2>7. CASE SyncTemp(w)
    BY <2>7, Hidden DEF SyncTemp
  <2>8. CASE RenameTemp(w)
    BY <2>8, RenameApplies DEF Promise!Next
  <2>9. CASE SyncDirectory(w)
    BY <2>9, SyncDirectoryReports DEF Promise!Next
  <2>10. CASE Close(w)
    BY <2>10, EndEnds DEF Close, Promise!Next
  <2> QED
    BY <1>1, <2>1, <2>2, <2>3, <2>4, <2>5, <2>6, <2>7, <2>8, <2>9, <2>10 DEF WriterStep
<1>2. ASSUME NEW w \in Writers, Kill(w)
      PROVE  Promise!Next \/ UNCHANGED Promise!vars
  BY <1>2, EndEnds DEF Kill, Promise!Next
<1>3. CASE PowerLoss
  BY <1>3, PowerLossStops DEF Promise!Next
<1>4. CASE UNCHANGED vars
  <2>1. UNCHANGED <<file, disk, wpc>>
    BY <1>4 DEF vars
  <2> QED
    BY <2>1, Stutters DEF Applied, Reported
<1> QED
  BY <1>1, <1>2, <1>3, <1>4 DEF Next

\* The store does what AtomicCatalog promises: each change is applied at one
\* instant, to the entries as they then are, and to one of them; no reader
\* meets a torn file, not even after a power loss; a reported success survives
\* one.
THEOREM ImplementsPromise == Spec => ImplementsAtomicCatalog
BY InvHolds, InitPromises, StepPromises, PTL DEF Spec, ImplementsAtomicCatalog, Promise!Spec
=============================================================================
