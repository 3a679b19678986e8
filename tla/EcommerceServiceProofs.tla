----------------------- MODULE EcommerceServiceProofs ------------------------
(* Proofs about the shop's storage and service, for any numbers of products,  *)
(* categories and clients, and any lists of links.                            *)
EXTENDS EcommerceService, DataLemmas

-----------------------------------------------------------------------------
(* Lists of linked ids                                                        *)

\* The positions of an id among the first n of a list.
Places(list, id, n) == {k \in 1..n : list[k] = id}

LEMMA PlacesFinite ==
    ASSUME NEW list, NEW id, NEW n \in Nat
    PROVE  IsFiniteSet(Places(list, id, n)) /\ Cardinality(Places(list, id, n)) \in Nat
<1>1. IsFiniteSet(1..n)
  BY FS_Interval
<1>2. Places(list, id, n) \in SUBSET (1..n)
  BY DEF Places
<1> QED
  BY <1>1, <1>2, FS_Subset, FS_CardinalityType

LEMMA PlacesNone ==
    ASSUME NEW list, NEW id
    PROVE  Cardinality(Places(list, id, 0)) = 0
<1>1. Places(list, id, 0) = {}
  BY DEF Places
<1> QED
  BY <1>1, FS_EmptySet

LEMMA PlacesGrow ==
    ASSUME NEW list, NEW id, NEW n \in Nat
    PROVE  Cardinality(Places(list, id, n + 1)) =
             IF list[n + 1] = id THEN Cardinality(Places(list, id, n)) + 1
             ELSE Cardinality(Places(list, id, n))
<1>1. IsFiniteSet(Places(list, id, n)) /\ n + 1 \notin Places(list, id, n)
  BY PlacesFinite DEF Places
<1>2. CASE list[n + 1] = id
  <2>1. Places(list, id, n + 1) = Places(list, id, n) \cup {n + 1}
    BY <1>2 DEF Places
  <2> QED
    BY <1>1, <1>2, <2>1, FS_AddElement
<1>3. CASE list[n + 1] # id
  <2>1. Places(list, id, n + 1) = Places(list, id, n)
    BY <1>3 DEF Places
  <2> QED
    BY <1>3, <2>1
<1> QED
  BY <1>2, <1>3

LEMMA OccurrencesArePlaces ==
    ASSUME NEW list \in Seq(Nat), NEW id
    PROVE  /\ Occurrences(list, id) = Cardinality(Places(list, id, Len(list)))
           /\ Occurrences(list, id) \in Nat
           /\ Occurrences(list, id) = 0 <=> ~Contains(list, id)
<1>1. Len(list) \in Nat /\ DOMAIN list = 1..Len(list)
  BY LenProperties
<1>2. {n \in DOMAIN list : list[n] = id} = Places(list, id, Len(list))
  BY <1>1 DEF Places
<1>3. /\ IsFiniteSet(Places(list, id, Len(list)))
      /\ Cardinality(Places(list, id, Len(list))) \in Nat
  BY <1>1, PlacesFinite
<1>4. Cardinality(Places(list, id, Len(list))) = 0 <=> Places(list, id, Len(list)) = {}
  BY <1>3, FS_EmptySet
<1>5. Places(list, id, Len(list)) = {} <=> ~Contains(list, id)
  BY <1>1 DEF Places, Contains
<1> QED
  BY <1>2, <1>3, <1>4, <1>5 DEF Occurrences

\* Appending adds one occurrence of what is appended.
LEMMA OccurrencesAppend ==
    ASSUME NEW list \in Seq(Nat), NEW e \in Nat, NEW id
    PROVE  /\ Append(list, e) \in Seq(Nat)
           /\ Occurrences(Append(list, e), id) =
                IF e = id THEN Occurrences(list, id) + 1 ELSE Occurrences(list, id)
<1> DEFINE longer == Append(list, e)
           n == Len(list)
<1>1. /\ n \in Nat
      /\ longer \in Seq(Nat)
      /\ Len(longer) = n + 1
      /\ longer[n + 1] = e
      /\ \A j \in 1..n : longer[j] = list[j]
  BY SeqAppend, LenProperties
<1> HIDE DEF longer, n
<1>2. Places(longer, id, n) = Places(list, id, n)
  BY <1>1 DEF Places
<1>3. /\ Occurrences(longer, id) = Cardinality(Places(longer, id, n + 1))
      /\ Occurrences(list, id) = Cardinality(Places(list, id, n))
  BY <1>1, OccurrencesArePlaces DEF n
<1>4. Cardinality(Places(longer, id, n + 1)) =
        IF longer[n + 1] = id THEN Cardinality(Places(longer, id, n)) + 1
        ELSE Cardinality(Places(longer, id, n))
  BY <1>1, PlacesGrow
<1> QED
  BY <1>1, <1>2, <1>3, <1>4 DEF longer

\* Without takes out every occurrence of one id and keeps those of the others.
LEMMA WithoutOne ==
    ASSUME NEW list \in Seq(Nat), NEW id
    PROVE  /\ Without(list, id) \in Seq(Nat)
           /\ \A x : Occurrences(Without(list, id), x) =
                       IF x = id THEN 0 ELSE Occurrences(list, x)
<1> DEFINE N == Len(list)
           Next1(n, s) == IF list[n] = id THEN s ELSE Append(s, list[n])
           step == [n \in 1..N |-> [s \in Seq(Nat) |-> Next1(n, s)]]
           Is(f) == f = [n \in 0..N |-> IF n = 0 THEN <<>>
                                        ELSE IF list[n] = id THEN f[n - 1]
                                        ELSE Append(f[n - 1], list[n])]
           kept == CHOOSE f : Is(f)
<1>1. N \in Nat /\ DOMAIN list = 1..N /\ <<>> \in Seq(Nat) /\ Len(<<>>) = 0
  BY LenProperties, EmptySeq
<1>2. \A n \in 1..N : list[n] \in Nat
  BY <1>1, ElementOfSeq
<1> HIDE DEF N
<1>3. \A n \in 1..N : \A s \in Seq(Nat) : Next1(n, s) \in Seq(Nat)
  BY <1>2, AppendProperties
<1>4. step \in [1..N -> [Seq(Nat) -> Seq(Nat)]]
  <2> HIDE DEF Next1
  <2> QED
    BY <1>1, <1>3
<1>5. PICK f \in Runs(Seq(Nat), <<>>, step, N) : TRUE
  <2> HIDE DEF step
  <2>1. Runs(Seq(Nat), <<>>, step, N) # {}
    BY <1>1, <1>4, PrimitiveRecursion
  <2> QED
    BY <2>1
<1>6. /\ f \in [0..N -> Seq(Nat)]
      /\ f[0] = <<>>
      /\ \A n \in 1..N : f[n - 1] \in Seq(Nat) /\ f[n] = Next1(n, f[n - 1])
  <2>1. /\ f \in [0..N -> Seq(Nat)]
        /\ f[0] = <<>>
        /\ \A n \in 1..N : f[n] = step[n][f[n - 1]]
    <3> HIDE DEF step
    <3> QED
      BY <1>5 DEF Runs
  <2>2. \A n \in 1..N : f[n - 1] \in Seq(Nat)
    BY <1>1, <2>1
  <2> HIDE DEF Next1
  <2> QED
    BY <2>1, <2>2
<1>7. Is(f)
  <2>1. ASSUME NEW n \in 0..N
        PROVE  f[n] = IF n = 0 THEN <<>> ELSE Next1(n, f[n - 1])
    <3>1. n = 0 \/ n \in 1..N
      BY <1>1
    <3> HIDE DEF Next1
    <3> QED
      BY <1>6, <3>1
  <2>2. f = [n \in 0..N |-> f[n]]
    BY <1>6
  <2> QED
    BY <2>1, <2>2
<1>8. Is(kept)
  <2> HIDE DEF Is
  <2> QED
    BY <1>7
<1>9. Without(list, id) = kept[N]
  BY DEF Without, N
<1> HIDE DEF kept, step, Is
<1> DEFINE Good(n) == /\ kept[n] \in Seq(Nat)
                      /\ \A x : Occurrences(kept[n], x) =
                                  IF x = id THEN 0
                                  ELSE Cardinality(Places(list, x, n))
           T == {n \in Nat : n <= N => Good(n)}
<1>10. kept[0] = <<>> /\ \A n \in 1..N : kept[n] = Next1(n, kept[n - 1])
  <2>1. \A n \in 0..N : kept[n] = IF n = 0 THEN <<>> ELSE Next1(n, kept[n - 1])
    BY <1>8 DEF Is
  <2>2. 0 \in 0..N /\ \A n \in 1..N : n \in 0..N /\ n # 0
    BY <1>1
  <2> HIDE DEF Next1
  <2> QED
    BY <2>1, <2>2
<1>11. 0 \in T
  <2>1. \A x : Occurrences(<<>>, x) = Cardinality(Places(<<>>, x, 0))
    BY <1>1, OccurrencesArePlaces
  <2>2. \A x : Cardinality(Places(<<>>, x, 0)) = 0 /\ Cardinality(Places(list, x, 0)) = 0
    BY PlacesNone
  <2> QED
    BY <1>1, <1>10, <2>1, <2>2
<1>12. ASSUME NEW n \in Nat, n \in T PROVE n + 1 \in T
  <2> SUFFICES ASSUME n + 1 <= N PROVE Good(n + 1)
    OBVIOUS
  <2>1. Good(n) /\ n + 1 \in 1..N /\ (n + 1) - 1 = n
    BY <1>1, <1>12
  <2>2. kept[n + 1] = Next1(n + 1, kept[n])
    <3> HIDE DEF Next1
    <3> QED
      BY <1>10, <2>1
  <2>3. list[n + 1] \in Nat
    BY <1>2, <2>1
  <2>4. \A x : Cardinality(Places(list, x, n + 1)) =
                 IF list[n + 1] = x THEN Cardinality(Places(list, x, n)) + 1
                 ELSE Cardinality(Places(list, x, n))
    BY PlacesGrow
  <2>5. CASE list[n + 1] = id
    BY <2>1, <2>2, <2>4, <2>5
  <2>6. CASE list[n + 1] # id
    <3>1. /\ Append(kept[n], list[n + 1]) \in Seq(Nat)
          /\ \A x : Occurrences(Append(kept[n], list[n + 1]), x) =
                      IF list[n + 1] = x THEN Occurrences(kept[n], x) + 1
                      ELSE Occurrences(kept[n], x)
      BY <2>1, <2>3, OccurrencesAppend
    <3>2. kept[n + 1] = Append(kept[n], list[n + 1])
      BY <2>2, <2>6
    <3> QED
      BY <2>1, <2>4, <2>6, <3>1, <3>2
  <2> QED
    BY <2>5, <2>6
<1>13. Good(N)
  <2>1. N \in T
    <3> HIDE DEF T
    <3> QED
      BY <1>1, <1>11, <1>12, SetInduction
  <2> HIDE DEF Good
  <2> QED
    BY <1>1, <2>1
<1>14. \A x : Occurrences(list, x) = Cardinality(Places(list, x, N))
  BY OccurrencesArePlaces DEF N
<1> QED
  BY <1>9, <1>13, <1>14

\* RemoveFirst takes out the first of the occurrences of an id there is.
LEMMA RemoveFirstOne ==
    ASSUME NEW list \in Seq(Nat), NEW id, Contains(list, id)
    PROVE  /\ RemoveFirst(list, id) \in Seq(Nat)
           /\ \A x : Occurrences(RemoveFirst(list, id), x) =
                       IF x = id THEN Occurrences(list, x) - 1
                       ELSE Occurrences(list, x)
<1> DEFINE N == Len(list)
           I == {k \in 1..N : list[k] = id}
<1>1. N \in Nat /\ \A k \in 1..N : list[k] \in Nat
  BY LenProperties, ElementOfSeq
<1>2. PICK i \in I : i = Min(I)
  <2>1. I \in SUBSET Nat /\ I # {}
    BY <1>1 DEF Contains
  <2> HIDE DEF I
  <2>2. \E n \in I : \A m \in I : n <= m
    BY <2>1, LeastNat
  <2> QED
    BY <2>2 DEF Min
<1>3. i \in 1..N /\ list[i] = id
  BY <1>2
<1>4. RemoveFirst(list, id) = SubSeq(list, 1, i - 1) \o SubSeq(list, i + 1, N)
  BY <1>2, <1>3 DEF RemoveFirst, RemoveAt, SelectInSeq
<1> HIDE DEF N, I
<1> DEFINE a == SubSeq(list, 1, i - 1)
           b == SubSeq(list, i + 1, N)
           t == a \o b
<1>5. /\ a \in Seq(Nat) /\ Len(a) = i - 1
      /\ \A k \in 1..(i - 1) : a[k] = list[k]
  <2>1. /\ 1 \in Int /\ i - 1 \in Int /\ \A k \in 1..(i - 1) : list[k] \in Nat
        /\ (i - 1) - 1 + 1 = i - 1 /\ \A k \in 1..(i - 1) : 1 + k - 1 = k
    BY <1>1, <1>3
  <2>2. /\ a \in Seq(Nat)
        /\ Len(a) = IF 1 <= i - 1 THEN (i - 1) - 1 + 1 ELSE 0
        /\ \A k \in 1..((i - 1) - 1 + 1) : a[k] = list[1 + k - 1]
    BY <2>1, SubSeqProperties
  <2> HIDE DEF a
  <2> QED
    BY <1>1, <1>3, <2>1, <2>2
<1>6. /\ b \in Seq(Nat) /\ Len(b) = N - i
      /\ \A k \in 1..(N - i) : b[k] = list[i + k]
  <2>1. /\ i + 1 \in Int /\ N \in Int /\ \A k \in (i + 1)..N : list[k] \in Nat
        /\ N - (i + 1) + 1 = N - i /\ \A k \in 1..(N - i) : (i + 1) + k - 1 = i + k
    BY <1>1, <1>3
  <2>2. /\ b \in Seq(Nat)
        /\ Len(b) = IF i + 1 <= N THEN N - (i + 1) + 1 ELSE 0
        /\ \A k \in 1..(N - (i + 1) + 1) : b[k] = list[(i + 1) + k - 1]
    BY <2>1, SubSeqProperties
  <2> HIDE DEF b
  <2> QED
    BY <1>1, <1>3, <2>1, <2>2
<1> HIDE DEF a, b
<1>7. /\ t \in Seq(Nat) /\ Len(t) = N - 1
      /\ \A k \in 1..(N - 1) : t[k] = IF k < i THEN list[k] ELSE list[k + 1]
  <2>1. /\ t \in Seq(Nat) /\ Len(t) = Len(a) + Len(b)
        /\ \A k \in 1..(Len(a) + Len(b)) :
             t[k] = IF k <= Len(a) THEN a[k] ELSE b[k - Len(a)]
    BY <1>5, <1>6, ConcatProperties
  <2>2. Len(a) + Len(b) = N - 1
    BY <1>1, <1>3, <1>5, <1>6
  <2> HIDE DEF t
  <2>3. ASSUME NEW k \in 1..(N - 1)
        PROVE  t[k] = IF k < i THEN list[k] ELSE list[k + 1]
    <3>1. CASE k < i
      <4>1. k \in 1..(i - 1) /\ k <= i - 1
        BY <1>3, <3>1
      <4> QED
        BY <1>5, <2>1, <2>2, <3>1, <4>1
    <3>2. CASE ~(k < i)
      <4>1. k - (i - 1) \in 1..(N - i) /\ i + (k - (i - 1)) = k + 1 /\ ~(k <= i - 1)
        BY <1>1, <1>3, <3>2
      <4> QED
        BY <1>5, <1>6, <2>1, <2>2, <2>3, <3>2, <4>1
    <3> QED
      BY <3>1, <3>2
  <2> QED
    BY <2>1, <2>2, <2>3
<1> HIDE DEF t
<1>8. ASSUME NEW x
      PROVE  Occurrences(t, x) = IF x = id THEN Occurrences(list, x) - 1
                                ELSE Occurrences(list, x)
  <2> DEFINE A == Places(t, x, N - 1)
             L == Places(list, x, N)
             B == L \ {i}
             f == [k \in A |-> IF k < i THEN k ELSE k + 1]
  <2>1. N - 1 \in Nat
    BY <1>1, <1>3
  <2>2. Occurrences(t, x) = Cardinality(A) /\ Occurrences(list, x) = Cardinality(L)
    BY <1>7, OccurrencesArePlaces DEF N
  <2>3. IsFiniteSet(A) /\ IsFiniteSet(L) /\ Cardinality(L) \in Nat
    BY <1>1, <2>1, PlacesFinite
  <2>4. \A k \in A : k \in 1..(N - 1) /\ t[k] = x
    BY DEF Places
  <2>5. \A k : k \in B <=> k \in 1..N /\ list[k] = x /\ k # i
    BY DEF Places
  <2> HIDE DEF A, B
  <2>6. f \in [A -> B]
    <3> SUFFICES ASSUME NEW k \in A PROVE f[k] \in B
      OBVIOUS
    <3>0. k \in 1..(N - 1) /\ t[k] = x
      BY <2>4
    <3>1. CASE k < i
      <4>1. k \in 1..N /\ k # i /\ list[k] = x
        BY <1>1, <1>3, <1>7, <3>0, <3>1
      <4> QED
        BY <2>5, <3>1, <4>1
    <3>2. CASE ~(k < i)
      <4>1. k + 1 \in 1..N /\ k + 1 # i /\ list[k + 1] = x
        BY <1>1, <1>3, <1>7, <3>0, <3>2
      <4> QED
        BY <2>5, <3>2, <4>1
    <3> QED
      BY <3>1, <3>2
  <2>7. \A k, m \in A : f[k] = f[m] => k = m
    BY <1>1, <1>3, <2>4
  <2>8. \A n \in B : \E k \in A : f[k] = n
    <3> SUFFICES ASSUME NEW n \in B PROVE \E k \in A : f[k] = n
      OBVIOUS
    <3>1. CASE n < i
      <4>0. n \in 1..N /\ list[n] = x
        BY <2>5
      <4>1. n \in 1..(N - 1) /\ t[n] = x
        BY <1>1, <1>3, <1>7, <3>1, <4>0
      <4>2. n \in A
        BY <4>1 DEF A, Places
      <4> QED
        BY <3>1, <4>2
    <3>2. CASE ~(n < i)
      <4>1. n - 1 \in 1..(N - 1) /\ ~(n - 1 < i) /\ (n - 1) + 1 = n
        BY <1>1, <1>3, <2>5, <3>2
      <4>2. t[n - 1] = x
        BY <1>7, <2>5, <4>1
      <4>3. n - 1 \in A
        BY <4>1, <4>2 DEF A, Places
      <4> QED
        BY <4>1, <4>3
    <3> QED
      BY <3>1, <3>2
  <2>9. Cardinality(A) = Cardinality(B)
    <3> HIDE DEF f
    <3> QED
      BY <2>3, <2>6, <2>7, <2>8, SameSize
  <2>10. Cardinality(B) = IF i \in L THEN Cardinality(L) - 1 ELSE Cardinality(L)
    BY <2>3, FS_RemoveElement DEF B
  <2>11. i \in L <=> x = id
    BY <1>3 DEF Places
  <2> HIDE DEF L
  <2> QED
    BY <2>2, <2>9, <2>10, <2>11
<1> QED
  BY <1>4, <1>7, <1>8 DEF a, b, t

-----------------------------------------------------------------------------
(* The storage                                                                *)

\* Every entry of a table was made of one list, its vector.
OfOneList(table) ==
    table = [k \in DOMAIN table |-> Entry(table[k].links)]

StorageInv == OfOneList(products) /\ OfOneList(categories)

\* What each operation on a table does with entries made of one list.
LEMMA StoreOfOneList ==
    ASSUME NEW table, OfOneList(table), NEW id, NEW list
    PROVE  OfOneList(Store(table, id, list))
BY DEF OfOneList, Store, Entry

LEMMA EraseOfOneList ==
    ASSUME NEW table, OfOneList(table), NEW id
    PROVE  OfOneList(Erase(table, id))
BY DEF OfOneList, Erase, Entry

LEMMA UnlinkAllOfOneList ==
    ASSUME NEW table, OfOneList(table), NEW id, NEW linked
    PROVE  OfOneList(UnlinkAll(table, id, linked))
BY DEF OfOneList, UnlinkAll, Unlink, Entry

LEMMA EditOfOneList ==
    ASSUME NEW table, OfOneList(table), NEW k, NEW list
    PROVE  OfOneList([table EXCEPT ![k] = Entry(list)])
BY DEF OfOneList, Entry

LEMMA LinkOfOneList ==
    ASSUME NEW table, OfOneList(table), NEW k, NEW id
    PROVE  OfOneList([table EXCEPT ![k] = Link(@, id)])
<1>1. CASE k \in DOMAIN table
  <2>1. table[k].ids = table[k].links
    BY <1>1 DEF OfOneList, Entry
  <2>2. Link(table[k], id) = Entry(Append(table[k].links, id))
    BY <2>1 DEF Link, Entry
  <2>3. QED
    BY <2>2, EditOfOneList
<1>2. CASE k \notin DOMAIN table
  BY <1>2 DEF OfOneList
<1>3. QED
  BY <1>1, <1>2

LEMMA UnlinkOneOfOneList ==
    ASSUME NEW table, OfOneList(table), NEW k, NEW id
    PROVE  OfOneList([table EXCEPT ![k] = UnlinkOne(@, id)])
BY DEF OfOneList, UnlinkOne, Entry

LEMMA StorageStep ==
    ASSUME StorageInv, StorageNext \/ UNCHANGED storage
    PROVE  StorageInv'
<1> USE DEF StorageInv
<1>1. ASSUME NEW p \in ProductIds, DeleteProduct(p)
      PROVE  StorageInv'
  BY <1>1, EraseOfOneList, UnlinkAllOfOneList DEF DeleteProduct
<1>2. ASSUME NEW c \in CategoryIds, DeleteCategory(c)
      PROVE  StorageInv'
  BY <1>2, EraseOfOneList, UnlinkAllOfOneList DEF DeleteCategory
<1>3. ASSUME NEW p \in ProductIds, NEW c \in CategoryIds,
             AttachProductToCategory(p, c)
      PROVE  StorageInv'
  <2>1. CASE UNCHANGED storage
    BY <2>1 DEF storage
  <2>2. CASE /\ products' = [products EXCEPT ![p] = Link(@, c)]
             /\ categories' = [categories EXCEPT ![c] = Link(@, p)]
    BY <2>2, LinkOfOneList
  <2>3. QED
    BY <1>3, <2>1, <2>2 DEF AttachProductToCategory
<1>4. ASSUME NEW p \in ProductIds, NEW c \in CategoryIds,
             DetachProductFromCategory(p, c)
      PROVE  StorageInv'
  BY <1>4, UnlinkOneOfOneList DEF DetachProductFromCategory
<1>5. ASSUME NEW given \in GivenIds \cup {0}, NEW list \in AddLists,
             AddProduct(given, list) \/ AddCategory(given, list)
      PROVE  StorageInv'
  BY <1>5, StoreOfOneList DEF AddProduct, AddCategory
<1>6. ASSUME NEW p \in ProductIds, NEW list \in EditLists, EditProduct(p, list)
      PROVE  StorageInv'
  BY <1>6, EditOfOneList DEF EditProduct
<1>7. ASSUME NEW c \in CategoryIds, NEW list \in EditLists, EditCategory(c, list)
      PROVE  StorageInv'
  BY <1>7, EditOfOneList DEF EditCategory
<1>8. CASE UNCHANGED storage
  BY <1>8 DEF storage
<1>9. QED
  BY <1>1, <1>2, <1>3, <1>4, <1>5, <1>6, <1>7, <1>8
     DEF StorageNext, LinkingStep, ListStep

LEMMA StorageStart == StorageInit => StorageInv
BY DEF StorageInit, StorageInv, OfOneList

LEMMA OneListMirrors == StorageInv => MirrorsAgree
BY DEF StorageInv, OfOneList, MirrorsAgree, Entry

-----------------------------------------------------------------------------
(* Types, and the two ends of a link *)

TableOK(table) == \A k \in DOMAIN table : IsEntry(table[k])

\* What each operation on an entry makes of its list.
LEMMA LinkEntry ==
    ASSUME NEW entry, IsEntry(entry), NEW id \in Nat
    PROVE  /\ IsEntry(Link(entry, id))
           /\ \A x : Occurrences(Link(entry, id).links, x) =
                       IF id = x THEN Occurrences(entry.links, x) + 1
                       ELSE Occurrences(entry.links, x)
BY OccurrencesAppend DEF IsEntry, Link

LEMMA UnlinkEntry ==
    ASSUME NEW entry, IsEntry(entry), NEW id
    PROVE  /\ IsEntry(Unlink(entry, id))
           /\ \A x : Occurrences(Unlink(entry, id).links, x) =
                       IF x = id THEN 0 ELSE Occurrences(entry.links, x)
BY WithoutOne DEF IsEntry, Unlink, Entry

LEMMA UnlinkOneEntry ==
    ASSUME NEW entry, IsEntry(entry), NEW id
    PROVE  /\ IsEntry(UnlinkOne(entry, id))
           /\ \A x : Occurrences(UnlinkOne(entry, id).links, x) =
                       IF x = id /\ Occurrences(entry.links, x) # 0
                       THEN Occurrences(entry.links, x) - 1
                       ELSE Occurrences(entry.links, x)
<1>1. entry.links \in Seq(Nat)
  BY DEF IsEntry
<1>2. CASE Contains(entry.links, id)
  <2>1. Occurrences(entry.links, id) # 0
    BY <1>1, <1>2, OccurrencesArePlaces
  <2>2. UnlinkOne(entry, id) = Entry(RemoveFirst(entry.links, id))
    BY <1>2 DEF UnlinkOne
  <2> QED
    BY <1>1, <1>2, <2>1, <2>2, RemoveFirstOne DEF IsEntry, Entry
<1>3. CASE ~Contains(entry.links, id)
  <2>1. Occurrences(entry.links, id) = 0
    BY <1>1, <1>3, OccurrencesArePlaces
  <2> QED
    BY <1>3, <2>1 DEF UnlinkOne
<1> QED
  BY <1>2, <1>3

\* What each operation on a table makes of who lists whom how often.
LEMMA TimesNatural ==
    ASSUME NEW table, TableOK(table), NEW k, NEW x
    PROVE  /\ Times(table, k, x) \in Nat
           /\ k \in DOMAIN table =>
                (Contains(table[k].links, x) <=> Times(table, k, x) # 0)
BY OccurrencesArePlaces DEF TableOK, IsEntry, Times

LEMMA EraseTimes ==
    ASSUME NEW table, TableOK(table), NEW id
    PROVE  /\ TableOK(Erase(table, id))
           /\ \A k, x : Times(Erase(table, id), k, x) =
                          IF k = id THEN 0 ELSE Times(table, k, x)
BY DEF TableOK, Erase, Times

LEMMA UnlinkAllTimes ==
    ASSUME NEW table, TableOK(table), NEW id, NEW linked
    PROVE  /\ TableOK(UnlinkAll(table, id, linked))
           /\ \A k, x : Times(UnlinkAll(table, id, linked), k, x) =
                          IF Contains(linked, k) /\ x = id THEN 0
                          ELSE Times(table, k, x)
<1> DEFINE new == UnlinkAll(table, id, linked)
<1>1. /\ DOMAIN new = DOMAIN table
      /\ \A k \in DOMAIN table :
           new[k] = IF Contains(linked, k) THEN Unlink(table[k], id) ELSE table[k]
  BY DEF UnlinkAll
<1>2. \A k \in DOMAIN table :
        /\ IsEntry(table[k]) /\ IsEntry(Unlink(table[k], id))
        /\ \A x : Occurrences(Unlink(table[k], id).links, x) =
                    IF x = id THEN 0 ELSE Occurrences(table[k].links, x)
  BY UnlinkEntry DEF TableOK
<1> HIDE DEF new
<1>3. TableOK(new)
  BY <1>1, <1>2 DEF TableOK
<1>4. ASSUME NEW k, NEW x
      PROVE  Times(new, k, x) = IF Contains(linked, k) /\ x = id THEN 0
                                ELSE Times(table, k, x)
  BY <1>1, <1>2 DEF Times
<1> QED
  BY <1>3, <1>4 DEF new

\* One table is another but for one entry.
OneEntryChanged(table, new, e, entry) ==
    /\ DOMAIN new = DOMAIN table
    /\ new[e] = entry
    /\ \A k \in DOMAIN table : k # e => new[k] = table[k]

\* Entry e lists id once more, or once less if it did at all; nothing else
\* differs.
OnceMore(table, new, e, id) ==
    \A k, x : Times(new, k, x) =
              IF k = e /\ x = id THEN Times(table, k, x) + 1 ELSE Times(table, k, x)

OnceLess(table, new, e, id) ==
    \A k, x : Times(new, k, x) =
              IF k = e /\ x = id /\ Times(table, k, x) # 0
              THEN Times(table, k, x) - 1
              ELSE Times(table, k, x)

LEMMA LinkTimes ==
    ASSUME NEW table, TableOK(table), NEW e \in DOMAIN table, NEW id \in Nat,
           NEW new, OneEntryChanged(table, new, e, Link(table[e], id))
    PROVE  TableOK(new) /\ OnceMore(table, new, e, id)
<1>1. /\ IsEntry(Link(table[e], id))
      /\ \A x : Occurrences(Link(table[e], id).links, x) =
                  IF id = x THEN Occurrences(table[e].links, x) + 1
                  ELSE Occurrences(table[e].links, x)
  BY LinkEntry DEF TableOK
<1>2. TableOK(new)
  BY <1>1 DEF TableOK, OneEntryChanged
<1>3. OnceMore(table, new, e, id)
  BY <1>1 DEF Times, OneEntryChanged, OnceMore
<1> QED
  BY <1>2, <1>3

LEMMA UnlinkOneTimes ==
    ASSUME NEW table, TableOK(table), NEW e \in DOMAIN table, NEW id,
           NEW new, OneEntryChanged(table, new, e, UnlinkOne(table[e], id))
    PROVE  TableOK(new) /\ OnceLess(table, new, e, id)
<1>1. /\ IsEntry(UnlinkOne(table[e], id))
      /\ \A x : Occurrences(UnlinkOne(table[e], id).links, x) =
                  IF x = id /\ Occurrences(table[e].links, x) # 0
                  THEN Occurrences(table[e].links, x) - 1
                  ELSE Occurrences(table[e].links, x)
  BY UnlinkOneEntry DEF TableOK
<1>2. TableOK(new)
  BY <1>1 DEF TableOK, OneEntryChanged
<1>3. OnceLess(table, new, e, id)
  BY <1>1 DEF Times, OneEntryChanged, OnceLess
<1> QED
  BY <1>2, <1>3

\* A list a client sends is stored as it is.
LEMMA ListStepTypes ==
    ASSUME StorageTypeOK, ListStep
    PROVE  StorageTypeOK'
<1>1. \A list \in AddLists \cup EditLists : IsEntry(Entry(list))
  BY StorageAssumption DEF IsEntry, Entry
<1>2. ASSUME NEW given \in GivenIds \cup {0}, NEW list \in AddLists,
             AddProduct(given, list) \/ AddCategory(given, list)
      PROVE  StorageTypeOK'
  BY <1>1, <1>2 DEF AddProduct, AddCategory, Store, StorageTypeOK
<1>3. ASSUME NEW p \in ProductIds, NEW list \in EditLists, EditProduct(p, list)
      PROVE  StorageTypeOK'
  BY <1>1, <1>3 DEF EditProduct, StorageTypeOK
<1>4. ASSUME NEW c \in CategoryIds, NEW list \in EditLists, EditCategory(c, list)
      PROVE  StorageTypeOK'
  BY <1>1, <1>4 DEF EditCategory, StorageTypeOK
<1> QED
  BY <1>2, <1>3, <1>4 DEF ListStep

\* Deleting leaves no trace on either side of the links of what is deleted.
LEMMA DeleteLinks ==
    ASSUME StorageTypeOK,
           NEW p \in ProductIds, DeleteProduct(p)
    PROVE  StorageTypeOK' /\ (Symmetric => Symmetric')
<1>1. TableOK(products) /\ TableOK(categories)
  BY DEF StorageTypeOK, TableOK
<1>2. /\ p \in DOMAIN products
      /\ categories' = UnlinkAll(categories, p, products[p].links)
      /\ products' = Erase(products, p)
  BY DEF DeleteProduct
<1>3. /\ TableOK(products')
      /\ \A k, x : Times(products', k, x) =
                     IF k = p THEN 0 ELSE Times(products, k, x)
  BY <1>1, <1>2, EraseTimes
<1>4. /\ TableOK(categories')
      /\ \A k, x : Times(categories', k, x) =
                     IF Contains(products[p].links, k) /\ x = p THEN 0
                     ELSE Times(categories, k, x)
  BY <1>1, <1>2, UnlinkAllTimes
<1>5. \A c : Contains(products[p].links, c) <=> Times(products, p, c) # 0
  BY <1>1, <1>2, TimesNatural
<1>6. StorageTypeOK'
  BY <1>2, <1>3, <1>4 DEF StorageTypeOK, TableOK, Erase, UnlinkAll
<1>7. ASSUME Symmetric PROVE Symmetric'
  BY <1>3, <1>4, <1>5, <1>7 DEF Symmetric
<1> QED
  BY <1>6, <1>7

LEMMA DeleteCategoryLinks ==
    ASSUME StorageTypeOK,
           NEW c \in CategoryIds, DeleteCategory(c)
    PROVE  StorageTypeOK' /\ (Symmetric => Symmetric')
<1>1. TableOK(products) /\ TableOK(categories)
  BY DEF StorageTypeOK, TableOK
<1>2. /\ c \in DOMAIN categories
      /\ products' = UnlinkAll(products, c, categories[c].links)
      /\ categories' = Erase(categories, c)
  BY DEF DeleteCategory
<1>3. /\ TableOK(categories')
      /\ \A k, x : Times(categories', k, x) =
                     IF k = c THEN 0 ELSE Times(categories, k, x)
  BY <1>1, <1>2, EraseTimes
<1>4. /\ TableOK(products')
      /\ \A k, x : Times(products', k, x) =
                     IF Contains(categories[c].links, k) /\ x = c THEN 0
                     ELSE Times(products, k, x)
  BY <1>1, <1>2, UnlinkAllTimes
<1>5. \A p : Contains(categories[c].links, p) <=> Times(categories, c, p) # 0
  BY <1>1, <1>2, TimesNatural
<1>6. StorageTypeOK'
  BY <1>2, <1>3, <1>4 DEF StorageTypeOK, TableOK, Erase, UnlinkAll
<1>7. ASSUME Symmetric PROVE Symmetric'
  BY <1>3, <1>4, <1>5, <1>7 DEF Symmetric
<1> QED
  BY <1>6, <1>7

\* Attaching adds one occurrence at both ends, detaching takes one away.
LEMMA AttachLinks ==
    ASSUME StorageTypeOK, NEW p \in ProductIds, NEW c \in CategoryIds,
           AttachProductToCategory(p, c)
    PROVE  StorageTypeOK' /\ (Symmetric => Symmetric')
<1>1. TableOK(products) /\ TableOK(categories) /\ p \in Nat /\ c \in Nat
  BY StorageAssumption DEF StorageTypeOK, TableOK, ProductIds, CategoryIds
<1>2. CASE UNCHANGED storage
  BY <1>2 DEF storage, StorageTypeOK, Symmetric
<1>3. CASE ~UNCHANGED storage
  <2>1. /\ p \in DOMAIN products /\ c \in DOMAIN categories
        /\ products' = [products EXCEPT ![p] = Link(@, c)]
        /\ categories' = [categories EXCEPT ![c] = Link(@, p)]
    BY <1>3 DEF AttachProductToCategory, BothExist
  <2>2. /\ OneEntryChanged(products, products', p, Link(products[p], c))
        /\ OneEntryChanged(categories, categories', c, Link(categories[c], p))
    BY <2>1 DEF OneEntryChanged
  <2>3. TableOK(products') /\ OnceMore(products, products', p, c)
    BY <1>1, <2>1, <2>2, LinkTimes
  <2>4. TableOK(categories') /\ OnceMore(categories, categories', c, p)
    BY <1>1, <2>1, <2>2, LinkTimes
  <2>5. StorageTypeOK'
    BY <2>2, <2>3, <2>4 DEF StorageTypeOK, TableOK, OneEntryChanged
  <2>6. ASSUME Symmetric PROVE Symmetric'
    BY <2>3, <2>4, <2>6 DEF Symmetric, OnceMore
  <2> QED
    BY <2>5, <2>6
<1> QED
  BY <1>2, <1>3

LEMMA DetachLinks ==
    ASSUME StorageTypeOK, NEW p \in ProductIds, NEW c \in CategoryIds,
           DetachProductFromCategory(p, c)
    PROVE  StorageTypeOK' /\ (Symmetric => Symmetric')
<1>1. /\ TableOK(products) /\ TableOK(categories)
      /\ p \in DOMAIN products /\ c \in DOMAIN categories
      /\ products' = [products EXCEPT ![p] = UnlinkOne(@, c)]
      /\ categories' = [categories EXCEPT ![c] = UnlinkOne(@, p)]
  BY DEF StorageTypeOK, TableOK, DetachProductFromCategory, BothExist
<1>2. /\ OneEntryChanged(products, products', p, UnlinkOne(products[p], c))
      /\ OneEntryChanged(categories, categories', c, UnlinkOne(categories[c], p))
  BY <1>1 DEF OneEntryChanged
<1>3. TableOK(products') /\ OnceLess(products, products', p, c)
  BY <1>1, <1>2, UnlinkOneTimes
<1>4. TableOK(categories') /\ OnceLess(categories, categories', c, p)
  BY <1>1, <1>2, UnlinkOneTimes
<1>5. StorageTypeOK'
  BY <1>2, <1>3, <1>4 DEF StorageTypeOK, TableOK, OneEntryChanged
<1>6. ASSUME Symmetric PROVE Symmetric'
  BY <1>3, <1>4, <1>6 DEF Symmetric, OnceLess
<1> QED
  BY <1>5, <1>6

LEMMA LinkingStepKeeps ==
    ASSUME StorageTypeOK, LinkingStep
    PROVE  StorageTypeOK' /\ (Symmetric => Symmetric')
BY DeleteLinks, DeleteCategoryLinks, AttachLinks, DetachLinks DEF LinkingStep

LEMMA StorageTypeStep ==
    ASSUME StorageTypeOK, StorageNext \/ UNCHANGED storage
    PROVE  StorageTypeOK'
<1>1. CASE UNCHANGED storage
  BY <1>1 DEF storage, StorageTypeOK
<1> QED
  BY <1>1, LinkingStepKeeps, ListStepTypes DEF StorageNext

LEMMA StorageTypeStart == StorageInit => StorageTypeOK
BY DEF StorageInit, StorageTypeOK

-----------------------------------------------------------------------------
(* The service                                                                *)

Tables == {"product", "category"}

\* The entry a call is going to look up exists, unless a delete overtook it.
InStoreOrRaced ==
    \A u \in Clients :
      call[u] # NoCall =>
        /\ call[u].table \in Tables
        /\ Exists(call[u].table, call[u].id) \/ raced[u]

ServiceInv ==
    /\ StorageInv
    /\ DOMAIN call = Clients
    /\ DOMAIN status = Clients
    /\ DOMAIN changed = Clients
    /\ raced \in [Clients -> BOOLEAN]
    /\ InStoreOrRaced
    /\ OnlyDeletesLoseEntries

\* A change that keeps what is stored, and stores what it will look up,
\* preserves the invariant.
LEMMA ChangeKeeps ==
    ASSUME ServiceInv, StorageInv',
           NEW u \in Clients, NEW table, table \in Tables,
           NEW id, NEW missing,
           LookUpNext(u, table, id, missing),
           DOMAIN products \subseteq DOMAIN products',
           DOMAIN categories \subseteq DOMAIN categories',
           Exists(table, id)'
    PROVE  ServiceInv'
<1>0. \A t, k : Exists(t, k) => Exists(t, k)'
  BY DEF Exists
<1>1. /\ DOMAIN call' = Clients
      /\ DOMAIN status' = Clients
      /\ DOMAIN changed' = Clients
      /\ raced' \in [Clients -> BOOLEAN]
  BY DEF ServiceInv, LookUpNext
<1>2. call'[u] # NoCall
  BY DEF ServiceInv, LookUpNext, NoCall, Tables
<1>3. InStoreOrRaced'
  <2> SUFFICES ASSUME NEW v \in Clients, call'[v] # NoCall
               PROVE  /\ call'[v].table \in Tables
                      /\ Exists(call[v].table, call[v].id)' \/ raced'[v]
    BY DEF InStoreOrRaced
  <2>1. CASE v = u
    <3>1. call'[v].table = table /\ call'[v].id = id
      BY <2>1 DEF ServiceInv, LookUpNext
    <3>2. QED
      BY <3>1 DEF Exists
  <2>2. CASE v # u
    <3>1. call'[v] = call[v] /\ raced'[v] = raced[v]
      BY <2>2 DEF ServiceInv, LookUpNext
    <3>2. /\ call[v].table \in Tables
          /\ Exists(call[v].table, call[v].id) \/ raced[v]
      BY <3>1 DEF ServiceInv, InStoreOrRaced
    <3>3. QED
      BY <1>0, <3>1, <3>2 DEF Exists
  <2>3. QED
    BY <2>1, <2>2
<1>4. OnlyDeletesLoseEntries'
  BY <1>2 DEF ServiceInv, LookUpNext, OnlyDeletesLoseEntries
<1>5. QED
  BY <1>1, <1>3, <1>4 DEF ServiceInv

\* Deleting an entry marks the calls that are going to look it up.
LEMMA OvertakeKeeps ==
    ASSUME ServiceInv, StorageInv',
           NEW u \in Clients, call[u] = NoCall,
           NEW table, table \in Tables, NEW id,
           Overtake(u, table, id),
           "product" # table => DOMAIN products' = DOMAIN products,
           "category" # table => DOMAIN categories' = DOMAIN categories,
           DOMAIN products \subseteq DOMAIN products' \cup {id},
           DOMAIN categories \subseteq DOMAIN categories' \cup {id}
    PROVE  ServiceInv'
<1>1. /\ DOMAIN call' = Clients
      /\ DOMAIN status' = Clients
      /\ DOMAIN changed' = Clients
      /\ raced' \in [Clients -> BOOLEAN]
  BY DEF ServiceInv, Overtake
<1>2. \A v \in Clients : call'[v] = call[v] /\ (raced[v] => raced'[v])
  BY DEF Overtake
<1>3. InStoreOrRaced'
  <2> SUFFICES ASSUME NEW v \in Clients, call'[v] # NoCall
               PROVE  /\ call'[v].table \in Tables
                      /\ Exists(call[v].table, call[v].id)' \/ raced'[v]
    BY DEF InStoreOrRaced
  <2>1. /\ call[v].table \in Tables
        /\ Exists(call[v].table, call[v].id) \/ raced[v]
    BY <1>2 DEF ServiceInv, InStoreOrRaced
  <2>2. CASE call[v].table = table /\ call[v].id = id
    BY <1>2, <2>1, <2>2 DEF Overtake
  <2>3. CASE ~(call[v].table = table /\ call[v].id = id)
    BY <1>2, <2>1, <2>3 DEF Exists, Tables
  <2>4. QED
    BY <2>2, <2>3
<1>4. OnlyDeletesLoseEntries'
  BY <1>2 DEF ServiceInv, Overtake, OnlyDeletesLoseEntries
<1>5. QED
  BY <1>1, <1>3, <1>4 DEF ServiceInv

\* Adding, editing, attaching and detaching take no entry out of a table.
LEMMA ChangeGrows ==
    ASSUME NEW u \in Clients, ServiceInv, StorageInv', Change(u)
    PROVE  ServiceInv'
<1>1. ASSUME NEW given \in GivenIds \cup {0}, NEW list \in AddLists,
             CallAddProduct(u, given, list)
      PROVE  ServiceInv'
  <2>0. PICK id : id = NewId(products, given)
    OBVIOUS
  <2>1. LookUpNext(u, "product", id, "INTERNAL")
    BY <1>1, <2>0 DEF CallAddProduct, ReturnedId
  <2>2. /\ DOMAIN products' = DOMAIN products \cup {id}
        /\ categories' = categories
    BY <1>1, <2>0 DEF CallAddProduct, AddProduct, Store
  <2>3. Exists("product", id)'
    BY <2>2 DEF Exists
  <2>4. QED
    BY <2>1, <2>2, <2>3, ChangeKeeps DEF Tables
<1>2. ASSUME NEW given \in GivenIds \cup {0}, NEW list \in AddLists,
             CallAddCategory(u, given, list)
      PROVE  ServiceInv'
  <2>0. PICK id : id = NewId(categories, given)
    OBVIOUS
  <2>1. LookUpNext(u, "category", id, "INTERNAL")
    BY <1>2, <2>0 DEF CallAddCategory, ReturnedId
  <2>2. /\ DOMAIN categories' = DOMAIN categories \cup {id}
        /\ products' = products
    BY <1>2, <2>0 DEF CallAddCategory, AddCategory, Store
  <2>3. Exists("category", id)'
    BY <2>2 DEF Exists
  <2>4. QED
    BY <2>1, <2>2, <2>3, ChangeKeeps DEF Tables
<1>3. ASSUME NEW p \in ProductIds, NEW list \in EditLists,
             CallEditProduct(u, p, list)
      PROVE  ServiceInv'
  <2>1. /\ DOMAIN products' = DOMAIN products
        /\ categories' = categories
        /\ p \in DOMAIN products
    BY <1>3 DEF CallEditProduct, EditProduct
  <2>2. Exists("product", p)'
    BY <2>1 DEF Exists
  <2>3. QED
    BY <1>3, <2>1, <2>2, ChangeKeeps DEF CallEditProduct, Tables
<1>4. ASSUME NEW c \in CategoryIds, NEW list \in EditLists,
             CallEditCategory(u, c, list)
      PROVE  ServiceInv'
  <2>1. /\ DOMAIN categories' = DOMAIN categories
        /\ products' = products
        /\ c \in DOMAIN categories
    BY <1>4 DEF CallEditCategory, EditCategory
  <2>2. Exists("category", c)'
    BY <2>1 DEF Exists
  <2>3. QED
    BY <1>4, <2>1, <2>2, ChangeKeeps DEF CallEditCategory, Tables
<1>5. ASSUME NEW p \in ProductIds, NEW c \in CategoryIds,
             CallAttach(u, p, c) \/ CallDetach(u, p, c)
      PROVE  ServiceInv'
  <2>1. /\ DOMAIN products' = DOMAIN products
        /\ DOMAIN categories' = DOMAIN categories
        /\ c \in DOMAIN categories
    BY <1>5 DEF CallAttach, CallDetach, AttachProductToCategory,
                DetachProductFromCategory, BothExist, storage
  <2>2. Exists("category", c)'
    BY <2>1 DEF Exists
  <2>3. QED
    BY <1>5, <2>1, <2>2, ChangeKeeps DEF CallAttach, CallDetach, Tables
<1>6. QED
  BY <1>1, <1>2, <1>3, <1>4, <1>5 DEF Change

LEMMA DeleteMarks ==
    ASSUME NEW u \in Clients, ServiceInv, StorageInv', Delete(u)
    PROVE  ServiceInv'
<1>1. ASSUME NEW p \in ProductIds, CallDeleteProduct(u, p)
      PROVE  ServiceInv'
  <2>1. /\ DOMAIN products' = DOMAIN products \ {p}
        /\ DOMAIN categories' = DOMAIN categories
    BY <1>1 DEF CallDeleteProduct, DeleteProduct, Erase, UnlinkAll
  <2>2. QED
    BY <1>1, <2>1, OvertakeKeeps DEF CallDeleteProduct, Tables
<1>2. ASSUME NEW c \in CategoryIds, CallDeleteCategory(u, c)
      PROVE  ServiceInv'
  <2>1. /\ DOMAIN categories' = DOMAIN categories \ {c}
        /\ DOMAIN products' = DOMAIN products
    BY <1>2 DEF CallDeleteCategory, DeleteCategory, Erase, UnlinkAll
  <2>2. QED
    BY <1>2, <2>1, OvertakeKeeps DEF CallDeleteCategory, Tables
<1>3. QED
  BY <1>1, <1>2 DEF Delete

\* Every change of the tables is one of the storage's own steps.
LEMMA ServiceStepsStorage ==
    ASSUME NEW u \in Clients,
           Change(u) \/ Refuse(u) \/ Delete(u) \/ LookUp(u)
    PROVE  StorageNext \/ UNCHANGED storage
BY DEF Change, Refuse, Delete, LookUp, CallAddProduct, CallAddCategory,
       CallEditProduct, CallEditCategory, CallAttach, CallDetach,
       CallDeleteProduct, CallDeleteCategory, StorageNext, LinkingStep, ListStep

LEMMA ServiceStart == ServiceInit => ServiceInv
BY StorageStart
   DEF ServiceInit, ServiceInv, InStoreOrRaced, OnlyDeletesLoseEntries

LEMMA ServiceStep ==
    ASSUME ServiceInv, [ServiceNext]_serviceVars
    PROVE  ServiceInv'
<1>1. ASSUME NEW u \in Clients,
             Change(u) \/ Refuse(u) \/ Delete(u) \/ LookUp(u)
      PROVE  ServiceInv'
  <2>1. StorageInv'
    BY <1>1, ServiceStepsStorage, StorageStep DEF ServiceInv
  <2>2. CASE Change(u)
    BY <2>1, <2>2, ChangeGrows
  <2>3. CASE Delete(u)
    BY <2>1, <2>3, DeleteMarks
  <2>4. CASE Refuse(u)
    BY <2>1, <2>4 DEF ServiceInv, Refuse, storage, InStoreOrRaced, Exists,
                      OnlyDeletesLoseEntries
  <2>5. CASE LookUp(u)
    BY <2>1, <2>5 DEF ServiceInv, LookUp, storage, InStoreOrRaced, Exists,
                      OnlyDeletesLoseEntries
  <2>6. QED
    BY <1>1, <2>2, <2>3, <2>4, <2>5
<1>2. CASE UNCHANGED serviceVars
  BY <1>2 DEF serviceVars, storage, ServiceInv, StorageInv, InStoreOrRaced,
              Exists, OnlyDeletesLoseEntries
<1>3. QED
  BY <1>1, <1>2 DEF ServiceNext

LEMMA ServiceStepIsStorageStep == [ServiceNext]_serviceVars => [StorageNext]_storage
BY ServiceStepsStorage DEF ServiceNext, serviceVars

LEMMA ServiceInvariant == ServiceSpec => []ServiceInv
BY ServiceStart, ServiceStep, PTL DEF ServiceSpec

\* What clients are sent is what the storage works with: no operation changes
\* an entry's vector and leaves the field of its message behind
\* (in_memory_storage.cpp).
THEOREM MessagesMirrorTheVectors == ServiceSpec => []MirrorsAgree
BY ServiceInvariant, OneListMirrors, PTL DEF ServiceInv

\* A handler that made its change answers with an error only if the entry it
\* looks up under its second lock was deleted meanwhile
\* (ecommerce_service_impl.cpp), for any number of parallel calls.
THEOREM LosesToDeletesOnly == ServiceSpec => []OnlyDeletesLoseEntries
BY ServiceInvariant, PTL DEF ServiceInv

\* The service implements the storage: whatever calls run in parallel, the
\* storage sees its own operations, one at a time.
THEOREM ServiceImplementsStorage == ServiceSpec => StorageSpec
<1>1. ServiceInit => StorageInit
  BY DEF ServiceInit
<1> QED
  BY <1>1, ServiceStepIsStorageStep, PTL DEF ServiceSpec, StorageSpec

LEMMA StorageTypeCorrect == StorageSpec => []StorageTypeOK
<1>1. StorageTypeOK /\ [StorageNext]_storage => StorageTypeOK'
  BY StorageTypeStep
<1> QED
  BY <1>1, StorageTypeStart, PTL DEF StorageSpec

\* Every reachable state of the storage is well formed, whatever lists clients
\* send: no operation makes an entry up outside its table's ids, or loses a
\* list's type while it erases from it (in_memory_storage.cpp).
THEOREM TablesStayTyped == ServiceSpec => []StorageTypeOK
BY ServiceImplementsStorage, StorageTypeCorrect, PTL

\* Attaching, detaching and deleting keep the two ends of every link in step,
\* occurrence by occurrence, in tables and lists of every size
\* (in_memory_storage.cpp).
THEOREM LinksHaveTwoEnds == ServiceSpec => LinkingKeepsSymmetry
<1>1. StorageTypeOK => [Symmetric /\ LinkingStep => Symmetric']_storage
  BY LinkingStepKeeps
<1> QED
  BY <1>1, TablesStayTyped, PTL DEF LinkingKeepsSymmetry

=============================================================================
