------------------------- MODULE LibraryServerProofs --------------------------
(* Proofs about the REST library, for any number of clients and books.        *)
(*                                                                            *)
(* The argument about the counts: while a list of authors is being counted,   *)
(* what has been counted and the books of the authors not looked at yet make  *)
(* together the number of books there were, give or take one for each change. *)
(*                                                                            *)
(* The argument about paging: the places of the list up to the last one read, *)
(* and those beyond, taken as sets of books.  A book that leaves or comes     *)
(* moves one of its neighbours at most over the mark between the two.         *)
EXTENDS LibraryServer, FiniteSetTheorems, TLAPS

\* A book's id is its number in the order of additions; a PUT knows its book.
IdsAreNumbers ==
    /\ \A b \in DOMAIN books : books[b].made = b
    /\ \A c \in Clients :
         (call[c].kind = "put" /\ call[c].table = "books") =>
           call[c].id = call[c].made

BooksBy(shelf, todo) == {b \in DOMAIN shelf : shelf[b].author \in todo}

\* What has been counted and what has not come to what there was when the
\* count was begun, give or take one for each change since.
InStep(k, shelf, n) ==
    /\ k.since <= n
    /\ k.total + Cardinality(BooksBy(shelf, k.todo)) <= k.had + (n - k.since)
    /\ k.had - (n - k.since) <= k.total + Cardinality(BooksBy(shelf, k.todo))

CountsInStep ==
    \A c \in Clients :
      call[c].kind = "counting" => InStep(call[c], books, changes)

LibraryInv == LibraryTypeOK /\ IdsAreNumbers /\ CountsInStep

-----------------------------------------------------------------------------
(* Finite sets *)

\* A set of ids below a bound is a finite set of naturals.
LEMMA IdsFinite ==
    ASSUME NEW n \in Nat \ {0}, NEW S \in SUBSET (1..(n - 1))
    PROVE  /\ IsFiniteSet(S)
           /\ S \subseteq Nat \ {0}
           /\ \A T \in SUBSET S : IsFiniteSet(T) /\ Cardinality(T) \in Nat
  <1>1. IsFiniteSet(1..(n - 1))
    BY FS_Interval
  <1>2. IsFiniteSet(S)
    BY <1>1, FS_Subset
  <1>3. S \subseteq Nat \ {0}
    OBVIOUS
  <1> QED
    BY <1>2, <1>3, FS_Subset, FS_CardinalityType

\* Sets that agree but for one element differ by one in size at most.
LEMMA OneApart ==
    ASSUME NEW S, NEW T, NEW x, IsFiniteSet(S), IsFiniteSet(T),
           S \ {x} = T \ {x}
    PROVE  /\ Cardinality(T) <= Cardinality(S) + 1
           /\ Cardinality(S) <= Cardinality(T) + 1
  <1>1. /\ IsFiniteSet(S \ {x}) /\ Cardinality(S \ {x}) \in Nat
        /\ Cardinality(S) \in Nat /\ Cardinality(T) \in Nat
    BY FS_Subset, FS_CardinalityType
  <1>2. Cardinality(S) \in Cardinality(S \ {x})..(Cardinality(S \ {x}) + 1)
    <2>1. CASE x \in S
      <3>1. S = (S \ {x}) \cup {x} /\ x \notin S \ {x}
        BY <2>1
      <3>2. Cardinality(S) = Cardinality(S \ {x}) + 1
        BY <1>1, <3>1, FS_AddElement
      <3> QED
        BY <1>1, <3>2
    <2>2. CASE x \notin S
      <3>1. S \ {x} = S
        BY <2>2
      <3> QED
        BY <1>1, <3>1
    <2> QED
      BY <2>1, <2>2
  <1>3. Cardinality(T) \in Cardinality(S \ {x})..(Cardinality(S \ {x}) + 1)
    <2>1. CASE x \in T
      <3>1. T = (S \ {x}) \cup {x} /\ x \notin S \ {x}
        BY <2>1
      <3>2. Cardinality(T) = Cardinality(S \ {x}) + 1
        BY <1>1, <3>1, FS_AddElement
      <3> QED
        BY <1>1, <3>2
    <2>2. CASE x \notin T
      <3>1. S \ {x} = T
        BY <2>2
      <3> QED
        BY <1>1, <3>1
    <2> QED
      BY <2>1, <2>2
  <1> QED
    BY <1>1, <1>2, <1>3

-----------------------------------------------------------------------------
(* Changes to books *)

\* A shelf that differs from another one in book b only.
Differs(old, new, b) ==
    /\ DOMAIN new \ {b} = DOMAIN old \ {b}
    /\ \A d \in DOMAIN old \ {b} : new[d] = old[d]

Shelf(shelf, n) == DOMAIN shelf \subseteq 1..(n - 1) /\ shelf \in [DOMAIN shelf -> Book]

\* What a client is in the middle of keeps its form, and only those who page
\* notice a change.
LEMMA NoticedForm ==
    ASSUME NEW k \in Call, NEW shelf,
           NEW n \in Nat \ {0}, DOMAIN books \subseteq 1..(n - 1),
           NEW m \in Nat \ {0}, DOMAIN shelf \subseteq 1..(m - 1)
    PROVE  /\ Noticed(k, shelf) \in Call
           /\ Noticed(k, shelf).kind = k.kind
           /\ k.kind # "paging" => Noticed(k, shelf) = k
  <1>1. CASE k.kind # "paging"
    BY <1>1 DEF Noticed
  <1>2. CASE k.kind = "paging"
    <2> DEFINE old == Matching(books, k.genre)
               new == Matching(shelf, k.genre)
    <2>1. old \subseteq DOMAIN books /\ new \subseteq DOMAIN shelf
      BY DEF Matching
    <2>0. \A T \in SUBSET DOMAIN books : IsFiniteSet(T) /\ Cardinality(T) \in Nat
      BY IdsFinite
    <2>2. Cardinality(old \ new) \in Nat
      <3>1. old \ new \in SUBSET DOMAIN books
        BY <2>1
      <3> QED
        BY <3>1, <2>0
    <2>3. Cardinality((new \ old) \cap DOMAIN books) \in Nat
      <3>1. (new \ old) \cap DOMAIN books \in SUBSET DOMAIN books
        OBVIOUS
      <3> QED
        BY <3>1, <2>0
    <2>4. Noticed(k, shelf) =
            [k EXCEPT !.stayed = @ \cap new,
                      !.left = @ + Cardinality(old \ new),
                      !.came = @ + Cardinality((new \ old) \cap DOMAIN books)]
      BY <1>2 DEF Noticed
    <2>5. k \in [kind : {"paging"}, genre : Genres \cup {NoFilter}, limit : 1..MaxLimit,
                 page : Nat \ {0}, seen : SUBSET Nat, again : Nat, done : BOOLEAN,
                 stayed : SUBSET Nat, left : Nat, came : Nat]
      BY <1>2 DEF Call, NoCall
    <2> DEFINE kept == k.stayed \cap new
               gone == k.left + Cardinality(old \ new)
               more == k.came + Cardinality((new \ old) \cap DOMAIN books)
    <2>7. kept \in SUBSET Nat /\ gone \in Nat /\ more \in Nat
      <3> HIDE DEF old, new
      <3> QED
        BY <2>2, <2>3, <2>5
    <2>8. Noticed(k, shelf) =
            [k EXCEPT !.stayed = kept, !.left = gone, !.came = more]
      BY <2>4
    <2> HIDE DEF kept, gone, more
    <2>6. Noticed(k, shelf) \in
            [kind : {"paging"}, genre : Genres \cup {NoFilter}, limit : 1..MaxLimit,
             page : Nat \ {0}, seen : SUBSET Nat, again : Nat, done : BOOLEAN,
             stayed : SUBSET Nat, left : Nat, came : Nat]
      BY <2>5, <2>7, <2>8
    <2> QED
      BY <1>2, <2>6 DEF Call
  <1> QED
    BY <1>1, <1>2

\* A change of one book keeps every client's call and every count in step.
LEMMA ChangeKeeps ==
    ASSUME LibraryInv, NEW c \in Clients, NEW k \in Call, k.kind # "counting",
           NEW shelf, NEW n \in Nat \ {0}, Shelf(shelf, n),
           NEW b, Differs(books, shelf, b), Change(c, shelf, k)
    PROVE  /\ changes' \in Nat
           /\ call' \in [Clients -> Call]
           /\ \A d \in Clients \ {c} : call[d].kind # "paging" => call'[d] = call[d]
           /\ \A d \in Clients \ {c} : call'[d].kind = call[d].kind
           /\ CountsInStep'
  <1>1. /\ nextBookId \in Nat \ {0} /\ DOMAIN books \subseteq 1..(nextBookId - 1)
        /\ call \in [Clients -> Call] /\ changes \in Nat
    BY DEF LibraryInv, LibraryTypeOK
  <1>2. /\ changes' = changes + 1 /\ books' = shelf
        /\ call' = [d \in Clients |-> IF d = c THEN k ELSE Noticed(call[d], shelf)]
    BY DEF Change
  <1>3. DOMAIN shelf \subseteq 1..(n - 1)
    BY DEF Shelf
  <1>4. \A d \in Clients : /\ Noticed(call[d], shelf) \in Call
                           /\ Noticed(call[d], shelf).kind = call[d].kind
                           /\ call[d].kind # "paging" => Noticed(call[d], shelf) = call[d]
    BY <1>1, <1>3, NoticedForm
  <1>5. call' \in [Clients -> Call]
    BY <1>2, <1>4
  <1>6. \A d \in Clients \ {c} : /\ call[d].kind # "paging" => call'[d] = call[d]
                                 /\ call'[d].kind = call[d].kind
    BY <1>2, <1>4
  <1>7. ASSUME NEW d \in Clients, call'[d].kind = "counting"
        PROVE  InStep(call'[d], books', changes')
    <2>1. d # c
      BY <1>2, <1>7
    <2>2. call'[d] = call[d] /\ call[d].kind = "counting"
      BY <1>6, <1>7, <2>1
    <2> DEFINE S == BooksBy(books, call[d].todo)
               T == BooksBy(shelf, call[d].todo)
    <2>3. S \in SUBSET DOMAIN books /\ T \in SUBSET DOMAIN shelf
      BY DEF BooksBy
    <2>4. IsFiniteSet(S) /\ IsFiniteSet(T) /\ Cardinality(S) \in Nat /\ Cardinality(T) \in Nat
      <3>1. \A U \in SUBSET DOMAIN books : IsFiniteSet(U) /\ Cardinality(U) \in Nat
        BY <1>1, IdsFinite
      <3>2. \A U \in SUBSET DOMAIN shelf : IsFiniteSet(U) /\ Cardinality(U) \in Nat
        BY <1>3, IdsFinite
      <3> HIDE DEF S, T
      <3> QED
        BY <2>3, <3>1, <3>2
    <2>5. S \ {b} = T \ {b}
      BY DEF BooksBy, Differs
    <2>6. Cardinality(T) <= Cardinality(S) + 1 /\ Cardinality(S) <= Cardinality(T) + 1
      BY <2>4, <2>5, OneApart
    <2>7. /\ call[d].since <= changes
          /\ call[d].total + Cardinality(S) <= call[d].had + (changes - call[d].since)
          /\ call[d].had - (changes - call[d].since) <= call[d].total + Cardinality(S)
      BY <2>2 DEF LibraryInv, CountsInStep, InStep
    <2>8. call[d].since \in Nat /\ call[d].total \in Nat /\ call[d].had \in Nat
      BY <1>1, <2>2 DEF Call, NoCall
    <2>9. BooksBy(books', call'[d].todo) = T
      BY <1>2, <2>2
    <2> HIDE DEF S, T
    <2> QED
      BY <1>1, <1>2, <2>2, <2>4, <2>6, <2>7, <2>8, <2>9 DEF InStep
  <1>8. CountsInStep'
    BY <1>7 DEF CountsInStep
  <1> QED
    BY <1>1, <1>2, <1>5, <1>6, <1>8

\* The whole of a step that makes `shelf` of the books.
LEMMA ChangeStep ==
    ASSUME LibraryInv, NEW c \in Clients, NEW k \in Call, k.kind # "counting",
           (k.kind = "put" /\ k.table = "books") => k.id = k.made,
           NEW shelf, NEW n \in Nat \ {0}, Shelf(shelf, n), nextBookId' = n,
           \A d \in DOMAIN shelf : shelf[d].made = d /\ shelf[d].author \in authors,
           NEW b, Differs(books, shelf, b), Change(c, shelf, k),
           UNCHANGED <<authors, nextAuthorId>>
    PROVE  LibraryInv'
  <1>1. books' = shelf /\ call'[c] = k
    BY DEF Change
  <1>2. /\ changes' \in Nat /\ call' \in [Clients -> Call] /\ CountsInStep'
        /\ \A d \in Clients \ {c} : call[d].kind # "paging" => call'[d] = call[d]
        /\ \A d \in Clients \ {c} : call'[d].kind = call[d].kind
    BY ChangeKeeps
  <1>3. LibraryTypeOK'
    BY <1>1, <1>2 DEF LibraryInv, LibraryTypeOK, BooksHaveAuthors, Shelf
  <1>4. IdsAreNumbers'
    <2>1. \A d \in DOMAIN books' : books'[d].made = d
      BY <1>1
    <2>2. ASSUME NEW d \in Clients, call'[d].kind = "put", call'[d].table = "books"
          PROVE  call'[d].id = call'[d].made
      <3>1. CASE d = c
        BY <1>1, <2>2, <3>1
      <3>2. CASE d # c
        <4>1. call'[d] = call[d]
          BY <1>2, <2>2, <3>2
        <4> QED
          BY <2>2, <4>1 DEF LibraryInv, IdsAreNumbers
      <3> QED
        BY <3>1, <3>2
    <2> QED
      BY <2>1, <2>2 DEF IdsAreNumbers
  <1> QED
    BY <1>2, <1>3, <1>4 DEF LibraryInv

\* The whole of a step that changes only what one client is in the middle of.
LEMMA CallStep ==
    ASSUME LibraryInv, NEW c \in Clients, NEW k \in Call,
           (k.kind = "put" /\ k.table = "books") => k.id = k.made,
           k.kind = "counting" => InStep(k, books, changes),
           call' = [call EXCEPT ![c] = k],
           UNCHANGED <<authors, books, nextAuthorId, nextBookId, changes>>
    PROVE  LibraryInv'
  <1>1. call \in [Clients -> Call]
    BY DEF LibraryInv, LibraryTypeOK
  <1>2. /\ call' \in [Clients -> Call] /\ call'[c] = k
        /\ \A d \in Clients \ {c} : call'[d] = call[d]
    BY <1>1
  <1>3. LibraryTypeOK'
    BY <1>2 DEF LibraryInv, LibraryTypeOK, BooksHaveAuthors
  <1>4. IdsAreNumbers'
    BY <1>2 DEF LibraryInv, IdsAreNumbers
  <1>5. CountsInStep'
    BY <1>2 DEF LibraryInv, CountsInStep
  <1> QED
    BY <1>3, <1>4, <1>5 DEF LibraryInv

LEMMA NoCallIsCall == NoCall \in Call /\ NoCall.kind = "none"
  BY DEF NoCall, Call

-----------------------------------------------------------------------------
(* The invariant *)

LEMMA InitHolds == Init => LibraryInv
  <1> SUFFICES ASSUME Init PROVE LibraryInv
    OBVIOUS
  <1>1. SeedAuthors \in Nat /\ SeedBooks \in Seq([author : 1..SeedAuthors, genre : Genres])
    BY LibraryAssumption
  <1>2. /\ DOMAIN SeedBooks = 1..Len(SeedBooks) /\ Len(SeedBooks) \in Nat
        /\ \A b \in DOMAIN SeedBooks : SeedBooks[b] \in [author : 1..SeedAuthors, genre : Genres]
    <2> DEFINE Seed == [author : 1..SeedAuthors, genre : Genres]
    <2>1. SeedBooks \in Seq(Seed)
      BY <1>1
    <2> HIDE DEF Seed
    <2>2. /\ DOMAIN SeedBooks = 1..Len(SeedBooks) /\ Len(SeedBooks) \in Nat
          /\ \A b \in DOMAIN SeedBooks : SeedBooks[b] \in Seed
      BY <2>1
    <2> QED
      BY <2>2 DEF Seed
  <1>3. /\ DOMAIN books = DOMAIN SeedBooks
        /\ \A b \in DOMAIN books : /\ books[b] \in Book
                                   /\ books[b].made = b
                                   /\ books[b].author \in authors
    BY <1>1, <1>2 DEF Init, Book
  <1>4. books = [b \in DOMAIN books |-> books[b]]
    BY <1>3 DEF Init
  <1>5. LibraryTypeOK
    BY <1>1, <1>2, <1>3, <1>4, NoCallIsCall DEF Init, LibraryTypeOK, BooksHaveAuthors
  <1>6. IdsAreNumbers /\ CountsInStep
    BY <1>3, NoCallIsCall DEF Init, IdsAreNumbers, CountsInStep
  <1> QED
    BY <1>5, <1>6 DEF LibraryInv

LEMMA PagingHolds ==
    ASSUME LibraryInv, NEW c \in Clients
    PROVE  /\ \A g \in Genres \cup {NoFilter}, l \in Limits :
                StartPaging(c, g, l) => LibraryInv'
           /\ ReadPage(c) => LibraryInv'
  <1>1. /\ call \in [Clients -> Call] /\ nextBookId \in Nat \ {0}
        /\ DOMAIN books \subseteq 1..(nextBookId - 1)
    BY DEF LibraryInv, LibraryTypeOK
  <1>2. /\ DOMAIN books \in SUBSET Nat
        /\ \A T \in SUBSET DOMAIN books : IsFiniteSet(T) /\ Cardinality(T) \in Nat
    BY <1>1, IdsFinite
  <1>3. ASSUME NEW g \in Genres \cup {NoFilter}, NEW l \in Limits, StartPaging(c, g, l)
        PROVE  LibraryInv'
    <2> DEFINE k == [kind |-> "paging", genre |-> g, limit |-> ClampLimit(l),
                     page |-> 1, seen |-> {}, again |-> 0, done |-> FALSE,
                     stayed |-> Matching(books, g), left |-> 0, came |-> 0]
    <2>1. ClampLimit(l) \in 1..MaxLimit
      BY LibraryAssumption DEF ClampLimit
    <2>2. Matching(books, g) \in SUBSET Nat
      BY <1>2 DEF Matching
    <2>3. k \in Call /\ k.kind = "paging"
      BY <2>1, <2>2 DEF Call
    <2>4. /\ call' = [call EXCEPT ![c] = k]
          /\ UNCHANGED <<authors, books, nextAuthorId, nextBookId, changes>>
      BY <1>3 DEF StartPaging
    <2> HIDE DEF k
    <2> QED
      BY <2>3, <2>4, CallStep
  <1>4. ASSUME ReadPage(c)
        PROVE  LibraryInv'
    <2> DEFINE shown == PageOf(call[c].genre, call[c].page, call[c].limit)
               page == call[c].page + 1
               seen == call[c].seen \cup shown
               again == call[c].again + Cardinality(shown \cap call[c].seen)
               done == Cardinality(shown) < call[c].limit
               k == [call[c] EXCEPT !.page = page, !.seen = seen,
                                    !.again = again, !.done = done]
    <2>1. call[c] \in [kind : {"paging"}, genre : Genres \cup {NoFilter},
                       limit : 1..MaxLimit, page : Nat \ {0}, seen : SUBSET Nat,
                       again : Nat, done : BOOLEAN, stayed : SUBSET Nat,
                       left : Nat, came : Nat]
      BY <1>1, <1>4 DEF ReadPage, Call, NoCall
    <2>2. shown \in SUBSET DOMAIN books /\ shown \cap call[c].seen \in SUBSET DOMAIN books
      BY DEF PageOf, Matching
    <2>3. Cardinality(shown \cap call[c].seen) \in Nat
      BY <1>2, <2>2
    <2>4. page \in Nat \ {0} /\ seen \in SUBSET Nat /\ again \in Nat /\ done \in BOOLEAN
      <3> HIDE DEF shown
      <3> QED
        BY <1>2, <2>1, <2>2, <2>3
    <2>5. /\ call' = [call EXCEPT ![c] = k]
          /\ UNCHANGED <<authors, books, nextAuthorId, nextBookId, changes>>
      BY <1>1, <1>4 DEF ReadPage
    <2> HIDE DEF shown, page, seen, again, done
    <2>6. k \in Call /\ k.kind = "paging"
      <3>1. k \in [kind : {"paging"}, genre : Genres \cup {NoFilter},
                   limit : 1..MaxLimit, page : Nat \ {0}, seen : SUBSET Nat,
                   again : Nat, done : BOOLEAN, stayed : SUBSET Nat,
                   left : Nat, came : Nat]
        BY <2>1, <2>4
      <3> HIDE DEF k
      <3> QED
        BY <3>1 DEF Call
    <2> HIDE DEF k
    <2> QED
      BY <2>5, <2>6, CallStep
  <1> QED
    BY <1>3, <1>4

\* The steps after which a client is in the middle of nothing.
LEMMA EndHolds ==
    ASSUME LibraryInv, NEW c \in Clients,
           StopPaging(c) \/ ReadBack(c) \/ AnswerCounts(c)
    PROVE  LibraryInv'
  <1>1. /\ call' = [call EXCEPT ![c] = NoCall]
        /\ UNCHANGED <<authors, books, nextAuthorId, nextBookId, changes>>
    BY DEF StopPaging, ReadBack, AnswerCounts
  <1> QED
    BY <1>1, NoCallIsCall, CallStep

LEMMA AddBookHolds ==
    ASSUME LibraryInv, NEW c \in Clients, NEW a \in AuthorIds, NEW g \in Genres,
           AddBook(c, a, g)
    PROVE  LibraryInv'
  <1> DEFINE new == [author |-> a, genre |-> g, made |-> nextBookId]
             shelf == [b \in DOMAIN books \cup {nextBookId} |->
                         IF b = nextBookId THEN new ELSE books[b]]
             n == nextBookId + 1
  <1>1. /\ nextBookId \in Nat \ {0} /\ DOMAIN books \subseteq 1..(nextBookId - 1)
        /\ books \in [DOMAIN books -> Book]
        /\ nextAuthorId \in Nat \ {0} /\ authors \subseteq 1..(nextAuthorId - 1)
        /\ \A b \in DOMAIN books : books[b].made = b /\ books[b].author \in authors
    BY DEF LibraryInv, LibraryTypeOK, IdsAreNumbers, BooksHaveAuthors
  <1>2. /\ a \in authors /\ Change(c, shelf, NoCall) /\ nextBookId' = n
        /\ UNCHANGED <<authors, nextAuthorId>>
    BY DEF AddBook, AuthorExists, NewBookId
  <1>3. new \in Book /\ new.made = nextBookId /\ new.author = a
    BY <1>1, <1>2 DEF Book
  <1> HIDE DEF new
  <1>4. /\ DOMAIN shelf = DOMAIN books \cup {nextBookId} /\ shelf[nextBookId] = new
        /\ nextBookId \notin DOMAIN books
        /\ \A b \in DOMAIN books : shelf[b] = books[b]
    BY <1>1
  <1>5. shelf \in [DOMAIN shelf -> Book]
    BY <1>1, <1>3
  <1> HIDE DEF shelf
  <1>6. n \in Nat \ {0} /\ Shelf(shelf, n)
    BY <1>1, <1>4, <1>5 DEF Shelf
  <1>7. \A d \in DOMAIN shelf : shelf[d].made = d /\ shelf[d].author \in authors
    BY <1>1, <1>2, <1>3, <1>4
  <1>8. Differs(books, shelf, nextBookId)
    BY <1>4 DEF Differs
  <1> HIDE DEF n
  <1> QED
    BY <1>2, <1>6, <1>7, <1>8, NoCallIsCall, ChangeStep

LEMMA UpdateBookHolds ==
    ASSUME LibraryInv, NEW c \in Clients, NEW b \in BookIds, NEW a \in AuthorIds,
           NEW g \in Genres, UpdateBook(c, b, a, g)
    PROVE  LibraryInv'
  <1> DEFINE new == [books[b] EXCEPT !.author = a, !.genre = g]
             shelf == [books EXCEPT ![b] = new]
             k == [kind |-> "put", table |-> "books", id |-> b, made |-> books[b].made]
  <1>1. /\ nextBookId \in Nat \ {0} /\ DOMAIN books \subseteq 1..(nextBookId - 1)
        /\ books \in [DOMAIN books -> Book]
        /\ nextAuthorId \in Nat \ {0} /\ authors \subseteq 1..(nextAuthorId - 1)
        /\ \A d \in DOMAIN books : books[d].made = d /\ books[d].author \in authors
    BY DEF LibraryInv, LibraryTypeOK, IdsAreNumbers, BooksHaveAuthors
  <1>2. /\ a \in authors /\ b \in DOMAIN books /\ Change(c, shelf, k)
        /\ UNCHANGED <<authors, nextAuthorId, nextBookId>>
    BY DEF UpdateBook, AuthorExists
  <1>3. new \in Book /\ new.made = b /\ new.author = a
    <2>1. books[b] \in Book /\ books[b].made = b /\ a \in Nat \ {0}
      BY <1>1, <1>2
    <2> QED
      BY <2>1 DEF Book
  <1>4. k \in Call /\ k.kind = "put" /\ k.id = k.made
    BY <1>1, <1>2 DEF Call
  <1> HIDE DEF new, k
  <1>5. /\ DOMAIN shelf = DOMAIN books /\ shelf[b] = new
        /\ \A d \in DOMAIN books \ {b} : shelf[d] = books[d]
        /\ shelf \in [DOMAIN shelf -> Book]
    BY <1>1, <1>2, <1>3
  <1> HIDE DEF shelf
  <1>6. Shelf(shelf, nextBookId)
    BY <1>1, <1>5 DEF Shelf
  <1>7. \A d \in DOMAIN shelf : shelf[d].made = d /\ shelf[d].author \in authors
    BY <1>1, <1>2, <1>3, <1>5
  <1>8. Differs(books, shelf, b)
    BY <1>5 DEF Differs
  <1> QED
    BY <1>1, <1>2, <1>4, <1>6, <1>7, <1>8, ChangeStep

LEMMA DeleteBookHolds ==
    ASSUME LibraryInv, NEW c \in Clients, NEW b \in BookIds, DeleteBook(c, b)
    PROVE  LibraryInv'
  <1> DEFINE shelf == [d \in DOMAIN books \ {b} |-> books[d]]
  <1>1. /\ nextBookId \in Nat \ {0} /\ DOMAIN books \subseteq 1..(nextBookId - 1)
        /\ books \in [DOMAIN books -> Book]
        /\ \A d \in DOMAIN books : books[d].made = d /\ books[d].author \in authors
    BY DEF LibraryInv, LibraryTypeOK, IdsAreNumbers, BooksHaveAuthors
  <1>2. /\ Change(c, shelf, NoCall)
        /\ UNCHANGED <<authors, nextAuthorId, nextBookId>>
    BY DEF DeleteBook
  <1>3. /\ DOMAIN shelf = DOMAIN books \ {b}
        /\ \A d \in DOMAIN shelf : shelf[d] = books[d]
        /\ shelf \in [DOMAIN shelf -> Book]
    BY <1>1
  <1> HIDE DEF shelf
  <1>4. Shelf(shelf, nextBookId) /\ Differs(books, shelf, b)
    BY <1>1, <1>3 DEF Shelf, Differs
  <1>5. \A d \in DOMAIN shelf : shelf[d].made = d /\ shelf[d].author \in authors
    BY <1>1, <1>3
  <1> QED
    BY <1>1, <1>2, <1>4, <1>5, NoCallIsCall, ChangeStep

LEMMA AuthorsHold ==
    ASSUME LibraryInv, NEW c \in Clients
    PROVE  /\ AddAuthor(c) => LibraryInv'
           /\ \A a \in AuthorIds : UpdateAuthor(c, a) => LibraryInv'
           /\ \A a \in AuthorIds : DeleteAuthor(c, a) => LibraryInv'
  <1>1. /\ nextAuthorId \in Nat \ {0} /\ authors \subseteq 1..(nextAuthorId - 1)
    BY DEF LibraryInv, LibraryTypeOK
  <1>2. ASSUME UNCHANGED <<books, nextBookId, call, changes>>,
               nextAuthorId' \in Nat \ {0}, authors' \subseteq 1..(nextAuthorId' - 1),
               \A b \in DOMAIN books : books[b].author \in authors'
        PROVE  LibraryInv'
    BY <1>2 DEF LibraryInv, LibraryTypeOK, BooksHaveAuthors, IdsAreNumbers, CountsInStep
  <1>3. ASSUME AddAuthor(c)
        PROVE  LibraryInv'
    <2>1. /\ UNCHANGED <<books, nextBookId, call, changes>>
          /\ authors' = authors \cup {nextAuthorId} /\ nextAuthorId' = nextAuthorId + 1
      BY <1>3 DEF AddAuthor
    <2>2. \A b \in DOMAIN books : books[b].author \in authors
      BY DEF LibraryInv, LibraryTypeOK, BooksHaveAuthors
    <2> QED
      BY <1>1, <1>2, <2>1, <2>2
  <1>4. ASSUME NEW a \in AuthorIds, UpdateAuthor(c, a)
        PROVE  LibraryInv'
    <2> DEFINE k == [kind |-> "put", table |-> "authors", id |-> a, made |-> a]
    <2>1. k \in Call /\ k.kind = "put" /\ k.id = k.made
      BY LibraryAssumption DEF Call, AuthorIds
    <2>2. /\ call' = [call EXCEPT ![c] = k]
          /\ UNCHANGED <<authors, books, nextAuthorId, nextBookId, changes>>
      BY <1>4 DEF UpdateAuthor
    <2> HIDE DEF k
    <2> QED
      BY <2>1, <2>2, CallStep
  <1>5. ASSUME NEW a \in AuthorIds, DeleteAuthor(c, a)
        PROVE  LibraryInv'
    <2>1. /\ UNCHANGED <<books, nextBookId, call, changes>>
          /\ authors' = authors \ {a} /\ nextAuthorId' = nextAuthorId
          /\ \A b \in DOMAIN books : books[b].author # a
      BY <1>5 DEF DeleteAuthor, BooksOf
    <2>2. \A b \in DOMAIN books : books[b].author \in authors
      BY DEF LibraryInv, LibraryTypeOK, BooksHaveAuthors
    <2> QED
      BY <1>1, <1>2, <2>1, <2>2
  <1> QED
    BY <1>3, <1>4, <1>5

\* Counting the books of one author moves them from those to be counted to
\* those that were.
LEMMA CountingHolds ==
    ASSUME LibraryInv, NEW c \in Clients
    PROVE  /\ ListAuthors(c) => LibraryInv'
           /\ CountBooks(c) => LibraryInv'
           /\ (\E a \in AuthorIds : GetAuthor(c, a)) => LibraryInv'
  <1>1. /\ call \in [Clients -> Call] /\ nextBookId \in Nat \ {0} /\ changes \in Nat
        /\ DOMAIN books \subseteq 1..(nextBookId - 1)
        /\ nextAuthorId \in Nat \ {0} /\ authors \subseteq 1..(nextAuthorId - 1)
        /\ \A b \in DOMAIN books : books[b].author \in authors
    BY DEF LibraryInv, LibraryTypeOK, BooksHaveAuthors
  <1>2. \A T \in SUBSET DOMAIN books : IsFiniteSet(T) /\ Cardinality(T) \in Nat
    BY <1>1, IdsFinite
  <1>3. ASSUME ListAuthors(c)
        PROVE  LibraryInv'
    <2> DEFINE had == Cardinality(DOMAIN books)
               k == [kind |-> "counting", todo |-> authors, total |-> 0,
                     had |-> had, since |-> changes]
    <2>1. had \in Nat
      BY <1>2
    <2>2. BooksBy(books, authors) = DOMAIN books
      BY <1>1 DEF BooksBy
    <2>3. /\ call' = [call EXCEPT ![c] = k]
          /\ UNCHANGED <<authors, books, nextAuthorId, nextBookId, changes>>
      BY <1>3 DEF ListAuthors
    <2>4. Cardinality(BooksBy(books, authors)) = had
      BY <2>2
    <2> HIDE DEF had
    <2>5. k \in Call /\ k.kind = "counting"
      BY <1>1, <2>1 DEF Call
    <2>6. InStep(k, books, changes)
      BY <1>1, <2>1, <2>4 DEF InStep
    <2> HIDE DEF k
    <2> QED
      BY <2>3, <2>5, <2>6, CallStep
  <1>4. ASSUME CountBooks(c)
        PROVE  LibraryInv'
    <2>1. PICK a \in call[c].todo :
            call' = [call EXCEPT ![c].todo = @ \ {a},
                                 ![c].total = @ + Cardinality(BooksOf(a))]
      BY <1>4 DEF CountBooks
    <2>2. /\ call[c] \in [kind : {"counting"}, todo : SUBSET Nat, total : Nat,
                           had : Nat, since : Nat]
          /\ UNCHANGED <<authors, books, nextAuthorId, nextBookId, changes>>
      BY <1>1, <1>4 DEF CountBooks, Call, NoCall
    <2> DEFINE todo == call[c].todo \ {a}
               mine == BooksOf(a)
               rest == BooksBy(books, todo)
               all == BooksBy(books, call[c].todo)
               total == call[c].total + Cardinality(mine)
               k == [call[c] EXCEPT !.todo = todo, !.total = total]
    <2>3. /\ mine \in SUBSET DOMAIN books /\ rest \in SUBSET DOMAIN books
          /\ all \in SUBSET DOMAIN books
          /\ all = mine \cup rest /\ mine \cap rest = {}
      BY <2>1 DEF BooksOf, BooksBy
    <2>4. call' = [call EXCEPT ![c] = k]
      BY <1>1, <2>1
    <2> HIDE DEF mine, rest, all
    <2>5. /\ IsFiniteSet(mine) /\ IsFiniteSet(rest)
          /\ Cardinality(mine) \in Nat /\ Cardinality(rest) \in Nat
          /\ Cardinality(all) \in Nat
      BY <1>2, <2>3
    <2>6. Cardinality(all) = Cardinality(mine) + Cardinality(rest)
      <3>1. Cardinality(mine \cup rest)
              = Cardinality(mine) + Cardinality(rest) - Cardinality(mine \cap rest)
        BY <2>5, FS_Union
      <3>2. Cardinality(mine \cap rest) = 0
        BY <2>3, FS_EmptySet
      <3> QED
        BY <2>3, <2>5, <3>1, <3>2
    <2>7. InStep(call[c], books, changes)
      BY <1>4 DEF LibraryInv, CountsInStep, CountBooks
    <2>8. /\ todo \in SUBSET Nat /\ total \in Nat
      BY <2>2, <2>5
    <2> HIDE DEF total
    <2>9. /\ k \in [kind : {"counting"}, todo : SUBSET Nat, total : Nat,
                     had : Nat, since : Nat]
          /\ k.todo = todo /\ k.total = total /\ k.had = call[c].had
          /\ k.since = call[c].since
      BY <2>2, <2>8
    <2> HIDE DEF k
    <2>10. k \in Call /\ k.kind = "counting"
      BY <2>9 DEF Call
    <2>11. InStep(k, books, changes)
      <3>1. BooksBy(books, k.todo) = rest /\ BooksBy(books, call[c].todo) = all
        BY <2>9 DEF rest, all
      <3>2. total = call[c].total + Cardinality(mine)
        BY DEF total
      <3> QED
        BY <1>1, <2>2, <2>5, <2>6, <2>7, <2>9, <3>1, <3>2 DEF InStep
    <2> QED
      BY <2>2, <2>4, <2>10, <2>11, CallStep
  <1>5. ASSUME NEW a \in AuthorIds, GetAuthor(c, a)
        PROVE  LibraryInv'
    <2> DEFINE had == Cardinality(BooksOf(a))
               k == [kind |-> "counting", todo |-> {a}, total |-> 0,
                     had |-> had, since |-> changes]
    <2>1. BooksBy(books, {a}) = BooksOf(a) /\ BooksOf(a) \in SUBSET DOMAIN books
      BY DEF BooksBy, BooksOf
    <2>2. had \in Nat /\ Cardinality(BooksBy(books, {a})) = had
      BY <1>2, <2>1
    <2>3. /\ call' = [call EXCEPT ![c] = k]
          /\ UNCHANGED <<authors, books, nextAuthorId, nextBookId, changes>>
      BY <1>5 DEF GetAuthor
    <2> HIDE DEF had
    <2>4. a \in Nat
      BY LibraryAssumption DEF AuthorIds
    <2>5. k \in Call /\ k.kind = "counting"
      BY <1>1, <2>2, <2>4 DEF Call
    <2>6. InStep(k, books, changes)
      BY <1>1, <2>2 DEF InStep
    <2> HIDE DEF k
    <2> QED
      BY <2>3, <2>5, <2>6, CallStep
  <1> QED
    BY <1>3, <1>4, <1>5

LEMMA StepHolds == LibraryInv /\ [Next]_vars => LibraryInv'
  <1> SUFFICES ASSUME LibraryInv, [Next]_vars
               PROVE  LibraryInv'
    OBVIOUS
  <1>1. CASE UNCHANGED vars
    BY <1>1 DEF vars, LibraryInv, LibraryTypeOK, BooksHaveAuthors, IdsAreNumbers, CountsInStep
  <1>2. CASE Next
    <2>1. PICK c \in Clients :
            \/ \E g \in Genres \cup {NoFilter}, l \in Limits : StartPaging(c, g, l)
            \/ ReadPage(c) \/ StopPaging(c)
            \/ \E a \in AuthorIds, g \in Genres : AddBook(c, a, g)
            \/ \E b \in BookIds, a \in AuthorIds, g \in Genres : UpdateBook(c, b, a, g)
            \/ \E b \in BookIds : DeleteBook(c, b)
            \/ AddAuthor(c)
            \/ \E a \in AuthorIds :
                 UpdateAuthor(c, a) \/ DeleteAuthor(c, a) \/ GetAuthor(c, a)
            \/ ReadBack(c)
            \/ ListAuthors(c) \/ CountBooks(c) \/ AnswerCounts(c)
      BY <1>2 DEF Next
    <2> QED
      BY <2>1, PagingHolds, EndHolds, AddBookHolds, UpdateBookHolds, DeleteBookHolds,
         AuthorsHold, CountingHolds
  <1> QED
    BY <1>1, <1>2

LEMMA InvariantHolds == Spec => []LibraryInv
  BY InitHolds, StepHolds, PTL DEF Spec

-----------------------------------------------------------------------------
(* Theorems *)

\* Every book has an author who exists, whatever is added, changed and deleted
\* at once, and ids in use stay below the counters (class Database).
THEOREM TypesAndAuthors == Spec => []LibraryTypeOK
  <1>1. LibraryInv => LibraryTypeOK
    BY DEF LibraryInv
  <1> QED
    BY <1>1, InvariantHolds, PTL

\* PUT of a book, which reads back under a second lock, never answers with
\* another book than the one it updated.
THEOREM PutReadsBackItsBook == Spec => []PutAnswersItsBook
  <1>1. LibraryInv => PutAnswersItsBook
    BY DEF LibraryInv, IdsAreNumbers, PutAnswersItsBook
  <1> QED
    BY <1>1, InvariantHolds, PTL

\* The counts in a list of authors, each taken under a lock of its own, add up
\* to the number of books there were, but for one for each change meanwhile.
THEOREM CountsAddUp == Spec => []CountsOffByChangesOnly
  <1>1. ASSUME LibraryInv, NEW c \in Clients, call[c].kind = "counting", call[c].todo = {}
        PROVE  call[c].total \in (call[c].had - (changes - call[c].since))
                                   ..(call[c].had + (changes - call[c].since))
    <2>1. /\ call[c].total \in Nat /\ call[c].had \in Nat /\ call[c].since \in Nat
          /\ changes \in Nat
      BY <1>1 DEF LibraryInv, LibraryTypeOK, Call, NoCall
    <2>2. InStep(call[c], books, changes)
      BY <1>1 DEF LibraryInv, CountsInStep
    <2>3. BooksBy(books, call[c].todo) = {}
      BY <1>1 DEF BooksBy
    <2>4. Cardinality(BooksBy(books, call[c].todo)) = 0
      BY <2>3, FS_EmptySet
    <2> QED
      BY <2>1, <2>2, <2>4 DEF InStep
  <1>2. LibraryInv => CountsOffByChangesOnly
    BY <1>1 DEF CountsOffByChangesOnly
  <1> QED
    BY <1>2, InvariantHolds, PTL

-----------------------------------------------------------------------------
(* Pages *)

LEMMA WrapFacts ==
    ASSUME NEW x \in Int
    PROVE  Wrap(x) \in Int /\ (x \in 0..IntMax => Wrap(x) = x)
  <1>1. PICK m : m = IntMax + 1
    OBVIOUS
  <1>2. IntMax \in Nat /\ m \in Nat \ {0} /\ x + m \in Int
    <2>1. IntMax \in Nat
      BY LibraryAssumption
    <2> QED
      BY <1>1, <2>1
  <1>3. Wrap(x) = ((x + m) % (2 * m)) - m
    BY <1>1, <1>2 DEF Wrap
  <1>4. (x + m) % (2 * m) \in Int
    BY <1>2
  <1>5. ASSUME x \in 0..IntMax PROVE (x + m) % (2 * m) = x + m
    <2>1. m <= x + m /\ x + m < 2 * m
      BY <1>1, <1>2, <1>5
    <2> QED
      BY <1>2, <2>1
  <1> QED
    BY <1>2, <1>3, <1>4, <1>5

\* The start of a page is never negative, and is where it should be if nothing
\* overflows.
LEMMA StartFacts ==
    ASSUME NEW page \in Nat \ {0}, NEW limit \in Nat \ {0}
    PROVE  /\ Start(page, limit) \in Nat
           /\ page * limit <= IntMax =>
                /\ Start(page, limit) = (page - 1) * limit
                /\ (page - 1) * limit \in Nat
                /\ (page - 1) * limit + limit = page * limit
  <1>1. PICK x : x = (page - 1) * limit
    OBVIOUS
  <1>2. x \in Int
    BY <1>1
  <1>3. Start(page, limit) = IF Wrap(x) < 0 THEN 0 ELSE Wrap(x)
    BY <1>1 DEF Start
  <1>4. Start(page, limit) \in Nat
    BY <1>2, <1>3, WrapFacts
  <1>5. ASSUME page * limit <= IntMax
        PROVE  x \in 0..IntMax /\ x + limit = page * limit
    BY <1>1, <1>5, LibraryAssumption
  <1>6. ASSUME page * limit <= IntMax PROVE Start(page, limit) = x
    <2>1. x \in 0..IntMax /\ Wrap(x) = x
      BY <1>2, <1>5, <1>6, WrapFacts
    <2> QED
      BY <1>3, <2>1
  <1> QED
    BY <1>1, <1>4, <1>5, <1>6

\* The quotient of two numbers is the one multiple between which they lie.
LEMMA Quotient ==
    ASSUME NEW a \in Nat, NEW b \in Nat \ {0}, NEW q \in Nat
    PROVE  a \div b = q <=> b * q <= a /\ a < b * q + b
  <1>1. b * (a \div b) <= a
    OBVIOUS
  <1>2. a < b * (a \div b) + b
    OBVIOUS
  <1>3. ASSUME b * q <= a, a < b * q + b PROVE a \div b = q
    BY <1>3
  <1> QED
    BY <1>1, <1>2, <1>3

\* Each page of a list of n books is the run of it that it should be.
LEMMA PageIsRun ==
    ASSUME NEW n \in 0..MaxBooks, NEW page \in Nat \ {0}, NEW limit \in 1..MaxLimit
    PROVE  /\ PagePositions(n, page, limit) \subseteq 1..n
           /\ Cardinality(PagePositions(n, page, limit)) <= limit
           /\ page * limit <= IntMax =>
                PagePositions(n, page, limit)
                  = {k \in 1..n : (k - 1) \div limit = page - 1}
  <1>0. n \in Nat /\ limit \in Nat \ {0}
    BY LibraryAssumption
  <1>1. PICK start \in Nat : start = Start(page, limit)
    BY <1>0, StartFacts
  <1>2. PICK end \in Nat : end = IF start + limit < n THEN start + limit ELSE n
    BY <1>0
  <1>3. PICK P : P = PagePositions(n, page, limit)
    OBVIOUS
  <1>4. P = IF start >= n THEN {} ELSE (start + 1)..end
    <2>1. CASE start >= n
      BY <1>1, <1>3, <2>1 DEF PagePositions
    <2>2. CASE ~(start >= n)
      <3>1. start + limit \in 0..IntMax
        BY <1>0, <2>2, LibraryAssumption
      <3>2. Wrap(start + limit) = start + limit
        BY <3>1, WrapFacts
      <3> QED
        BY <1>1, <1>2, <1>3, <3>2, <2>2 DEF PagePositions
    <2> QED
      BY <2>1, <2>2
  <1>5. P \subseteq 1..n
    BY <1>0, <1>2, <1>4
  <1>6. Cardinality(P) <= limit
    <2>1. CASE start >= n
      BY <1>0, <1>4, <2>1, FS_EmptySet
    <2>2. CASE ~(start >= n)
      <3>1. /\ start + 1 \in Int /\ end \in Int /\ ~(start + 1 > end)
            /\ end - (start + 1) + 1 <= limit
        BY <1>0, <1>2, <2>2
      <3>2. Cardinality((start + 1)..end) = end - (start + 1) + 1
        BY <3>1, FS_Interval
      <3> QED
        BY <1>4, <2>2, <3>1, <3>2
    <2> QED
      BY <2>1, <2>2
  <1>7. ASSUME page * limit <= IntMax
        PROVE  P = {k \in 1..n : (k - 1) \div limit = page - 1}
    <2>1. start = (page - 1) * limit
      BY <1>0, <1>1, <1>7, StartFacts
    <2>2. ASSUME NEW k \in 1..n
          PROVE  (k - 1) \div limit = page - 1 <=> k \in P
      <3>1. k - 1 \in Nat /\ page - 1 \in Nat /\ limit * (page - 1) = start
        BY <1>0, <2>1
      <3>2. (k - 1) \div limit = page - 1 <=> start <= k - 1 /\ k - 1 < start + limit
        BY <1>0, <3>1, Quotient
      <3>3. k \in P <=> start <= k - 1 /\ k - 1 < start + limit
        BY <1>0, <1>2, <1>4
      <3> QED
        BY <3>2, <3>3
    <2> QED
      BY <1>5, <2>2
  <1> QED
    BY <1>3, <1>5, <1>6, <1>7

LEMMA AllPagesRight == \A n \in 0..MaxBooks : PagesRight[n]
  <1> SUFFICES ASSUME NEW n \in 0..MaxBooks,
                      NEW p \in (-IntMax - 1)..IntMax, NEW l \in 0..(MaxLimit + 1)
               PROVE  LET page == ClampPage(p)
                          limit == ClampLimit(l)
                          positions == PagePositions(n, page, limit)
                      IN  /\ positions \subseteq 1..n
                          /\ Cardinality(positions) <= limit
                          /\ page * limit <= IntMax =>
                               positions = {k \in 1..n : (k - 1) \div limit = page - 1}
    BY DEF PagesRight
  <1>1. ClampPage(p) \in Nat \ {0} /\ ClampLimit(l) \in 1..MaxLimit
    <2>1. /\ IntMax \in Nat /\ MaxLimit \in Nat \ {0} /\ DefaultLimit \in Nat \ {0}
          /\ DefaultLimit <= MaxLimit
      BY LibraryAssumption
    <2>2. p \in Int /\ l \in Int
      BY <2>1
    <2> QED
      BY <2>1, <2>2 DEF ClampPage, ClampLimit
  <1>2. ASSUME NEW page \in Nat \ {0}, NEW limit \in 1..MaxLimit,
               NEW P, P = PagePositions(n, page, limit)
        PROVE  /\ P \subseteq 1..n
               /\ Cardinality(P) <= limit
               /\ page * limit <= IntMax =>
                    P = {k \in 1..n : (k - 1) \div limit = page - 1}
    BY <1>2, PageIsRun
  <1> QED
    BY <1>1, <1>2

\* Ids are given out up to the bound.
IdsBounded == nextBookId <= MaxBooks + 1

LEMMA BookIdsBounded == Spec => []IdsBounded
  <1>1. Init => IdsBounded
    <2>1. Len(SeedBooks) \in Nat /\ Len(SeedBooks) <= MaxBooks /\ MaxBooks \in Nat
      BY LibraryAssumption
    <2> QED
      BY <2>1 DEF Init, IdsBounded
  <1>2. LibraryTypeOK /\ IdsBounded /\ [Next]_vars => IdsBounded'
    <2> SUFFICES ASSUME LibraryTypeOK, IdsBounded, [Next]_vars
                 PROVE  IdsBounded'
      OBVIOUS
    <2>1. nextBookId \in Nat /\ MaxBooks \in Nat
      BY LibraryAssumption DEF LibraryTypeOK
    <2>2. CASE nextBookId' = nextBookId
      BY <2>2 DEF IdsBounded
    <2>3. CASE nextBookId <= MaxBooks /\ nextBookId' = nextBookId + 1
      BY <2>1, <2>3 DEF IdsBounded
    <2>4. CASE UNCHANGED vars
      BY <2>2, <2>4 DEF vars
    <2>5. ASSUME NEW c \in Clients, NEW a, NEW g, AddBook(c, a, g)
          PROVE  IdsBounded'
      BY <2>3, <2>5 DEF AddBook
    <2>6. ASSUME NEW c \in Clients, NEW b, NEW a, NEW g,
                 UpdateBook(c, b, a, g) \/ DeleteBook(c, b)
          PROVE  IdsBounded'
      BY <2>2, <2>6 DEF UpdateBook, DeleteBook
    <2>7. ASSUME NEW c \in Clients, NEW a,
                 AddAuthor(c) \/ UpdateAuthor(c, a) \/ DeleteAuthor(c, a)
          PROVE  IdsBounded'
      BY <2>2, <2>7 DEF AddAuthor, UpdateAuthor, DeleteAuthor
    <2>8. ASSUME NEW c \in Clients, NEW g, NEW l,
                 StartPaging(c, g, l) \/ ReadPage(c) \/ StopPaging(c)
          PROVE  IdsBounded'
      BY <2>2, <2>8 DEF StartPaging, ReadPage, StopPaging
    <2>9. ASSUME NEW c \in Clients,
                 \/ ReadBack(c) \/ ListAuthors(c) \/ CountBooks(c) \/ AnswerCounts(c)
                 \/ \E a \in AuthorIds : GetAuthor(c, a)
          PROVE  IdsBounded'
      BY <2>2, <2>9 DEF ReadBack, ListAuthors, GetAuthor, CountBooks, AnswerCounts
    <2> QED
      BY <2>4, <2>5, <2>6, <2>7, <2>8, <2>9 DEF Next
  <1> QED
    BY <1>1, <1>2, TypesAndAuthors, PTL DEF Spec

\* Whatever page and page size a client sends, GET /books shows a run of the
\* list it found that is within the list and no longer than the page size; the
\* page it should be unless the multiplication in int overflows (main.cpp:243).
\* Lists, limits and ints of every size.
THEOREM PagesShowTheirRun == Spec => []PagesAreRuns
  <1>1. LibraryTypeOK /\ IdsBounded => PagesAreRuns
    <2> SUFFICES ASSUME LibraryTypeOK, IdsBounded,
                        NEW g \in Genres \cup {NoFilter}
                 PROVE  PagesRight[Cardinality(Matching(books, g))]
      BY DEF PagesAreRuns
    <2>1. /\ nextBookId \in Nat \ {0} /\ MaxBooks \in Nat
          /\ Matching(books, g) \in SUBSET (1..(nextBookId - 1))
      BY LibraryAssumption DEF LibraryTypeOK, Matching
    <2>2. /\ IsFiniteSet(1..(nextBookId - 1))
          /\ Cardinality(1..(nextBookId - 1)) = nextBookId - 1
      <3>1. 1 \in Int /\ nextBookId - 1 \in Int
        BY <2>1
      <3>2. Cardinality(1..(nextBookId - 1)) =
              IF 1 > nextBookId - 1 THEN 0 ELSE (nextBookId - 1) - 1 + 1
        BY <3>1, FS_Interval
      <3> QED
        BY <2>1, <3>1, <3>2, FS_Interval
    <2>3. /\ Cardinality(Matching(books, g)) <= nextBookId - 1
          /\ Cardinality(Matching(books, g)) \in Nat
      BY <2>1, <2>2, FS_Subset, FS_CardinalityType
    <2>4. Cardinality(Matching(books, g)) \in 0..MaxBooks
      BY <2>1, <2>3 DEF IdsBounded
    <2> QED
      BY <2>4, AllPagesRight
  <1> QED
    BY <1>1, BookIdsBounded, TypesAndAuthors, PTL

-----------------------------------------------------------------------------
(* Places on a list that is ordered by id                                     *)

Below(F, b) == {a \in F : a <= b}

Position(F, b) == Cardinality(Below(F, b))

\* The part of a list up to its K-th, and what is beyond.
UpTo(F, K) == {b \in F : Position(F, b) <= K}

Beyond(F, K) == {b \in F : Position(F, b) > K}

Ids(F) == F \in SUBSET Nat /\ IsFiniteSet(F)

LEMMA PositionType ==
    ASSUME NEW F, Ids(F), NEW b \in Nat
    PROVE  /\ Below(F, b) \in SUBSET F
           /\ IsFiniteSet(Below(F, b))
           /\ Cardinality(F) \in Nat
           /\ Position(F, b) \in 0..Cardinality(F)
           /\ b \in F => Position(F, b) # 0
  <1>1. Below(F, b) \in SUBSET F /\ IsFiniteSet(F)
    BY DEF Below, Ids
  <1>2. /\ IsFiniteSet(Below(F, b)) /\ Cardinality(Below(F, b)) <= Cardinality(F)
        /\ Cardinality(F) \in Nat /\ Cardinality(Below(F, b)) \in Nat
    BY <1>1, FS_Subset, FS_CardinalityType
  <1>3. ASSUME b \in F PROVE Position(F, b) # 0
    <2>1. b \in Below(F, b)
      BY <1>3 DEF Below
    <2> QED
      BY <1>2, <2>1, FS_EmptySet DEF Position
  <1> QED
    BY <1>1, <1>2, <1>3 DEF Position

LEMMA PositionsInt ==
    ASSUME NEW F, Ids(F)
    PROVE  \A b \in F : b \in Nat /\ Position(F, b) \in Nat /\ Position(F, b) # 0
                        /\ Position(F, b) <= Cardinality(F)
  <1>1. \A b \in F : b \in Nat
    BY DEF Ids
  <1> QED
    BY <1>1, PositionType

\* Places follow the order of ids.
LEMMA PositionsGrow ==
    ASSUME NEW F, Ids(F), NEW a \in F, NEW b \in F, a < b
    PROVE  Position(F, a) < Position(F, b)
  <1>1. a \in Nat /\ b \in Nat
    BY DEF Ids
  <1>2. /\ IsFiniteSet(Below(F, a)) /\ IsFiniteSet(Below(F, b))
        /\ Position(F, a) \in Nat /\ Position(F, b) \in Nat
    BY <1>1, PositionType
  <1>3. /\ b \notin Below(F, a)
        /\ Below(F, a) \cup {b} \in SUBSET Below(F, b)
    <2>1. \A x \in F : x \in Nat
      BY DEF Ids
    <2>2. \A x \in F : x <= a => x <= b
      BY <1>1, <2>1
    <2>3. b <= b /\ ~(b <= a)
      BY <1>1
    <2> QED
      BY <2>2, <2>3 DEF Below
  <1>4. Cardinality(Below(F, a) \cup {b}) = Cardinality(Below(F, a)) + 1
    BY <1>2, <1>3, FS_AddElement
  <1>5. Cardinality(Below(F, a) \cup {b}) <= Cardinality(Below(F, b))
    BY <1>2, <1>3, FS_Subset
  <1> QED
    BY <1>2, <1>4, <1>5 DEF Position

LEMMA OnePerPosition ==
    ASSUME NEW F, Ids(F), NEW a \in F, NEW b \in F, Position(F, a) = Position(F, b)
    PROVE  a = b
  <1>1. a \in Nat /\ b \in Nat /\ Position(F, a) \in Nat /\ Position(F, b) \in Nat
    BY PositionsInt
  <1>2. ~(a < b)
    <2>1. a < b => Position(F, a) < Position(F, b)
      BY PositionsGrow
    <2> QED
      BY <1>1, <2>1
  <1>3. ~(b < a)
    <2>1. b < a => Position(F, b) < Position(F, a)
      BY PositionsGrow
    <2> QED
      BY <1>1, <2>1
  <1> QED
    BY <1>1, <1>2, <1>3

\* Each place of a list is taken.
LEMMA PositionTaken ==
    ASSUME NEW F, Ids(F), NEW p \in 1..Cardinality(F)
    PROVE  \E b \in F : Position(F, b) = p
  <1> DEFINE n == Cardinality(F)
             f == [b \in F |-> Position(F, b)]
  <1>1. IsFiniteSet(F) /\ n \in Nat
    BY FS_CardinalityType DEF Ids
  <1>2. IsFiniteSet(1..n) /\ Cardinality(1..n) = n
    <2>1. 1 \in Int /\ n \in Int
      BY <1>1
    <2>2. Cardinality(1..n) = IF 1 > n THEN 0 ELSE n - 1 + 1
      BY <2>1, FS_Interval
    <2> QED
      BY <1>1, <2>1, <2>2, FS_Interval
  <1>3. \A b \in F : Position(F, b) \in 1..n
    BY <1>1, PositionsInt
  <1>4. f \in [F -> 1..n]
    BY <1>3
  <1>5. \A a, b \in F : f[a] = f[b] => a = b
    BY OnePerPosition
  <1>6. f \in Injection(F, 1..n)
    <2> HIDE DEF f, n
    <2> QED
      BY <1>4, <1>5 DEF Injection, IsInjective
  <1>7. f \in Surjection(F, 1..n)
    <2> HIDE DEF f
    <2> QED
      BY <1>2, <1>6, FS_Injection
  <1>8. \A q \in 1..n : \E b \in F : f[b] = q
    <2> HIDE DEF f, n
    <2> QED
      BY <1>7 DEF Surjection
  <1>9. \E b \in F : f[b] = p
    <2> HIDE DEF f
    <2> QED
      BY <1>8
  <1> QED
    BY <1>9

\* Who comes to a list moves those behind him by one.
LEMMA PositionInsert ==
    ASSUME NEW F, Ids(F), NEW b \in Nat, b \notin F, NEW x \in F
    PROVE  Position(F \cup {b}, x) =
             IF b < x THEN Position(F, x) + 1 ELSE Position(F, x)
  <1>1. x \in Nat /\ x # b
    BY DEF Ids
  <1>2. IsFiniteSet(Below(F, x)) /\ b \notin Below(F, x)
    BY <1>1, PositionType DEF Below
  <1>3. CASE b < x
    <2>1. Below(F \cup {b}, x) = Below(F, x) \cup {b}
      BY <1>1, <1>3 DEF Below
    <2>2. Cardinality(Below(F, x) \cup {b}) = Cardinality(Below(F, x)) + 1
      BY <1>2, FS_AddElement
    <2> QED
      BY <1>3, <2>1, <2>2 DEF Position
  <1>4. CASE ~(b < x)
    <2>1. Below(F \cup {b}, x) = Below(F, x)
      BY <1>1, <1>4 DEF Below
    <2> QED
      BY <1>4, <2>1 DEF Position
  <1> QED
    BY <1>3, <1>4

LEMMA IdsInsert ==
    ASSUME NEW F, Ids(F), NEW b \in Nat
    PROVE  Ids(F \cup {b})
  BY FS_AddElement DEF Ids

\* A set all elements of which are the same.
Same(S) == \A x, y \in S : x = y

LEMMA UpToInsert ==
    ASSUME NEW F, Ids(F), NEW b \in Nat, b \notin F, NEW K \in Nat
    PROVE  /\ UpTo(F \cup {b}, K) \cap F \subseteq UpTo(F, K)
           /\ Same(UpTo(F, K) \ UpTo(F \cup {b}, K))
  <1> DEFINE G == F \cup {b}
  <1>1. \A x \in F : /\ x \in Nat /\ Position(F, x) \in Nat
                     /\ Position(G, x) = IF b < x THEN Position(F, x) + 1
                                         ELSE Position(F, x)
    BY PositionsInt, PositionInsert
  <1>2. UpTo(G, K) \cap F \subseteq UpTo(F, K)
    <2> HIDE DEF G
    <2> QED
      BY <1>1 DEF UpTo
  <1>3. ASSUME NEW x \in UpTo(F, K) \ UpTo(G, K)
        PROVE  x \in F /\ Position(F, x) = K
    <2>1. x \in F /\ x \in G /\ Position(F, x) <= K /\ ~(Position(G, x) <= K)
      BY <1>3 DEF UpTo
    <2> HIDE DEF G
    <2> QED
      BY <1>1, <2>1
  <1>4. Same(UpTo(F, K) \ UpTo(G, K))
    BY <1>3, OnePerPosition DEF Same
  <1> QED
    BY <1>2, <1>4

LEMMA BeyondInsert ==
    ASSUME NEW F, Ids(F), NEW b \in Nat, b \notin F, NEW K \in Nat
    PROVE  /\ Beyond(F, K) \subseteq Beyond(F \cup {b}, K)
           /\ Same(Beyond(F \cup {b}, K) \ Beyond(F, K))
  <1> DEFINE G == F \cup {b}
  <1>1. \A x \in F : /\ x \in Nat /\ Position(F, x) \in Nat
                     /\ Position(G, x) = IF b < x THEN Position(F, x) + 1
                                         ELSE Position(F, x)
    BY PositionsInt, PositionInsert
  <1>2. Ids(G) /\ b \in G
    BY IdsInsert
  <1>3. Beyond(F, K) \subseteq Beyond(G, K)
    <2>1. \A x \in F : x \in G
      OBVIOUS
    <2> HIDE DEF G
    <2> QED
      BY <1>1, <2>1 DEF Beyond
  <1>4. \A x \in Beyond(G, K) \ Beyond(F, K) :
          /\ x \in G /\ Position(G, x) > K
          /\ x # b => /\ x \in F /\ b < x
                      /\ Position(F, x) = K /\ Position(G, x) = K + 1
    <2>1. \A x \in G : x # b => x \in F
      OBVIOUS
    <2> HIDE DEF G
    <2> QED
      BY <1>1, <2>1 DEF Beyond
  <1>5. ASSUME NEW x \in Beyond(G, K) \ Beyond(F, K), x # b
        PROVE  b \notin Beyond(G, K) \ Beyond(F, K)
    <2>1. x \in G /\ b < x /\ Position(G, x) = K + 1
      BY <1>4, <1>5
    <2>2. Position(G, b) < Position(G, x)
      <3> HIDE DEF G
      <3> QED
        BY <1>2, <2>1, PositionsGrow
    <2>3. Position(G, b) \in Nat
      <3> HIDE DEF G
      <3> QED
        BY <1>2, PositionsInt
    <2>4. ~(Position(G, b) > K)
      BY <2>1, <2>2, <2>3
    <2> QED
      BY <1>4, <2>4
  <1>6. ASSUME NEW x \in Beyond(G, K) \ Beyond(F, K),
               NEW y \in Beyond(G, K) \ Beyond(F, K)
        PROVE  x = y
    <2>1. CASE x # b /\ y # b
      <3>1. x \in F /\ y \in F /\ Position(F, x) = Position(F, y)
        BY <1>4, <1>6, <2>1
      <3> QED
        BY <3>1, OnePerPosition
    <2>2. CASE x = b \/ y = b
      BY <1>5, <1>6, <2>2
    <2> QED
      BY <2>1, <2>2
  <1> QED
    BY <1>3, <1>6 DEF Same

\* A new book, at the end, moves nobody.
LEMMA AppendPositions ==
    ASSUME NEW F, Ids(F), NEW b \in Nat, \A x \in F : x < b, NEW K \in Nat
    PROVE  /\ UpTo(F \cup {b}, K) \cap F \subseteq UpTo(F, K)
           /\ Beyond(F \cup {b}, K) \ {b} \subseteq Beyond(F, K)
  <1> DEFINE G == F \cup {b}
  <1>1. b \notin F /\ \A x \in F : ~(b < x)
    BY DEF Ids
  <1>2. \A x \in F : Position(G, x) = Position(F, x)
    BY <1>1, PositionInsert
  <1>3. \A x \in G : x # b => x \in F
    OBVIOUS
  <1> HIDE DEF G
  <1>4. /\ UpTo(G, K) \cap F \subseteq UpTo(F, K)
        /\ Beyond(G, K) \ {b} \subseteq Beyond(F, K)
    BY <1>2, <1>3 DEF UpTo, Beyond
  <1> QED
    BY <1>4 DEF G

-----------------------------------------------------------------------------
(* What a reader of pages misses, and sees again                              *)

\* The books of T, not among those seen, that are on the first K places.
Missed(F, K, T, S) == Cardinality(UpTo(F, K) \cap (T \ S))

\* Those seen that are beyond, and will come again.
Ahead(F, K, S) == Cardinality(Beyond(F, K) \cap S)

Shown(F, K, L) == {b \in F : Position(F, b) \in (K + 1)..(K + L)}

\* With list G in place of F, p more are missed and q more are ahead, at most.
Within(F, G, T, S, p, q) ==
    \A K \in Nat : /\ Missed(G, K, T \cap G, S) <= Missed(F, K, T, S) + p
                   /\ Ahead(G, K, S) <= Ahead(F, K, S) + q

LEMMA PartsFinite ==
    ASSUME NEW F, Ids(F), NEW K, NEW T, NEW S
    PROVE  /\ IsFiniteSet(UpTo(F, K) \cap (T \ S)) /\ IsFiniteSet(Beyond(F, K) \cap S)
           /\ Missed(F, K, T, S) \in Nat /\ Ahead(F, K, S) \in Nat
  <1>1. /\ UpTo(F, K) \cap (T \ S) \in SUBSET F /\ Beyond(F, K) \cap S \in SUBSET F
        /\ IsFiniteSet(F)
    BY DEF UpTo, Beyond, Ids
  <1>2. IsFiniteSet(UpTo(F, K) \cap (T \ S)) /\ IsFiniteSet(Beyond(F, K) \cap S)
    BY <1>1, FS_Subset
  <1> QED
    BY <1>2, FS_CardinalityType DEF Missed, Ahead

\* One element more at most.
LEMMA OneMore ==
    ASSUME NEW X, NEW Y, IsFiniteSet(Y), Same(X \ Y)
    PROVE  /\ IsFiniteSet(X)
           /\ Cardinality(X) \in Nat /\ Cardinality(Y) \in Nat
           /\ Cardinality(X) <= Cardinality(Y) + 1
  <1>1. PICK e : X \ Y \subseteq {e}
    <2>1. CASE X \ Y = {}
      BY <2>1
    <2>2. CASE X \ Y # {}
      <3>1. PICK e \in X \ Y : TRUE
        BY <2>2
      <3>2. X \ Y \subseteq {e}
        BY <3>1 DEF Same
      <3> QED
        BY <3>2
    <2> QED
      BY <2>1, <2>2
  <1>2. X \in SUBSET (Y \cup {e})
    BY <1>1
  <1>3. /\ IsFiniteSet(Y \cup {e}) /\ Cardinality(Y) \in Nat
        /\ Cardinality(Y \cup {e}) <= Cardinality(Y) + 1
    <2>1. Cardinality(Y) \in Nat
      BY FS_CardinalityType
    <2>2. /\ IsFiniteSet(Y \cup {e})
          /\ \/ Cardinality(Y \cup {e}) = Cardinality(Y)
             \/ Cardinality(Y \cup {e}) = Cardinality(Y) + 1
      BY FS_AddElement
    <2> QED
      BY <2>1, <2>2
  <1>4. /\ IsFiniteSet(X) /\ Cardinality(X) <= Cardinality(Y \cup {e})
    BY <1>2, <1>3, FS_Subset
  <1>5. Cardinality(X) \in Nat /\ Cardinality(Y \cup {e}) \in Nat
    BY <1>3, <1>4, FS_CardinalityType
  <1> QED
    BY <1>3, <1>4, <1>5

\* When a book leaves the list, one more is missed, at most.
LEMMA Leaves ==
    ASSUME NEW G, Ids(G), NEW b \in Nat, b \notin G, NEW F, F = G \cup {b},
           NEW T, NEW S
    PROVE  Within(F, G, T, S, 1, 0)
  <1> SUFFICES ASSUME NEW K \in Nat
               PROVE  /\ Missed(G, K, T \cap G, S) <= Missed(F, K, T, S) + 1
                      /\ Ahead(G, K, S) <= Ahead(F, K, S) + 0
    BY DEF Within
  <1>1. Ids(F)
    BY IdsInsert
  <1>2. Same(UpTo(G, K) \ UpTo(F, K)) /\ Beyond(G, K) \subseteq Beyond(F, K)
    BY UpToInsert, BeyondInsert
  <1> DEFINE X == UpTo(G, K) \cap ((T \cap G) \ S)
             Y == UpTo(F, K) \cap (T \ S)
             A == Beyond(G, K) \cap S
             B == Beyond(F, K) \cap S
  <1>3. IsFiniteSet(Y) /\ IsFiniteSet(B)
    BY <1>1, PartsFinite
  <1>4. Same(X \ Y)
    BY <1>2 DEF Same
  <1>5. A \in SUBSET B
    BY <1>2
  <1> HIDE DEF X, Y, A, B
  <1>6. Cardinality(X) <= Cardinality(Y) + 1 /\ Cardinality(A) <= Cardinality(B)
    BY <1>3, <1>4, <1>5, OneMore, FS_Subset
  <1>7. Cardinality(Y) \in Nat /\ Cardinality(B) \in Nat
    BY <1>3, FS_CardinalityType
  <1> QED
    BY <1>6, <1>7 DEF X, Y, A, B, Missed, Ahead

\* When a book comes to it, one more will be seen again, at most.
LEMMA Comes ==
    ASSUME NEW F, Ids(F), NEW b \in Nat, b \notin F, NEW G, G = F \cup {b},
           NEW T, T \subseteq F, NEW S
    PROVE  Within(F, G, T, S, 0, 1)
  <1> SUFFICES ASSUME NEW K \in Nat
               PROVE  /\ Missed(G, K, T \cap G, S) <= Missed(F, K, T, S) + 0
                      /\ Ahead(G, K, S) <= Ahead(F, K, S) + 1
    BY DEF Within
  <1>1. Ids(G)
    BY IdsInsert
  <1>2. UpTo(G, K) \cap F \subseteq UpTo(F, K) /\ Same(Beyond(G, K) \ Beyond(F, K))
    BY UpToInsert, BeyondInsert
  <1> DEFINE X == UpTo(G, K) \cap ((T \cap G) \ S)
             Y == UpTo(F, K) \cap (T \ S)
             A == Beyond(G, K) \cap S
             B == Beyond(F, K) \cap S
  <1>3. IsFiniteSet(Y) /\ IsFiniteSet(B)
    BY PartsFinite
  <1>4. X \in SUBSET Y
    BY <1>2
  <1>5. Same(A \ B)
    BY <1>2 DEF Same
  <1> HIDE DEF X, Y, A, B
  <1>6. Cardinality(X) <= Cardinality(Y) /\ Cardinality(A) <= Cardinality(B) + 1
    BY <1>3, <1>4, <1>5, OneMore, FS_Subset
  <1>7. Cardinality(Y) \in Nat /\ Cardinality(B) \in Nat
    BY <1>3, FS_CardinalityType
  <1> QED
    BY <1>6, <1>7 DEF X, Y, A, B, Missed, Ahead

\* When a new book does, nothing changes.
LEMMA Added ==
    ASSUME NEW F, Ids(F), NEW b \in Nat, \A x \in F : x < b, NEW G, G = F \cup {b},
           NEW T, T \subseteq F, NEW S, b \notin S
    PROVE  Within(F, G, T, S, 0, 0)
  <1> SUFFICES ASSUME NEW K \in Nat
               PROVE  /\ Missed(G, K, T \cap G, S) <= Missed(F, K, T, S) + 0
                      /\ Ahead(G, K, S) <= Ahead(F, K, S) + 0
    BY DEF Within
  <1>1. UpTo(G, K) \cap F \subseteq UpTo(F, K) /\ Beyond(G, K) \ {b} \subseteq Beyond(F, K)
    BY AppendPositions
  <1> DEFINE X == UpTo(G, K) \cap ((T \cap G) \ S)
             Y == UpTo(F, K) \cap (T \ S)
             A == Beyond(G, K) \cap S
             B == Beyond(F, K) \cap S
  <1>2. IsFiniteSet(Y) /\ IsFiniteSet(B)
    BY PartsFinite
  <1>3. X \in SUBSET Y /\ A \in SUBSET B
    BY <1>1
  <1> HIDE DEF X, Y, A, B
  <1>4. Cardinality(X) <= Cardinality(Y) /\ Cardinality(A) <= Cardinality(B)
    BY <1>2, <1>3, FS_Subset
  <1>5. Cardinality(Y) \in Nat /\ Cardinality(B) \in Nat
    BY <1>2, FS_CardinalityType
  <1> QED
    BY <1>4, <1>5 DEF X, Y, A, B, Missed, Ahead

\* Reading the next L places: nothing more is missed, and what is seen again
\* was ahead.
ReadsOn(F, K, L, T, S) ==
    /\ Missed(F, K + L, T, S \cup Shown(F, K, L)) <= Missed(F, K, T, S)
    /\ Ahead(F, K + L, S \cup Shown(F, K, L)) + Cardinality(Shown(F, K, L) \cap S)
         = Ahead(F, K, S)

LEMMA Reads ==
    ASSUME NEW F, Ids(F), NEW K \in Nat, NEW L \in Nat, NEW T, T \subseteq F, NEW S
    PROVE  ReadsOn(F, K, L, T, S)
  <1> DEFINE D == Shown(F, K, L)
             X == UpTo(F, K + L) \cap (T \ (S \cup D))
             Y == UpTo(F, K) \cap (T \ S)
             A == Beyond(F, K + L) \cap (S \cup D)
             B == Beyond(F, K) \cap S
             C == D \cap S
  <1>1. \A b \in F : Position(F, b) \in Nat
    BY PositionsInt
  <1>2. \A b \in F : b \in D <=> Position(F, b) > K /\ Position(F, b) <= K + L
    BY <1>1 DEF Shown
  <1>3. D \subseteq F
    BY DEF Shown
  <1> HIDE DEF D
  <1>4. IsFiniteSet(Y) /\ IsFiniteSet(A) /\ IsFiniteSet(B)
    BY PartsFinite
  <1>5. X \in SUBSET Y
    BY <1>1, <1>2 DEF UpTo
  <1>6. A \cup C = B /\ A \cap C = {}
    BY <1>1, <1>2, <1>3 DEF Beyond
  <1> HIDE DEF X, Y, A, B, C
  <1>7. Cardinality(X) <= Cardinality(Y)
    BY <1>4, <1>5, FS_Subset
  <1>8. C \in SUBSET B
    BY <1>6
  <1>9. IsFiniteSet(C) /\ Cardinality(A) \in Nat /\ Cardinality(C) \in Nat
    BY <1>4, <1>8, FS_Subset, FS_CardinalityType
  <1>10. Cardinality(A \cup C) = Cardinality(A) + Cardinality(C) - Cardinality(A \cap C)
    BY <1>4, <1>9, FS_Union
  <1>11. Cardinality(A \cap C) = 0
    BY <1>6, FS_EmptySet
  <1>12. Cardinality(A) + Cardinality(C) = Cardinality(B)
    BY <1>6, <1>9, <1>10, <1>11
  <1> QED
    BY <1>7, <1>12 DEF X, Y, A, B, C, D, Missed, Ahead, ReadsOn

\* A page that is not full is the last one, and a full one is in the list.
LEMMA LastPage ==
    ASSUME NEW F, Ids(F), NEW K \in Nat, NEW L \in Nat
    PROVE  /\ Cardinality(Shown(F, K, L)) \in Nat
           /\ Cardinality(Shown(F, K, L)) < L => UpTo(F, K + L) = F
           /\ ~(Cardinality(Shown(F, K, L)) < L) => L = 0 \/ K + L <= Cardinality(F)
  <1> DEFINE D == Shown(F, K, L)
             n == Cardinality(F)
             end == IF K + L < n THEN K + L ELSE n
             f == [b \in D |-> Position(F, b)]
  <1>1. /\ D \in SUBSET F /\ IsFiniteSet(D) /\ Cardinality(D) \in Nat /\ n \in Nat
    BY FS_Subset, FS_CardinalityType DEF Shown, Ids
  <1>2. \A b \in F : Position(F, b) \in Nat /\ Position(F, b) # 0 /\ Position(F, b) <= n
    BY PositionsInt
  <1>3. \A b \in F : b \in D <=> Position(F, b) > K /\ Position(F, b) <= K + L
    BY <1>2 DEF Shown
  <1> HIDE DEF D, n
  <1>4. PICK E \in Int : E = end
    BY <1>1
  <1>5. \A b \in D : Position(F, b) \in (K + 1)..E
    BY <1>1, <1>2, <1>3, <1>4
  <1>6. \A p \in (K + 1)..E : \E b \in D : Position(F, b) = p
    <2>1. ASSUME NEW p \in (K + 1)..E PROVE \E b \in D : Position(F, b) = p
      <3>1. p \in 1..n /\ p > K /\ p <= K + L
        BY <1>1, <1>4
      <3>2. PICK b \in F : Position(F, b) = p
        BY <3>1, PositionTaken DEF n
      <3> QED
        BY <1>3, <3>1, <3>2
    <2> QED
      BY <2>1
  <1>7. Cardinality(D) = Cardinality((K + 1)..E)
    <2>1. f \in [D -> (K + 1)..E]
      BY <1>5
    <2>2. \A a, b \in D : f[a] = f[b] => a = b
      BY <1>1, OnePerPosition
    <2>3. \A p \in (K + 1)..E : \E b \in D : f[b] = p
      BY <1>6
    <2> HIDE DEF f
    <2>4. PICK R : R = (K + 1)..E
      OBVIOUS
    <2>5. f \in Bijection(D, R)
      BY <2>1, <2>2, <2>3, <2>4 DEF Bijection, Injection, Surjection, IsInjective
    <2>6. ExistsBijection(D, R)
      BY <2>5 DEF ExistsBijection
    <2> QED
      BY <1>1, <2>4, <2>6, FS_Bijection
  <1>8. Cardinality((K + 1)..E) = IF K + 1 > E THEN 0 ELSE E - (K + 1) + 1
    <2>1. K + 1 \in Int
      OBVIOUS
    <2> QED
      BY <1>4, <2>1, FS_Interval
  <1>9. Cardinality(D) < L => n < K + L
    BY <1>1, <1>4, <1>7, <1>8
  <1>10. ASSUME n < K + L PROVE UpTo(F, K + L) = F
    BY <1>1, <1>2, <1>10 DEF UpTo
  <1>11. ~(Cardinality(D) < L) => L = 0 \/ K + L <= n
    BY <1>1, <1>4, <1>7, <1>8
  <1> QED
    BY <1>1, <1>9, <1>10, <1>11 DEF D, n

-----------------------------------------------------------------------------
(* Paging while the shelf changes.  On the way: the reader's places up to the *)
(* last one read, and those beyond, although books come and go between them.  *)

\* While it reads: of the books in the places read, no more were missed than
\* have left the list; of those in the places to come, no more were seen already,
\* and with them those that were seen again, than have come to it.
PagingInStep(k, shelf, next) ==
    LET found == Matching(shelf, k.genre)
        read == (k.page - 1) * k.limit
    IN  /\ k.seen \subseteq 1..(next - 1)
        /\ k.stayed \subseteq found
        /\ k.done => /\ k.again <= k.came
                     /\ Cardinality(k.stayed \ k.seen) <= k.left
        /\ ~k.done => /\ read <= MaxBooks
                      /\ Missed(found, read, k.stayed, k.seen) <= k.left
                      /\ k.again + Ahead(found, read, k.seen) <= k.came

PagingInv ==
    \A c \in Clients :
      call[c].kind = "paging" => PagingInStep(call[c], books, nextBookId)

PagingCall ==
    [kind : {"paging"}, genre : Genres \cup {NoFilter}, limit : 1..MaxLimit,
     page : Nat \ {0}, seen : SUBSET Nat, again : Nat, done : BOOLEAN,
     stayed : SUBSET Nat, left : Nat, came : Nat]

LEMMA PagingCallIs ==
    ASSUME NEW k \in Call, k.kind = "paging"
    PROVE  k \in PagingCall
  BY DEF Call, NoCall, PagingCall

LEMMA MatchingIds ==
    ASSUME NEW shelf, NEW n \in Nat \ {0}, DOMAIN shelf \subseteq 1..(n - 1), NEW g
    PROVE  /\ Ids(Matching(shelf, g))
           /\ Matching(shelf, g) \subseteq 1..(n - 1)
           /\ Cardinality(Matching(shelf, g)) \in Nat
           /\ Cardinality(Matching(shelf, g)) <= n - 1
  <1>1. Matching(shelf, g) \in SUBSET (1..(n - 1))
    BY DEF Matching
  <1>2. IsFiniteSet(1..(n - 1)) /\ Cardinality(1..(n - 1)) = n - 1
    <2>1. 1 \in Int /\ n - 1 \in Int
      OBVIOUS
    <2>2. Cardinality(1..(n - 1)) = IF 1 > n - 1 THEN 0 ELSE (n - 1) - 1 + 1
      BY <2>1, FS_Interval
    <2> QED
      BY <2>1, <2>2, FS_Interval
  <1>3. /\ IsFiniteSet(Matching(shelf, g))
        /\ Cardinality(Matching(shelf, g)) <= Cardinality(1..(n - 1))
    BY <1>1, <1>2, FS_Subset
  <1>4. Cardinality(Matching(shelf, g)) \in Nat
    BY <1>3, FS_CardinalityType
  <1>5. Matching(shelf, g) \in SUBSET Nat
    BY <1>1
  <1> QED
    BY <1>1, <1>2, <1>3, <1>4, <1>5 DEF Ids

LEMMA ReadIsNat ==
    ASSUME NEW page \in Nat \ {0}, NEW limit \in Nat \ {0}
    PROVE  /\ (page - 1) * limit \in Nat
           /\ ((page + 1) - 1) * limit = (page - 1) * limit + limit
  OBVIOUS

\* As long as the places read fit in an int, the next page is the next places.
LEMMA PageIsShown ==
    ASSUME NEW n \in Nat \ {0}, DOMAIN books \subseteq 1..(n - 1), NEW g,
           NEW page \in Nat \ {0}, NEW limit \in 1..MaxLimit,
           (page - 1) * limit <= MaxBooks
    PROVE  PageOf(g, page, limit)
             = Shown(Matching(books, g), (page - 1) * limit, limit)
  <1>1. PICK F : F = Matching(books, g)
    OBVIOUS
  <1>2. Ids(F)
    BY <1>1, MatchingIds
  <1>3. PICK K \in Nat : K = (page - 1) * limit
    BY ReadIsNat, LibraryAssumption
  <1>4. PICK size \in Nat : size = Cardinality(F)
    BY <1>2, FS_CardinalityType DEF Ids
  <1>5. Start(page, limit) = K
    <2>1. K \in 0..IntMax
      BY <1>3, LibraryAssumption
    <2>2. Wrap(K) = K
      BY <2>1, WrapFacts
    <2> QED
      BY <1>3, <2>1, <2>2 DEF Start
  <1>6. \A b \in F : Position(F, b) \in 1..size
    BY <1>2, <1>4, PositionsInt
  <1>7. \A p \in 1..size :
          p \in PagePositions(size, page, limit) <=> p \in (K + 1)..(K + limit)
    <2>1. K + limit \in 0..IntMax /\ limit \in Nat
      BY <1>3, LibraryAssumption
    <2>2. Wrap(K + limit) = K + limit
      BY <2>1, WrapFacts
    <2> QED
      BY <1>3, <1>4, <1>5, <2>1, <2>2 DEF PagePositions
  <1>8. PageOf(g, page, limit)
          = {b \in F : Position(F, b) \in PagePositions(size, page, limit)}
    BY <1>1, <1>4 DEF PageOf, Position, Below
  <1>9. Shown(F, K, limit) = {b \in F : Position(F, b) \in (K + 1)..(K + limit)}
    BY DEF Shown
  <1>10. PageOf(g, page, limit) = Shown(F, K, limit)
    BY <1>6, <1>7, <1>8, <1>9
  <1> QED
    BY <1>1, <1>3, <1>10

\* The fields of what a reader is in the middle of, after a change.
LEMMA NoticedFields ==
    ASSUME NEW k \in PagingCall, NEW shelf, NEW F, NEW G,
           F = Matching(books, k.genre), G = Matching(shelf, k.genre)
    PROVE  LET m == Noticed(k, shelf) IN
           /\ m.genre = k.genre /\ m.limit = k.limit /\ m.page = k.page
           /\ m.seen = k.seen /\ m.again = k.again /\ m.done = k.done
           /\ m.stayed = k.stayed \cap G
           /\ m.left = k.left + Cardinality(F \ G)
           /\ m.came = k.came + Cardinality((G \ F) \cap DOMAIN books)
  <1>1. k.kind = "paging"
    BY DEF PagingCall
  <1>2. Noticed(k, shelf) =
          [k EXCEPT !.stayed = @ \cap G,
                    !.left = @ + Cardinality(F \ G),
                    !.came = @ + Cardinality((G \ F) \cap DOMAIN books)]
    BY <1>1 DEF Noticed
  <1> QED
    BY <1>2 DEF PagingCall

\* Another list in place of F, as the reader notices it.
LEMMA InStepStays ==
    ASSUME NEW k \in PagingCall, NEW n \in Nat \ {0}, NEW m \in Nat, n <= m,
           NEW old, NEW shelf, PagingInStep(k, old, n), NEW F, NEW G, Ids(F), Ids(G),
           F = Matching(old, k.genre), G = Matching(shelf, k.genre),
           NEW p \in Nat, NEW q \in Nat, Within(F, G, k.stayed, k.seen, p, q),
           NEW j, j.genre = k.genre, j.limit = k.limit, j.page = k.page,
           j.seen = k.seen, j.again = k.again, j.done = k.done,
           j.stayed = k.stayed \cap G, j.left = k.left + p, j.came = k.came + q
    PROVE  PagingInStep(j, shelf, m)
  <1>1. /\ k.limit \in Nat \ {0} /\ k.page \in Nat \ {0} /\ k.again \in Nat
        /\ k.left \in Nat /\ k.came \in Nat /\ k.done \in BOOLEAN
        /\ k.seen \subseteq Nat
    BY DEF PagingCall
  <1>2. PICK K \in Nat : K = (k.page - 1) * k.limit
    BY <1>1, ReadIsNat
  <1>3. /\ k.seen \subseteq 1..(n - 1) /\ k.stayed \subseteq F
        /\ k.done => k.again <= k.came /\ Cardinality(k.stayed \ k.seen) <= k.left
        /\ ~k.done => /\ K <= MaxBooks
                      /\ Missed(F, K, k.stayed, k.seen) <= k.left
                      /\ k.again + Ahead(F, K, k.seen) <= k.came
    BY <1>2 DEF PagingInStep
  <1>4. j.seen \subseteq 1..(m - 1) /\ j.stayed \subseteq G
    BY <1>3
  <1>5. ASSUME k.done
        PROVE  j.again <= j.came /\ Cardinality(j.stayed \ j.seen) <= j.left
    <2>1. /\ j.stayed \ j.seen \in SUBSET (k.stayed \ k.seen)
          /\ k.stayed \ k.seen \in SUBSET F /\ IsFiniteSet(F)
      BY <1>3 DEF Ids
    <2>2. /\ IsFiniteSet(k.stayed \ k.seen) /\ IsFiniteSet(j.stayed \ j.seen)
          /\ Cardinality(j.stayed \ j.seen) <= Cardinality(k.stayed \ k.seen)
      BY <2>1, FS_Subset
    <2>3. Cardinality(j.stayed \ j.seen) \in Nat /\ Cardinality(k.stayed \ k.seen) \in Nat
      BY <2>2, FS_CardinalityType
    <2> QED
      BY <1>1, <1>3, <1>5, <2>2, <2>3
  <1>6. ASSUME ~k.done
        PROVE  /\ Missed(G, K, j.stayed, j.seen) <= j.left
               /\ j.again + Ahead(G, K, j.seen) <= j.came
    <2>1. /\ Missed(G, K, j.stayed, k.seen) \in Nat /\ Ahead(G, K, k.seen) \in Nat
          /\ Missed(F, K, k.stayed, k.seen) \in Nat /\ Ahead(F, K, k.seen) \in Nat
      BY PartsFinite
    <2>2. /\ Missed(G, K, j.stayed, k.seen) <= Missed(F, K, k.stayed, k.seen) + p
          /\ Ahead(G, K, k.seen) <= Ahead(F, K, k.seen) + q
      BY DEF Within
    <2> QED
      BY <1>1, <1>3, <1>6, <2>1, <2>2
  <1> QED
    BY <1>2, <1>3, <1>4, <1>5, <1>6 DEF PagingInStep

\* A change of one book keeps a reader in step: one that leaves the list may be
\* missed for it, one that comes to it may bring another one again.
LEMMA NoticedInStep ==
    ASSUME NEW k \in PagingCall,
           NEW n \in Nat \ {0}, DOMAIN books \subseteq 1..(n - 1),
           PagingInStep(k, books, n),
           NEW shelf, NEW m \in Nat \ {0}, n <= m, DOMAIN shelf \subseteq 1..(m - 1),
           NEW b \in Nat, Differs(books, shelf, b), b \in DOMAIN books \/ b = n
    PROVE  PagingInStep(Noticed(k, shelf), shelf, m)
  <1>1. PICK F : F = Matching(books, k.genre)
    OBVIOUS
  <1>2. PICK G : G = Matching(shelf, k.genre)
    OBVIOUS
  <1>3. Ids(F) /\ Ids(G) /\ F \subseteq 1..(n - 1) /\ F \subseteq DOMAIN books
    BY <1>1, <1>2, MatchingIds DEF Matching
  <1>4. F \ {b} = G \ {b}
    BY <1>1, <1>2 DEF Matching, Differs
  <1>5. PICK T : T = k.stayed
    OBVIOUS
  <1>6. PICK S : S = k.seen
    OBVIOUS
  <1>7. T \subseteq F /\ S \subseteq 1..(n - 1)
    BY <1>1, <1>5, <1>6 DEF PagingInStep
  <1>8. PICK lost : lost = Cardinality(F \ G)
    OBVIOUS
  <1>9. PICK found : found = Cardinality((G \ F) \cap DOMAIN books)
    OBVIOUS
  <1>10. lost \in Nat /\ found \in Nat /\ Within(F, G, T, S, lost, found)
    <2>1. CASE b \in F /\ b \notin G
      <3>1. F = G \cup {b} /\ F \ G = {b} /\ (G \ F) \cap DOMAIN books = {}
        BY <1>4, <2>1
      <3>2. lost = 1 /\ found = 0
        BY <1>8, <1>9, <3>1, FS_Singleton, FS_EmptySet
      <3>3. Within(F, G, T, S, 1, 0)
        BY <1>3, <2>1, <3>1, Leaves
      <3> QED
        BY <3>2, <3>3
    <2>2. CASE b \notin F /\ b \in G /\ b \in DOMAIN books
      <3>1. G = F \cup {b} /\ F \ G = {} /\ (G \ F) \cap DOMAIN books = {b}
        BY <1>4, <2>2
      <3>2. lost = 0 /\ found = 1
        BY <1>8, <1>9, <3>1, FS_Singleton, FS_EmptySet
      <3>3. Within(F, G, T, S, 0, 1)
        BY <1>3, <1>7, <2>2, <3>1, Comes
      <3> QED
        BY <3>2, <3>3
    <2>3. CASE b \notin F /\ b \in G /\ b = n
      <3>1. b \notin DOMAIN books /\ b \notin S /\ \A x \in F : x < b
        BY <1>3, <1>7, <2>3
      <3>2. G = F \cup {b} /\ F \ G = {} /\ (G \ F) \cap DOMAIN books = {}
        BY <1>4, <2>3, <3>1
      <3>3. lost = 0 /\ found = 0
        BY <1>8, <1>9, <3>2, FS_EmptySet
      <3>4. Within(F, G, T, S, 0, 0)
        BY <1>3, <1>7, <3>1, <3>2, Added
      <3> QED
        BY <3>3, <3>4
    <2>4. CASE b \in F <=> b \in G
      <3>1. F = G /\ T \cap G = T
        BY <1>4, <1>7, <2>4
      <3>2. F \ G = {} /\ (G \ F) \cap DOMAIN books = {}
        BY <3>1
      <3>3. lost = 0 /\ found = 0
        BY <1>8, <1>9, <3>2, FS_EmptySet
      <3>4. \A K \in Nat : Missed(F, K, T, S) \in Nat /\ Ahead(F, K, S) \in Nat
        BY <1>3, PartsFinite
      <3>5. ASSUME NEW K \in Nat
            PROVE  /\ Missed(G, K, T \cap G, S) <= Missed(F, K, T, S) + 0
                   /\ Ahead(G, K, S) <= Ahead(F, K, S) + 0
        <4>1. /\ Missed(G, K, T \cap G, S) = Missed(F, K, T, S)
              /\ Ahead(G, K, S) = Ahead(F, K, S)
          BY <3>1
        <4> QED
          BY <3>4, <4>1
      <3>6. Within(F, G, T, S, 0, 0)
        BY <3>5 DEF Within
      <3> QED
        BY <3>3, <3>6
    <2> QED
      BY <2>1, <2>2, <2>3, <2>4
  <1>11. PICK j : j = Noticed(k, shelf)
    OBVIOUS
  <1>12. /\ j.genre = k.genre /\ j.limit = k.limit /\ j.page = k.page
         /\ j.seen = k.seen /\ j.again = k.again /\ j.done = k.done
         /\ j.stayed = k.stayed \cap G
         /\ j.left = k.left + lost
         /\ j.came = k.came + found
    BY <1>1, <1>2, <1>8, <1>9, <1>11, NoticedFields
  <1>13. m \in Nat /\ Within(F, G, k.stayed, k.seen, lost, found)
    BY <1>5, <1>6, <1>10
  <1>14. PagingInStep(j, shelf, m)
    BY <1>1, <1>2, <1>3, <1>10, <1>12, <1>13, InStepStays
  <1> QED
    BY <1>11, <1>14

\* Reading a page keeps a reader in step.
LEMMA ReadInStep ==
    ASSUME NEW k \in PagingCall, ~k.done,
           NEW n \in Nat \ {0}, n <= MaxBooks + 1, DOMAIN books \subseteq 1..(n - 1),
           PagingInStep(k, books, n),
           NEW shown, shown = PageOf(k.genre, k.page, k.limit),
           NEW j, j.genre = k.genre, j.limit = k.limit, j.page = k.page + 1,
           j.seen = k.seen \cup shown,
           j.again = k.again + Cardinality(shown \cap k.seen),
           j.done = (Cardinality(shown) < k.limit),
           j.stayed = k.stayed, j.left = k.left, j.came = k.came
    PROVE  PagingInStep(j, books, n)
  <1>1. /\ k.limit \in Nat \ {0} /\ k.page \in Nat \ {0} /\ k.again \in Nat
        /\ k.left \in Nat /\ k.came \in Nat /\ k.limit \in 1..MaxLimit
    BY DEF PagingCall
  <1>2. PICK K \in Nat : K = (k.page - 1) * k.limit
    BY <1>1, ReadIsNat
  <1>3. PICK L \in Nat \ {0} : L = k.limit
    BY <1>1
  <1>4. PICK F : F = Matching(books, k.genre)
    OBVIOUS
  <1>5. PICK T : T = k.stayed
    OBVIOUS
  <1>6. PICK S : S = k.seen
    OBVIOUS
  <1>7. /\ Ids(F) /\ F \subseteq 1..(n - 1)
        /\ Cardinality(F) \in Nat /\ Cardinality(F) <= n - 1
    BY <1>4, MatchingIds
  <1>8. /\ S \subseteq 1..(n - 1) /\ T \subseteq F /\ K <= MaxBooks
        /\ Missed(F, K, T, S) <= k.left
        /\ k.again + Ahead(F, K, S) <= k.came
    BY <1>2, <1>4, <1>5, <1>6 DEF PagingInStep
  <1>9. shown = Shown(F, K, L)
    BY <1>1, <1>2, <1>3, <1>4, <1>8, PageIsShown
  <1>10. PICK U : U = S \cup shown
    OBVIOUS
  <1>11. PICK e : e = Cardinality(shown \cap S)
    OBVIOUS
  <1>12. /\ Missed(F, K + L, T, U) <= Missed(F, K, T, S)
         /\ Ahead(F, K + L, U) + e = Ahead(F, K, S)
    <2>1. L \in Nat /\ T \subseteq F
      BY <1>3, <1>8
    <2>2. ReadsOn(F, K, L, T, S)
      BY <1>2, <1>7, <2>1, Reads
    <2> QED
      BY <1>9, <1>10, <1>11, <2>2 DEF ReadsOn
  <1>13. /\ Missed(F, K + L, T, U) \in Nat /\ Missed(F, K, T, S) \in Nat
         /\ Ahead(F, K + L, U) \in Nat /\ Ahead(F, K, S) \in Nat
    BY <1>7, PartsFinite
  <1>14. e \in Nat
    <2>1. shown \cap S \in SUBSET F /\ IsFiniteSet(F)
      BY <1>7, <1>9 DEF Shown, Ids
    <2> QED
      BY <1>11, <2>1, FS_Subset, FS_CardinalityType
  <1>15. /\ Cardinality(shown) \in Nat
         /\ Cardinality(shown) < L => UpTo(F, K + L) = F
         /\ ~(Cardinality(shown) < L) => K + L <= Cardinality(F)
    BY <1>3, <1>7, <1>9, LastPage
  <1>16. /\ j.genre = k.genre /\ j.seen = U /\ j.stayed = T
         /\ j.again = k.again + e /\ j.left = k.left /\ j.came = k.came
         /\ j.done <=> Cardinality(shown) < L
    BY <1>3, <1>5, <1>6, <1>10, <1>11
  <1>17. (j.page - 1) * j.limit = K + L
    BY <1>1, <1>2, <1>3, ReadIsNat
  <1>18. shown \subseteq F
    BY <1>9 DEF Shown
  <1>19. U \subseteq 1..(n - 1)
    BY <1>7, <1>8, <1>10, <1>18
  <1>20. Missed(F, K + L, T, U) <= k.left /\ (k.again + e) + Ahead(F, K + L, U) <= k.came
    BY <1>1, <1>8, <1>12, <1>13, <1>14
  <1>21. ASSUME Cardinality(shown) < L
         PROVE  k.again + e <= k.came /\ Cardinality(T \ U) <= k.left
    <2>1. UpTo(F, K + L) \cap (T \ U) = T \ U
      BY <1>8, <1>15, <1>21
    <2>2. Missed(F, K + L, T, U) = Cardinality(T \ U)
      BY <2>1 DEF Missed
    <2>3. k.again + e <= k.came
      BY <1>1, <1>13, <1>14, <1>20
    <2> QED
      BY <1>20, <2>2, <2>3
  <1>22. ASSUME ~(Cardinality(shown) < L)
         PROVE  K + L <= MaxBooks
    <2>1. MaxBooks \in Nat /\ K + L <= Cardinality(F)
      BY <1>15, <1>22, LibraryAssumption
    <2> QED
      BY <1>7, <2>1
  <1> QED
    BY <1>4, <1>8, <1>16, <1>17, <1>19, <1>20, <1>21, <1>22 DEF PagingInStep

\* The whole of a step that makes `shelf` of the books.
LEMMA ChangeInStep ==
    ASSUME LibraryInv, PagingInv, NEW c \in Clients, NEW kk, kk.kind # "paging",
           NEW shelf, NEW b \in Nat, b \in DOMAIN books \/ b = nextBookId,
           Differs(books, shelf, b), Change(c, shelf, kk),
           NEW n \in Nat \ {0}, nextBookId' = n, nextBookId <= n,
           DOMAIN shelf \subseteq 1..(n - 1)
    PROVE  PagingInv'
  <1>1. /\ nextBookId \in Nat \ {0} /\ DOMAIN books \subseteq 1..(nextBookId - 1)
        /\ call \in [Clients -> Call]
    BY DEF LibraryInv, LibraryTypeOK
  <1>2. /\ books' = shelf
        /\ call' = [d \in Clients |-> IF d = c THEN kk ELSE Noticed(call[d], shelf)]
    BY DEF Change
  <1>3. ASSUME NEW d \in Clients, call'[d].kind = "paging"
        PROVE  PagingInStep(call'[d], books', nextBookId')
    <2>1. d # c /\ call'[d] = Noticed(call[d], shelf)
      BY <1>2, <1>3
    <2>2. call[d] \in Call
      BY <1>1
    <2>3. Noticed(call[d], shelf).kind = call[d].kind
      BY <1>1, <2>2, NoticedForm
    <2>4. call[d].kind = "paging" /\ call[d] \in PagingCall
      BY <1>3, <2>1, <2>2, <2>3, PagingCallIs
    <2>5. PagingInStep(call[d], books, nextBookId)
      BY <2>4 DEF PagingInv
    <2>6. PagingInStep(Noticed(call[d], shelf), shelf, n)
      BY <1>1, <2>4, <2>5, NoticedInStep
    <2> QED
      BY <1>2, <2>1, <2>6
  <1> QED
    BY <1>3 DEF PagingInv

\* The whole of a step that changes only what one client is in the middle of.
LEMMA CallInStep ==
    ASSUME LibraryInv, PagingInv, NEW c \in Clients, NEW k,
           k.kind = "paging" => PagingInStep(k, books, nextBookId),
           call' = [call EXCEPT ![c] = k], UNCHANGED <<books, nextBookId>>
    PROVE  PagingInv'
  <1>1. call \in [Clients -> Call]
    BY DEF LibraryInv, LibraryTypeOK
  <1>2. call'[c] = k /\ \A d \in Clients \ {c} : call'[d] = call[d]
    BY <1>1
  <1>3. ASSUME NEW d \in Clients, call'[d].kind = "paging"
        PROVE  PagingInStep(call'[d], books', nextBookId')
    <2>1. PagingInStep(call'[d], books, nextBookId)
      BY <1>2, <1>3 DEF PagingInv
    <2> QED
      BY <2>1
  <1> QED
    BY <1>3 DEF PagingInv

LEMMA StartInStep ==
    ASSUME LibraryInv, PagingInv, NEW c \in Clients, NEW g \in Genres \cup {NoFilter},
           NEW l \in Limits, StartPaging(c, g, l)
    PROVE  PagingInv'
  <1>1. ClampLimit(l) \in Nat \ {0} /\ MaxBooks \in Nat
    BY LibraryAssumption DEF ClampLimit
  <1>2. nextBookId \in Nat \ {0} /\ DOMAIN books \subseteq 1..(nextBookId - 1)
    BY DEF LibraryInv, LibraryTypeOK
  <1>3. PICK F : F = Matching(books, g)
    OBVIOUS
  <1>4. Ids(F)
    BY <1>2, <1>3, MatchingIds
  <1>5. PICK k : k = [kind |-> "paging", genre |-> g, limit |-> ClampLimit(l),
                      page |-> 1, seen |-> {}, again |-> 0, done |-> FALSE,
                      stayed |-> F, left |-> 0, came |-> 0]
    OBVIOUS
  <1>6. Missed(F, 0, F, {}) = 0 /\ Ahead(F, 0, {}) = 0
    <2>1. \A b \in F : Position(F, b) \in Nat /\ Position(F, b) # 0
      BY <1>4, PositionsInt
    <2>2. UpTo(F, 0) \cap (F \ {}) = {} /\ Beyond(F, 0) \cap {} = {}
      BY <2>1 DEF UpTo
    <2> QED
      BY <2>2, FS_EmptySet DEF Missed, Ahead
  <1>7. (1 - 1) * ClampLimit(l) = 0
    BY <1>1
  <1>8. PagingInStep(k, books, nextBookId)
    BY <1>1, <1>3, <1>5, <1>6, <1>7 DEF PagingInStep
  <1>9. call' = [call EXCEPT ![c] = k] /\ UNCHANGED <<books, nextBookId>>
    BY <1>3, <1>5 DEF StartPaging
  <1> QED
    BY <1>8, <1>9, CallInStep

LEMMA ReadPageInStep ==
    ASSUME LibraryInv, IdsBounded, PagingInv, NEW c \in Clients, ReadPage(c)
    PROVE  PagingInv'
  <1>1. /\ nextBookId \in Nat \ {0} /\ DOMAIN books \subseteq 1..(nextBookId - 1)
        /\ call \in [Clients -> Call]
    BY DEF LibraryInv, LibraryTypeOK
  <1>2. call[c] \in PagingCall /\ ~call[c].done /\ PagingInStep(call[c], books, nextBookId)
    BY <1>1, PagingCallIs DEF ReadPage, PagingInv
  <1>3. PICK shown : shown = PageOf(call[c].genre, call[c].page, call[c].limit)
    OBVIOUS
  <1>4. PICK j : j = [call[c] EXCEPT !.page = @ + 1, !.seen = @ \cup shown,
                                     !.again = @ + Cardinality(shown \cap call[c].seen),
                                     !.done = Cardinality(shown) < call[c].limit]
    OBVIOUS
  <1>5. call' = [call EXCEPT ![c] = j] /\ UNCHANGED <<books, nextBookId>>
    BY <1>1, <1>3, <1>4 DEF ReadPage
  <1>6. /\ j.genre = call[c].genre /\ j.limit = call[c].limit /\ j.page = call[c].page + 1
        /\ j.seen = call[c].seen \cup shown
        /\ j.again = call[c].again + Cardinality(shown \cap call[c].seen)
        /\ j.done = (Cardinality(shown) < call[c].limit)
        /\ j.stayed = call[c].stayed /\ j.left = call[c].left /\ j.came = call[c].came
    BY <1>2, <1>4 DEF PagingCall
  <1>7. nextBookId <= MaxBooks + 1
    BY DEF IdsBounded
  <1>8. PagingInStep(j, books, nextBookId)
    BY <1>1, <1>2, <1>3, <1>6, <1>7, ReadInStep
  <1> QED
    BY <1>5, <1>8, CallInStep

LEMMA ShelvesInStep ==
    ASSUME LibraryInv, PagingInv, NEW c \in Clients
    PROVE  /\ \A a \in AuthorIds, g \in Genres : AddBook(c, a, g) => PagingInv'
           /\ \A b \in BookIds, a \in AuthorIds, g \in Genres :
                UpdateBook(c, b, a, g) => PagingInv'
           /\ \A b \in BookIds : DeleteBook(c, b) => PagingInv'
  <1>1. nextBookId \in Nat \ {0} /\ DOMAIN books \subseteq 1..(nextBookId - 1)
    BY DEF LibraryInv, LibraryTypeOK
  <1>2. ASSUME NEW a \in AuthorIds, NEW g \in Genres, AddBook(c, a, g)
        PROVE  PagingInv'
    <2>1. PICK shelf : shelf = [b \in DOMAIN books \cup {nextBookId} |->
                                  IF b = nextBookId
                                  THEN [author |-> a, genre |-> g, made |-> nextBookId]
                                  ELSE books[b]]
      OBVIOUS
    <2>2. Change(c, shelf, NoCall) /\ nextBookId' = nextBookId + 1
      BY <1>2, <2>1 DEF AddBook, NewBookId
    <2>3. Differs(books, shelf, nextBookId) /\ DOMAIN shelf = DOMAIN books \cup {nextBookId}
      BY <2>1 DEF Differs
    <2>4. PICK n \in Nat \ {0} : n = nextBookId + 1
      BY <1>1
    <2>5. /\ nextBookId \in Nat /\ nextBookId' = n /\ nextBookId <= n
          /\ DOMAIN shelf \subseteq 1..(n - 1)
      BY <1>1, <2>2, <2>3, <2>4
    <2>6. NoCall.kind # "paging"
      BY NoCallIsCall
    <2> QED
      BY <2>2, <2>3, <2>5, <2>6, ChangeInStep
  <1>3. ASSUME NEW b \in BookIds, NEW a \in AuthorIds, NEW g \in Genres,
               UpdateBook(c, b, a, g)
        PROVE  PagingInv'
    <2>1. PICK shelf : shelf = [books EXCEPT ![b].author = a, ![b].genre = g]
      OBVIOUS
    <2>2. PICK k : k = [kind |-> "put", table |-> "books", id |-> b, made |-> books[b].made]
      OBVIOUS
    <2>3. /\ b \in DOMAIN books /\ Change(c, shelf, k) /\ nextBookId' = nextBookId
          /\ k.kind # "paging"
      BY <1>3, <2>1, <2>2 DEF UpdateBook
    <2>4. Differs(books, shelf, b) /\ DOMAIN shelf = DOMAIN books /\ b \in Nat
      BY <1>1, <2>1, <2>3 DEF Differs
    <2>5. nextBookId <= nextBookId /\ DOMAIN shelf \subseteq 1..(nextBookId - 1)
      BY <1>1, <2>4
    <2> QED
      BY <1>1, <2>3, <2>4, <2>5, ChangeInStep
  <1>4. ASSUME NEW b \in BookIds, DeleteBook(c, b)
        PROVE  PagingInv'
    <2>1. PICK shelf : shelf = [d \in DOMAIN books \ {b} |-> books[d]]
      OBVIOUS
    <2>2. /\ b \in DOMAIN books /\ Change(c, shelf, NoCall) /\ nextBookId' = nextBookId
      BY <1>4, <2>1 DEF DeleteBook
    <2>3. Differs(books, shelf, b) /\ DOMAIN shelf = DOMAIN books \ {b} /\ b \in Nat
      BY <1>1, <2>1, <2>2 DEF Differs
    <2>4. nextBookId <= nextBookId /\ DOMAIN shelf \subseteq 1..(nextBookId - 1)
      BY <1>1, <2>3
    <2>5. NoCall.kind # "paging"
      BY NoCallIsCall
    <2> QED
      BY <1>1, <2>2, <2>3, <2>4, <2>5, ChangeInStep
  <1> QED
    BY <1>2, <1>3, <1>4

\* The steps after which a client is not reading pages.
LEMMA OthersInStep ==
    ASSUME LibraryInv, PagingInv, NEW c \in Clients,
           \/ StopPaging(c) \/ ReadBack(c) \/ AnswerCounts(c) \/ ListAuthors(c)
           \/ CountBooks(c)
           \/ \E a \in AuthorIds : UpdateAuthor(c, a) \/ GetAuthor(c, a)
    PROVE  PagingInv'
  <1>1. call \in [Clients -> Call]
    BY DEF LibraryInv, LibraryTypeOK
  <1>2. CASE CountBooks(c)
    <2>1. PICK a \in call[c].todo :
            call' = [call EXCEPT ![c].todo = @ \ {a},
                                 ![c].total = @ + Cardinality(BooksOf(a))]
      BY <1>2 DEF CountBooks
    <2>2. PICK k : k = [call[c] EXCEPT !.todo = @ \ {a},
                                       !.total = @ + Cardinality(BooksOf(a))]
      OBVIOUS
    <2>3. call' = [call EXCEPT ![c] = k]
      BY <1>1, <2>1, <2>2
    <2>4. call[c].kind = "counting" /\ call[c] \in Call
      BY <1>1, <1>2 DEF CountBooks
    <2>5. call[c] \in [kind : {"counting"}, todo : SUBSET Nat, total : Nat,
                       had : Nat, since : Nat]
      BY <2>4 DEF Call, NoCall
    <2>6. k.kind = call[c].kind
      BY <2>2, <2>5
    <2>7. k.kind = "counting" /\ UNCHANGED <<books, nextBookId>>
      BY <1>2, <2>4, <2>6 DEF CountBooks
    <2> QED
      BY <2>3, <2>7, CallInStep
  <1>3. CASE \/ StopPaging(c) \/ ReadBack(c) \/ AnswerCounts(c) \/ ListAuthors(c)
             \/ \E a \in AuthorIds : UpdateAuthor(c, a) \/ GetAuthor(c, a)
    <2>1. PICK k : /\ k.kind # "paging" /\ call' = [call EXCEPT ![c] = k]
                   /\ UNCHANGED <<books, nextBookId>>
      BY <1>3, NoCallIsCall
         DEF StopPaging, ReadBack, AnswerCounts, ListAuthors, UpdateAuthor,
             GetAuthor
    <2> QED
      BY <2>1, CallInStep
  <1> QED
    BY <1>2, <1>3

LEMMA PagingStep == LibraryInv /\ IdsBounded /\ PagingInv /\ [Next]_vars => PagingInv'
  <1> SUFFICES ASSUME LibraryInv, IdsBounded, PagingInv, [Next]_vars
               PROVE  PagingInv'
    OBVIOUS
  <1>1. CASE UNCHANGED <<books, nextBookId, call>>
    BY <1>1 DEF PagingInv
  <1>2. ASSUME NEW c \in Clients, NEW a \in AuthorIds, AddAuthor(c) \/ DeleteAuthor(c, a)
        PROVE  UNCHANGED <<books, nextBookId, call>>
    BY <1>2 DEF AddAuthor, DeleteAuthor
  <1>3. CASE Next
    <2>1. PICK c \in Clients :
            \/ \E g \in Genres \cup {NoFilter}, l \in Limits : StartPaging(c, g, l)
            \/ ReadPage(c) \/ StopPaging(c)
            \/ \E a \in AuthorIds, g \in Genres : AddBook(c, a, g)
            \/ \E b \in BookIds, a \in AuthorIds, g \in Genres : UpdateBook(c, b, a, g)
            \/ \E b \in BookIds : DeleteBook(c, b)
            \/ AddAuthor(c)
            \/ \E a \in AuthorIds :
                 UpdateAuthor(c, a) \/ DeleteAuthor(c, a) \/ GetAuthor(c, a)
            \/ ReadBack(c)
            \/ ListAuthors(c) \/ CountBooks(c) \/ AnswerCounts(c)
      BY <1>3 DEF Next
    <2>2. CASE AddAuthor(c)
      BY <1>1, <2>2 DEF AddAuthor
    <2>3. CASE \E a \in AuthorIds : DeleteAuthor(c, a)
      BY <1>1, <2>3 DEF DeleteAuthor
    <2> QED
      BY <2>1, <2>2, <2>3, StartInStep, ReadPageInStep, ShelvesInStep, OthersInStep
  <1> QED
    BY <1>1, <1>3 DEF vars

\* A client that pages to the end misses no more of the books that were there
\* all the time than books left the list meanwhile, and sees no more again than
\* came to it, whatever the list, the page size and the number of changes.
THEOREM PagingShifts == Spec => []PagingOffByChangesOnly
  <1>1. Init => PagingInv
    BY NoCallIsCall DEF Init, PagingInv
  <1>2. LibraryInv /\ PagingInv => PagingOffByChangesOnly
    <2> SUFFICES ASSUME LibraryInv, PagingInv, NEW c \in Clients, call[c].kind = "paging"
                 PROVE  /\ call[c].again <= call[c].came
                        /\ call[c].done =>
                             Cardinality(call[c].stayed \ call[c].seen) <= call[c].left
      BY DEF PagingOffByChangesOnly
    <2>1. /\ nextBookId \in Nat \ {0} /\ DOMAIN books \subseteq 1..(nextBookId - 1)
          /\ call[c] \in PagingCall
      BY PagingCallIs DEF LibraryInv, LibraryTypeOK
    <2>2. PICK F : F = Matching(books, call[c].genre)
      OBVIOUS
    <2>3. PICK K : K = (call[c].page - 1) * call[c].limit
      OBVIOUS
    <2>4. /\ call[c].again \in Nat /\ call[c].came \in Nat /\ call[c].done \in BOOLEAN
          /\ Ahead(F, K, call[c].seen) \in Nat
      BY <2>1, <2>2, MatchingIds, PartsFinite DEF PagingCall
    <2>5. /\ call[c].done => /\ call[c].again <= call[c].came
                             /\ Cardinality(call[c].stayed \ call[c].seen) <= call[c].left
          /\ ~call[c].done => call[c].again + Ahead(F, K, call[c].seen) <= call[c].came
      BY <2>2, <2>3 DEF PagingInv, PagingInStep
    <2> QED
      BY <2>4, <2>5
  <1> QED
    BY <1>1, <1>2, PagingStep, InvariantHolds, BookIdsBounded, PTL DEF Spec

=============================================================================
