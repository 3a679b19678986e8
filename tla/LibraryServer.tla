---------------------------- MODULE LibraryServer -----------------------------
(* The REST library (rest_server/main.cpp): class Database, each method of    *)
(* which is one critical section, and the handlers over it, which httplib     *)
(* runs in parallel.  Those that lock more than once are stepped through: PUT  *)
(* reads back what it stored, and GET of authors, of one or of all, counts    *)
(* the books of each under a lock of its own.  A client that pages through the    *)
(* books makes a request per page, and the shelf changes in between.          *)
(*                                                                            *)
(* Names, titles and years carry no decision and are left out; so a request   *)
(* that is refused or only reads, and is not one of the above, is too.        *)
EXTENDS Integers, FiniteSets, Sequences

CONSTANTS
    Clients,        \* the requests that may be served at once
    Genres,         \* the genres of books
    SeedAuthors,    \* how many authors main() adds
    SeedBooks,      \* the author and genre of each book main() adds
    MaxAuthors,     \* bound on author ids
    MaxBooks,       \* bound on book ids
    MaxChanges,     \* bound on the changes made to books
    DefaultLimit,   \* the page size if none is asked for: 10
    MaxLimit,       \* the largest page size: 100
    Limits,         \* page sizes that clients who read all pages ask for
    IntMax          \* the largest int

NoFilter == "any"

ASSUME LibraryAssumption ==
    /\ IsFiniteSet(Clients)
    /\ NoFilter \notin Genres
    /\ {SeedAuthors, MaxAuthors, MaxBooks, MaxChanges} \subseteq Nat
    /\ SeedBooks \in Seq([author : 1..SeedAuthors, genre : Genres])
    /\ Len(SeedBooks) <= MaxBooks
    /\ MaxBooks + MaxLimit <= IntMax  \* ids are ints, with room for a page
    /\ {DefaultLimit, MaxLimit, IntMax} \subseteq Nat \ {0}
    /\ DefaultLimit <= MaxLimit
    /\ Limits \subseteq Int

VARIABLES
    authors,        \* Database::authors, the ids only
    books,          \* Database::books
    nextAuthorId,
    nextBookId,
    call,           \* what each client is in the middle of
    changes         \* history variable: changes made to books

vars == <<authors, books, nextAuthorId, nextBookId, call, changes>>

\* `made` numbers the books in the order in which they were added.
Book == [author : Nat \ {0}, genre : Genres, made : Nat \ {0}]

NoCall == [kind |-> "none"]

\* What a client may be in the middle of: reading page after page, waiting to
\* read back what it stored, having the books of authors counted.
Call ==
    {NoCall}
    \cup [kind : {"paging"}, genre : Genres \cup {NoFilter}, limit : 1..MaxLimit,
          page : Nat \ {0}, seen : SUBSET Nat, again : Nat, done : BOOLEAN,
          stayed : SUBSET Nat, left : Nat, came : Nat]
    \cup [kind : {"put"}, table : {"authors", "books"}, id : Nat, made : Nat]
    \cup [kind : {"counting"}, todo : SUBSET Nat, total : Nat, had : Nat,
          since : Nat]

Init ==
    /\ authors = 1..SeedAuthors
    /\ nextAuthorId = SeedAuthors + 1
    /\ books = [b \in DOMAIN SeedBooks |->
                  [author |-> SeedBooks[b].author, genre |-> SeedBooks[b].genre,
                   made |-> b]]
    /\ nextBookId = Len(SeedBooks) + 1
    /\ call = [c \in Clients |-> NoCall]
    /\ changes = 0

-----------------------------------------------------------------------------
(* Pages: getFilteredAndPaginatedBooks and the handler of GET /books          *)

\* What is left of a number in an int.
Wrap(x) == ((x + IntMax + 1) % (2 * (IntMax + 1))) - (IntMax + 1)

ClampPage(page) == IF page < 1 THEN 1 ELSE page

ClampLimit(limit) ==
    IF limit < 1 THEN DefaultLimit ELSE IF limit > MaxLimit THEN MaxLimit ELSE limit

\* Slip: pages are numbered from 0 here.
StartOfNext(page, limit) == Wrap(page * limit)

\* Slip: the result of the multiplication is taken as it is.
StartUnchecked(page, limit) == Wrap((page - 1) * limit)

\* An int that overflowed is taken to wrap, which is what the builds do.
Start(page, limit) ==
    LET start == Wrap((page - 1) * limit) IN IF start < 0 THEN 0 ELSE start

\* The positions, in a list of n books, of those on a page.  The sum is an int
\* too, and looked at only if the page starts within the list: the assumption
\* leaves room for it.
PagePositions(n, page, limit) ==
    LET start == Start(page, limit)
        stop == Wrap(start + limit)
        end == IF stop < n THEN stop ELSE n
    IN  IF start >= n THEN {} ELSE (start + 1)..end

Matching(shelf, genre) ==
    {b \in DOMAIN shelf : genre = NoFilter \/ shelf[b].genre = genre}

\* The map is ordered by id.
PageOf(genre, page, limit) ==
    LET found == Matching(books, genre)
        Position(b) == Cardinality({a \in found : a <= b})
    IN  {b \in found :
           Position(b) \in PagePositions(Cardinality(found), page, limit)}

\* A client reads a list page by page, until one is not full.  Of the list we
\* note which books stayed on it all the time, how many left it, and how many
\* came to it by a change of genre: new books go to its end.
StartPaging(c, genre, limit) ==
    /\ call[c] = NoCall
    /\ call' = [call EXCEPT ![c] =
                  [kind |-> "paging", genre |-> genre, limit |-> ClampLimit(limit),
                   page |-> 1, seen |-> {}, again |-> 0, done |-> FALSE,
                   stayed |-> Matching(books, genre), left |-> 0, came |-> 0]]
    /\ UNCHANGED <<authors, books, nextAuthorId, nextBookId, changes>>

ReadPage(c) ==
    /\ call[c].kind = "paging"
    /\ ~call[c].done
    /\ LET shown == PageOf(call[c].genre, call[c].page, call[c].limit) IN
       call' = [call EXCEPT ![c].page = @ + 1,
                            ![c].seen = @ \cup shown,
                            ![c].again = @ + Cardinality(shown \cap call[c].seen),
                            ![c].done = Cardinality(shown) < call[c].limit]
    /\ UNCHANGED <<authors, books, nextAuthorId, nextBookId, changes>>

StopPaging(c) ==
    /\ call[c].kind = "paging"
    /\ call' = [call EXCEPT ![c] = NoCall]
    /\ UNCHANGED <<authors, books, nextAuthorId, nextBookId, changes>>

-----------------------------------------------------------------------------
(* Changes to books                                                           *)

Noticed(k, shelf) ==
    IF k.kind = "paging"
    THEN LET old == Matching(books, k.genre)
             new == Matching(shelf, k.genre)
         IN  [k EXCEPT !.stayed = @ \cap new,
                       !.left = @ + Cardinality(old \ new),
                       !.came = @ + Cardinality((new \ old) \cap DOMAIN books)]
    ELSE k

\* Client c makes `shelf` of the books, and is in the middle of `k` after it.
Change(c, shelf, k) ==
    /\ call[c] = NoCall
    /\ changes < MaxChanges
    /\ changes' = changes + 1
    /\ books' = shelf
    /\ call' = [d \in Clients |-> IF d = c THEN k ELSE Noticed(call[d], shelf)]

\* Slip: the number of books, plus one.
CountedBookId == Cardinality(DOMAIN books) + 1

NewBookId == nextBookId

\* Slip: the author is not looked for.
AnyAuthor(a) == TRUE

AuthorExists(a) == a \in authors

AddBook(c, a, g) ==
    /\ nextBookId <= MaxBooks
    /\ AuthorExists(a)
    /\ Change(c, [b \in DOMAIN books \cup {NewBookId} |->
                    IF b = NewBookId
                    THEN [author |-> a, genre |-> g, made |-> nextBookId]
                    ELSE books[b]], NoCall)
    /\ nextBookId' = nextBookId + 1
    /\ UNCHANGED <<authors, nextAuthorId>>

\* PUT of a book: updateBook, and then, in ReadBack, getBook.
UpdateBook(c, b, a, g) ==
    /\ AuthorExists(a)
    /\ b \in DOMAIN books
    /\ Change(c, [books EXCEPT ![b].author = a, ![b].genre = g],
              [kind |-> "put", table |-> "books", id |-> b, made |-> books[b].made])
    /\ UNCHANGED <<authors, nextAuthorId, nextBookId>>

DeleteBook(c, b) ==
    /\ b \in DOMAIN books
    /\ Change(c, [d \in DOMAIN books \ {b} |-> books[d]], NoCall)
    /\ UNCHANGED <<authors, nextAuthorId, nextBookId>>

-----------------------------------------------------------------------------
(* Authors                                                                    *)

BooksOf(a) == {b \in DOMAIN books : books[b].author = a}

AddAuthor(c) ==
    /\ call[c] = NoCall
    /\ nextAuthorId <= MaxAuthors
    /\ authors' = authors \cup {nextAuthorId}
    /\ nextAuthorId' = nextAuthorId + 1
    /\ UNCHANGED <<books, nextBookId, call, changes>>

\* PUT of an author stores what is left out here, and reads it back.
UpdateAuthor(c, a) ==
    /\ call[c] = NoCall
    /\ AuthorExists(a)
    /\ call' = [call EXCEPT ![c] =
                  [kind |-> "put", table |-> "authors", id |-> a, made |-> a]]
    /\ UNCHANGED <<authors, books, nextAuthorId, nextBookId, changes>>

\* PUT answers with what is there now, or with nothing.
ReadBack(c) ==
    /\ call[c].kind = "put"
    /\ call' = [call EXCEPT ![c] = NoCall]
    /\ UNCHANGED <<authors, books, nextAuthorId, nextBookId, changes>>

DeleteAuthor(c, a) ==
    /\ call[c] = NoCall
    /\ BooksOf(a) = {}
    /\ a \in authors
    /\ authors' = authors \ {a}
    /\ UNCHANGED <<books, nextAuthorId, nextBookId, call, changes>>

\* GET /authors?includeBooks=true: getAllAuthors.
ListAuthors(c) ==
    /\ call[c] = NoCall
    /\ call' = [call EXCEPT ![c] =
                  [kind |-> "counting", todo |-> authors, total |-> 0,
                   had |-> Cardinality(DOMAIN books), since |-> changes]]
    /\ UNCHANGED <<authors, books, nextAuthorId, nextBookId, changes>>

\* GET /authors/{id}?includeBooks=true: getAuthor, and its books are counted
\* under a second lock, when the author may be gone.
GetAuthor(c, a) ==
    /\ call[c] = NoCall
    /\ AuthorExists(a)
    /\ call' = [call EXCEPT ![c] =
                  [kind |-> "counting", todo |-> {a}, total |-> 0,
                   had |-> Cardinality(BooksOf(a)), since |-> changes]]
    /\ UNCHANGED <<authors, books, nextAuthorId, nextBookId, changes>>

\* Either way, getBookCountForAuthor of each, in the order of their ids.
CountBooks(c) ==
    /\ call[c].kind = "counting"
    /\ \E a \in call[c].todo :
         /\ \A other \in call[c].todo : a <= other
         /\ call' = [call EXCEPT ![c].todo = @ \ {a},
                                 ![c].total = @ + Cardinality(BooksOf(a))]
    /\ UNCHANGED <<authors, books, nextAuthorId, nextBookId, changes>>

AnswerCounts(c) ==
    /\ call[c].kind = "counting"
    /\ call[c].todo = {}
    /\ call' = [call EXCEPT ![c] = NoCall]
    /\ UNCHANGED <<authors, books, nextAuthorId, nextBookId, changes>>

-----------------------------------------------------------------------------

AuthorIds == 1..MaxAuthors
BookIds == 1..MaxBooks

Next ==
    \E c \in Clients :
      \/ \E g \in Genres \cup {NoFilter}, l \in Limits : StartPaging(c, g, l)
      \/ ReadPage(c) \/ StopPaging(c)
      \/ \E a \in AuthorIds, g \in Genres : AddBook(c, a, g)
      \/ \E b \in BookIds, a \in AuthorIds, g \in Genres : UpdateBook(c, b, a, g)
      \/ \E b \in BookIds : DeleteBook(c, b)
      \/ AddAuthor(c)
      \/ \E a \in AuthorIds : UpdateAuthor(c, a) \/ DeleteAuthor(c, a) \/ GetAuthor(c, a)
      \/ ReadBack(c)
      \/ ListAuthors(c) \/ CountBooks(c) \/ AnswerCounts(c)

Spec == Init /\ [][Next]_vars

-----------------------------------------------------------------------------
(* Properties *)

\* A book's author exists: updateBook and addBook look for him, deleteAuthor
\* looks for his books, and no other thread comes between look and change.
BooksHaveAuthors == \A b \in DOMAIN books : books[b].author \in authors

\* Types; ids in use are below the counters; and the reference above.
LibraryTypeOK ==
    /\ authors \subseteq 1..(nextAuthorId - 1)
    /\ nextAuthorId \in Nat \ {0}
    /\ nextBookId \in Nat \ {0}
    /\ DOMAIN books \subseteq 1..(nextBookId - 1)
    /\ books \in [DOMAIN books -> Book]
    /\ changes \in Nat
    /\ call \in [Clients -> Call]
    /\ BooksHaveAuthors

\* Whether each page of a list of n books is the run of it that it should be:
\* for every page and limit a client may ask for, those of which the arithmetic
\* overflows included, one of at most `limit` books that are in the list; and
\* if nothing overflows, the page-th one.
PagesRight ==
    [n \in 0..MaxBooks |->
      \A p \in (-IntMax - 1)..IntMax, l \in 0..(MaxLimit + 1) :
        LET page == ClampPage(p)
            limit == ClampLimit(l)
            positions == PagePositions(n, page, limit)
        IN  /\ positions \subseteq 1..n
            /\ Cardinality(positions) <= limit
            /\ page * limit <= IntMax =>
                 positions = {k \in 1..n : (k - 1) \div limit = page - 1}]

\* No page and limit that clients send make GET /books read outside the list it
\* found, or show another part of it than it should unless the multiplication
\* in int overflows (line 243).
PagesAreRuns ==
    \A g \in Genres \cup {NoFilter} : PagesRight[Cardinality(Matching(books, g))]

\* A client that pages to the end misses no more of the books that were there
\* all the time than books left the list meanwhile, and sees no more of them
\* again than came to it: nothing else makes pages shift.
PagingOffByChangesOnly ==
    \A c \in Clients :
      call[c].kind = "paging" =>
        /\ call[c].again <= call[c].came
        /\ call[c].done =>
             Cardinality(call[c].stayed \ call[c].seen) <= call[c].left

\* The counts in a list of authors add up to the number of books when it was
\* begun, give or take one for each change made meanwhile, although each is
\* taken under a lock of its own (line 437); and so does the count of a single
\* author's, whom the handler looked up under another lock (line 458).
CountsOffByChangesOnly ==
    \A c \in Clients :
      (call[c].kind = "counting" /\ call[c].todo = {}) =>
        LET slack == changes - call[c].since IN
        call[c].total \in (call[c].had - slack)..(call[c].had + slack)

\* PUT of a book answers with that book or with an empty one, never with
\* another book that has taken over its id since it was updated (line 407).
PutAnswersItsBook ==
    \A c \in Clients :
      (call[c].kind = "put" /\ call[c].table = "books"
         /\ call[c].id \in DOMAIN books) =>
        books[call[c].id].made = call[c].made

=============================================================================
