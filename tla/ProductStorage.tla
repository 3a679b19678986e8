--------------------------- MODULE ProductStorage ----------------------------
(* The shop's in-memory storage behind the gRPC service, class                *)
(* InMemoryStorage.  Every method holds mutex_ throughout and is one step; a  *)
(* method that returns false changes nothing.                                 *)
(*                                                                            *)
(* Each link between a product and a category is stored four times: in both   *)
(* entries, and in each of them in the internal vector and in the protobuf    *)
(* message that is sent to clients.  Names, prices and quantities are left    *)
(* out.  Id n stands for "prod_n" or "cat_n".                                 *)
EXTENDS Integers, SequencesExt

CONSTANTS
    MaxProducts,   \* products have ids in 1..MaxProducts
    MaxCategories, \* categories have ids in 1..MaxCategories
    MaxLinks,      \* bound on the links of an entry
    GivenIds,      \* the ids clients choose themselves for new entries
    AddLists,      \* the lists of linked ids clients send with a new entry
    EditLists      \* the lists of linked ids clients send with an edit

ASSUME StorageAssumption ==
    /\ MaxProducts \in Nat
    /\ MaxCategories \in Nat
    /\ MaxLinks \in Nat
    /\ GivenIds \subseteq Nat \ {0}
    /\ AddLists \subseteq Seq(Nat)
    /\ EditLists \subseteq Seq(Nat)

VARIABLES
    products,      \* products_: from the ids in use to entries
    categories     \* categories_

storage == <<products, categories>>

ProductIds == 1..MaxProducts
CategoryIds == 1..MaxCategories

StorageInit ==
    /\ products = <<>>
    /\ categories = <<>>

\* links is the vector ProductData::categories or CategoryData::products, ids
\* the field category_ids or product_ids of the message.
Entry(list) == [links |-> list, ids |-> list]

Link(entry, id) ==
    [links |-> Append(entry.links, id), ids |-> Append(entry.ids, id)]

\* A list without any occurrence of an id: erase(remove(...)).
Without(list, id) ==
    LET kept[n \in 0..Len(list)] ==
          IF n = 0 THEN <<>>
          ELSE IF list[n] = id THEN kept[n - 1]
          ELSE Append(kept[n - 1], list[n])
    IN kept[Len(list)]

\* Every occurrence is erased and the message rebuilt.
Unlink(entry, id) == Entry(Without(entry.links, id))

\* Slip: the message is not rebuilt.
UnlinkVector(entry, id) ==
    IF Contains(entry.links, id)
    THEN [entry EXCEPT !.links = RemoveFirst(@, id)]
    ELSE entry

\* The first occurrence is erased and the message rebuilt.
UnlinkOne(entry, id) ==
    IF Contains(entry.links, id)
    THEN Entry(RemoveFirst(entry.links, id))
    ELSE entry

-----------------------------------------------------------------------------
(* Products and categories                                                    *)

\* Given no id (0), an entry is numbered by the size of its table.
NewId(table, given) == IF given = 0 THEN Cardinality(DOMAIN table) + 1 ELSE given

\* An entry that has the id already is overwritten.
Store(table, id, list) ==
    [k \in DOMAIN table \cup {id} |-> IF k = id THEN Entry(list) ELSE table[k]]

Erase(table, id) == [k \in DOMAIN table \ {id} |-> table[k]]

\* Slip: the entries linked to the erased one are left as they are.
UnlinkNone(table, id, linked) == table

\* Slip: operator[] in place of find, which makes the linked entries up.
UnlinkCreating(table, id, linked) ==
    [k \in DOMAIN table \cup ToSet(linked) |->
       IF k \notin DOMAIN table THEN Entry(<<>>)
       ELSE IF Contains(linked, k) THEN Unlink(table[k], id) ELSE table[k]]

UnlinkAll(table, id, linked) ==
    [k \in DOMAIN table |->
       IF Contains(linked, k) THEN Unlink(table[k], id) ELSE table[k]]

AddProduct(given, list) ==
    /\ NewId(products, given) \in ProductIds
    /\ products' = Store(products, NewId(products, given), list)
    /\ UNCHANGED categories

EditProduct(p, list) ==
    /\ p \in DOMAIN products
    /\ products' = [products EXCEPT ![p] = Entry(list)]
    /\ UNCHANGED categories

\* Only the categories the product itself lists are looked at.
DeleteProduct(p) ==
    /\ p \in DOMAIN products
    /\ categories' = UnlinkAll(categories, p, products[p].links)
    /\ products' = Erase(products, p)

AddCategory(given, list) ==
    /\ NewId(categories, given) \in CategoryIds
    /\ categories' = Store(categories, NewId(categories, given), list)
    /\ UNCHANGED products

EditCategory(c, list) ==
    /\ c \in DOMAIN categories
    /\ categories' = [categories EXCEPT ![c] = Entry(list)]
    /\ UNCHANGED products

DeleteCategory(c) ==
    /\ c \in DOMAIN categories
    /\ products' = UnlinkAll(products, c, categories[c].links)
    /\ categories' = Erase(categories, c)

-----------------------------------------------------------------------------
(* Attachment                                                                 *)

BothExist(p, c) == p \in DOMAIN products /\ c \in DOMAIN categories

\* The product's list alone says whether the two are attached already.
AttachProductToCategory(p, c) ==
    /\ BothExist(p, c)
    /\ IF Contains(products[p].links, c)
       THEN UNCHANGED storage
       ELSE /\ Len(products[p].links) < MaxLinks
            /\ Len(categories[c].links) < MaxLinks
            /\ products' = [products EXCEPT ![p] = Link(@, c)]
            /\ categories' = [categories EXCEPT ![c] = Link(@, p)]

DetachProductFromCategory(p, c) ==
    /\ BothExist(p, c)
    /\ products' = [products EXCEPT ![p] = UnlinkOne(@, c)]
    /\ categories' = [categories EXCEPT ![c] = UnlinkOne(@, p)]

-----------------------------------------------------------------------------

\* The operations that take both ends of a link into account.
LinkingStep ==
    \/ \E p \in ProductIds : DeleteProduct(p)
    \/ \E c \in CategoryIds : DeleteCategory(c)
    \/ \E p \in ProductIds, c \in CategoryIds :
         AttachProductToCategory(p, c) \/ DetachProductFromCategory(p, c)

\* The operations that store the list a client sent.
ListStep ==
    \/ \E given \in GivenIds \cup {0}, list \in AddLists :
         AddProduct(given, list) \/ AddCategory(given, list)
    \/ \E list \in EditLists :
         \/ \E p \in ProductIds : EditProduct(p, list)
         \/ \E c \in CategoryIds : EditCategory(c, list)

StorageNext == LinkingStep \/ ListStep

StorageSpec == StorageInit /\ [][StorageNext]_storage

-----------------------------------------------------------------------------
(* Properties *)

IsEntry(entry) == entry.links \in Seq(Nat) /\ entry.ids \in Seq(Nat)

\* Types of the two tables.
StorageTypeOK ==
    /\ DOMAIN products \subseteq ProductIds
    /\ DOMAIN categories \subseteq CategoryIds
    /\ \A p \in DOMAIN products : IsEntry(products[p])
    /\ \A c \in DOMAIN categories : IsEntry(categories[c])

\* What clients are sent is what the storage works with: the vector and the
\* message of an entry never part.
MirrorsAgree ==
    /\ \A p \in DOMAIN products : products[p].ids = products[p].links
    /\ \A c \in DOMAIN categories : categories[c].ids = categories[c].links

Occurrences(list, id) == Cardinality({n \in DOMAIN list : list[n] = id})

Times(table, k, id) ==
    IF k \in DOMAIN table THEN Occurrences(table[k].links, id) ELSE 0

\* Each product lists a category as often as the category lists the product.
Symmetric ==
    \A p \in ProductIds, c \in CategoryIds :
      Times(products, p, c) = Times(categories, c, p)

\* Attaching, detaching and deleting keep the two ends of every link in step,
\* duplicates and links to what does not exist included, although attaching
\* asks one end only and deleting follows the lists of what is deleted.
LinkingKeepsSymmetry == [][Symmetric /\ LinkingStep => Symmetric']_storage

\* category_ids says which categories the product is in (ecommerce.proto:12).
CategoryIdsAreWhereProductIs ==
    \A p \in DOMAIN products :
      ToSet(products[p].ids) = {c \in DOMAIN categories :
                                  Contains(categories[c].ids, p)}

=============================================================================
