-------------------------- MODULE EcommerceService ---------------------------
(* The gRPC service EcommerceServiceImpl over its storage.  gRPC runs the     *)
(* handlers of different calls in parallel.  A handler that adds, edits,      *)
(* attaches or detaches locks the storage twice: it makes the change, and     *)
(* then looks the entry up to answer with it.  Deletes lock it once.  The     *)
(* handlers that only read leave no trace and are left out.                   *)
EXTENDS ProductStorage

CONSTANT Clients

VARIABLES
    call,      \* each client's call between its two steps
    status,    \* the status of each client's last call
    changed,   \* history: whether that call, or this one, made its change
    raced      \* history: the entry was deleted during the call

serviceVars == <<storage, call, status, changed, raced>>

NoCall == [table |-> "none", id |-> 0, missing |-> "OK"]

ServiceInit ==
    /\ StorageInit
    /\ call = [u \in Clients |-> NoCall]
    /\ status = [u \in Clients |-> "OK"]
    /\ changed = [u \in Clients |-> FALSE]
    /\ raced = [u \in Clients |-> FALSE]

\* The change is made; the entry will be looked up.
LookUpNext(u, table, id, missing) ==
    /\ call' = [call EXCEPT ![u] =
                  [table |-> table, id |-> id, missing |-> missing]]
    /\ changed' = [changed EXCEPT ![u] = TRUE]
    /\ raced' = [raced EXCEPT ![u] = FALSE]
    /\ UNCHANGED status

\* Slip: the generated id is returned for an entry that came with its own.
GeneratedId(table, given) == Cardinality(DOMAIN table) + 1

\* What AddProduct and AddCategory return.
ReturnedId(table, given) == NewId(table, given)

\* The first steps of the calls that succeed.
CallAddProduct(u, given, list) ==
    /\ call[u] = NoCall
    /\ AddProduct(given, list)
    /\ LookUpNext(u, "product", ReturnedId(products, given), "INTERNAL")

CallAddCategory(u, given, list) ==
    /\ call[u] = NoCall
    /\ AddCategory(given, list)
    /\ LookUpNext(u, "category", ReturnedId(categories, given), "INTERNAL")

CallEditProduct(u, p, list) ==
    /\ call[u] = NoCall
    /\ EditProduct(p, list)
    /\ LookUpNext(u, "product", p, "NOT_FOUND")

CallEditCategory(u, c, list) ==
    /\ call[u] = NoCall
    /\ EditCategory(c, list)
    /\ LookUpNext(u, "category", c, "NOT_FOUND")

CallAttach(u, p, c) ==
    /\ call[u] = NoCall
    /\ AttachProductToCategory(p, c)
    /\ LookUpNext(u, "category", c, "NOT_FOUND")

CallDetach(u, p, c) ==
    /\ call[u] = NoCall
    /\ DetachProductFromCategory(p, c)
    /\ LookUpNext(u, "category", c, "NOT_FOUND")

Change(u) ==
    \/ \E given \in GivenIds \cup {0}, list \in AddLists :
         CallAddProduct(u, given, list) \/ CallAddCategory(u, given, list)
    \/ \E p \in ProductIds, list \in EditLists : CallEditProduct(u, p, list)
    \/ \E c \in CategoryIds, list \in EditLists : CallEditCategory(u, c, list)
    \/ \E p \in ProductIds, c \in CategoryIds :
         CallAttach(u, p, c) \/ CallDetach(u, p, c)

\* An unknown id or a missing one: nothing is changed.
Refuse(u) ==
    /\ call[u] = NoCall
    /\ status' = [status EXCEPT ![u] = "NOT_FOUND"]
    /\ changed' = [changed EXCEPT ![u] = FALSE]
    /\ UNCHANGED <<storage, call, raced>>

\* Deleting answers at once; calls about to look the entry up are overtaken.
Overtake(u, table, id) ==
    /\ raced' = [v \in Clients |->
                   raced[v] \/ (call[v].table = table /\ call[v].id = id)]
    /\ status' = [status EXCEPT ![u] = "OK"]
    /\ changed' = [changed EXCEPT ![u] = TRUE]
    /\ UNCHANGED call

CallDeleteProduct(u, p) ==
    call[u] = NoCall /\ DeleteProduct(p) /\ Overtake(u, "product", p)

CallDeleteCategory(u, c) ==
    call[u] = NoCall /\ DeleteCategory(c) /\ Overtake(u, "category", c)

Delete(u) ==
    \/ \E p \in ProductIds : CallDeleteProduct(u, p)
    \/ \E c \in CategoryIds : CallDeleteCategory(u, c)

Exists(table, id) ==
    id \in IF table = "product" THEN DOMAIN products ELSE DOMAIN categories

LookUp(u) ==
    /\ call[u] # NoCall
    /\ status' = [status EXCEPT ![u] =
                    IF Exists(call[u].table, call[u].id) THEN "OK"
                    ELSE call[u].missing]
    /\ call' = [call EXCEPT ![u] = NoCall]
    /\ UNCHANGED <<storage, changed, raced>>

ServiceNext == \E u \in Clients : Change(u) \/ Refuse(u) \/ Delete(u) \/ LookUp(u)

ServiceSpec == ServiceInit /\ [][ServiceNext]_serviceVars

-----------------------------------------------------------------------------
(* Properties *)

\* A call that answers INTERNAL or NOT_FOUND after it made its change was
\* overtaken by a delete of the entry it looks up; no other interleaving, not
\* even an id given out twice, loses the entry between the two locks.
OnlyDeletesLoseEntries ==
    \A u \in Clients :
      call[u] = NoCall /\ changed[u] /\ status[u] # "OK" => raced[u]

=============================================================================
