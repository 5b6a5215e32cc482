-------------------------------- MODULE Shop --------------------------------
(***************************************************************************)
(* The goods, the books and the catalogue of a shop side by side.  The mix *)
(* chosen at the start says what moves: supplier bills under overlapping   *)
(* requests; the books of customers, of suppliers (a few bills there, one  *)
(* at a time) or of the drawer; the edits of one kind of thing; or files   *)
(* read in.  Books, Catalogue and Imports share no state in the model.     *)
(***************************************************************************)
EXTENDS Books, Catalogue, Imports

CONSTANTS
    FewBills,       \* bound: the bills that move while suppliers' books do
    FewCustomers,   \* bound: the customers there are while their accounts move
    Comers          \* bound: the customers in the order they come

VARIABLE mix

KindsEdited == {KindOf[x] : x \in Things}
BookMixes == {"bills", "customers", "doubles", "suppliers", "drawer"}

Alone(r) == \A q \in Requests \ {r} : req[q] = Idle

\* Only things of the kind of the mix are edited.
EditsOfMix == \A h \in Handlers : handler'[h] # Resting => KindOf[EditOf[handler'[h].edit].thing] = mix

\* Bound: once phones crossed, they stay, and nobody is brought back.
PhonesMoveOnce == crossed # {} => merged \subseteq merged' /\ \A c \in ToSet(added) : phone'[c] = phone[c]

ShopInit ==
    /\ BooksInit /\ CatalogueInit
    /\ mix \in BookMixes \cup KindsEdited \cup {"imports"}
    /\ ImportsInit /\ (mix = "imports" \/ products = <<>>)

GoodsBooksAndEdits ==
    \/ /\ mix = "bills"
       /\ Sell(1) \/ \E r \in Requests : Handle(r)
       /\ UNCHANGED <<bookVars, catalogueVars>>
    \/ /\ mix = "customers"
       /\ AccountNext \/ \E c \in Customers : c \in FewCustomers /\ BringCustomer(c, 0)
       /\ UNCHANGED catalogueVars
    \/ /\ mix = "doubles"
       /\ \/ CustomerNext
          \/ \E r \in Requests : ResolveDuplicate(r)
          \/ \E o \in Sales : SaveSale(o)
          \/ \E e \in Entries, d \in 1..MaxDay : CustomerPayment(e, d)
       /\ IsPrefix(added', Comers) /\ PhonesMoveOnce
       /\ UNCHANGED catalogueVars
    \/ /\ mix = "suppliers"
       /\ \/ SupplierNext
          \/ \E r \in Requests : Alone(r) /\ RemoveSupplier(r)
          \/ \E r \in Requests : Alone(r) /\ Handle(r) /\ UNCHANGED bookVars
       /\ \A b \in Bills \ FewBills : bill'[b] = bill[b]
       /\ UNCHANGED catalogueVars
    \/ /\ mix = "drawer" /\ DrawerNext
       /\ UNCHANGED catalogueVars
    \/ /\ mix \in BookMixes \ {"bills", "doubles"}
       /\ DayPasses
       /\ UNCHANGED <<bookVars, catalogueVars>>
    \/ /\ mix \in KindsEdited /\ CatalogueNext /\ EditsOfMix
       /\ UNCHANGED <<vars, bookVars>>

ShopNext ==
    /\ UNCHANGED mix
    /\ \/ GoodsBooksAndEdits /\ UNCHANGED importVars
       \/ mix = "imports" /\ ImportsNext /\ UNCHANGED <<vars, bookVars, catalogueVars>>

ShopSpec == ShopInit /\ [][ShopNext]_<<mix, vars, bookVars, catalogueVars, importVars>>

----------------------------------------------------------------------------
\* The types of the goods, the books, the catalogue and the imports.
ShopTypeOK == BooksTypeOK /\ CatalogueTypeOK /\ ImportsTypeOK
=============================================================================
