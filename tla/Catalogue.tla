----------------------------- MODULE Catalogue -----------------------------
(***************************************************************************)
(* Edits of products, customers, suppliers and branch prices from several  *)
(* devices (routes/catalogue.ts, customers.ts, books.ts) and the owner's   *)
(* review of those that clash (services/conflicts.ts, routes/conflicts.ts).*)
(*                                                                         *)
(* A device edits what it last saw, possibly offline, and sends with the   *)
(* edit the values it saw of the fields it changed; an older client sends  *)
(* none.  A handler reads the row and writes it in a later statement.      *)
(* Values are the edits that set them, 0 before any, so that one can tell  *)
(* what became of each edit.                                               *)
(***************************************************************************)
EXTENDS Integers, FiniteSets

CONSTANTS
    Handlers,       \* edits handled at a time
    Things, KindOf, \* what is edited: product, customer, supplier, branch_price
    Devices,
    Edits, EditOf,  \* device, thing, fields and whether it says what it saw
    MaxProducts     \* limit of the plan

Fields == {"name", "price"}

ASSUME EditsAssumption ==
    /\ 0 \notin Edits
    /\ EditOf \in [Edits -> [device : Devices, thing : Things, fields : SUBSET Fields, saysBase : BOOLEAN]]

VARIABLES
    state,      \* thing -> none, live, archived
    value,      \* thing -> field -> the edit that set it
    seen,       \* device -> thing -> the values it last fetched
    edit,       \* edit -> new, answered
    handler,    \* handler -> the edit in progress and the row it read
    review,     \* conflicts: kind, thing, field, edit, status
    replaced,   \* <<field, edit>> whose value was written over
    blind       \* those written over by an edit that neither saw nor clashed with them

catalogueVars == <<state, value, seen, edit, handler, review, replaced, blind>>

Unset == [f \in Fields |-> 0]
Resting == [edit |-> 0]

CatalogueInit ==
    /\ state = [x \in Things |-> IF KindOf[x] = "product" THEN "none" ELSE "live"]
    /\ value = [x \in Things |-> Unset]
    /\ seen = [d \in Devices |-> [x \in Things |-> Unset]]
    /\ edit = [e \in Edits |-> "new"]
    /\ handler = [h \in Handlers |-> Resting]
    /\ review = {} /\ replaced = {} /\ blind = {}

----------------------------------------------------------------------------
\* Wrong: a field the cloud changed meanwhile is not looked at.
AppliesIfSent(current, e, base) == EditOf[e].fields

\* mergeFields: the fields to write ...
Applies(current, e, base) ==
    IF ~EditOf[e].saysBase THEN EditOf[e].fields
    ELSE {f \in EditOf[e].fields : current[f] = base[f]}

\* ... and those that clash, unless the cloud has the device's value already.
Clashes(current, e, base) ==
    {f \in EditOf[e].fields \ Applies(current, e, base) : current[f] # e}

FieldClash(x, f, e) == [kind |-> "field", thing |-> x, field |-> f, edit |-> e, status |-> "OPEN"]

RemovedEdit(x, e) == [kind |-> "removed", thing |-> x, field |-> "name", edit |-> e, status |-> "OPEN"]

\* The row as it would be with the fields of an edit.
Written(row, fields, e) == [f \in Fields |-> IF f \in fields THEN e ELSE row[f]]

\* What writing the fields replaces.
WrittenOver(row, fields) == {<<f, row[f]>> : f \in fields}

\* POST /products: the plan's limit is counted under the account's lock.
AddProduct(x) ==
    /\ KindOf[x] = "product" /\ state[x] = "none"
    /\ Cardinality({y \in Things : KindOf[y] = "product" /\ state[y] = "live"}) < MaxProducts
    /\ state' = [state EXCEPT ![x] = "live"]
    /\ UNCHANGED <<value, seen, edit, handler, review, replaced, blind>>

\* DELETE /products/:id; suppliers and customers are archived by Books.
ArchiveProduct(x) ==
    /\ KindOf[x] = "product" /\ state[x] = "live"
    /\ state' = [state EXCEPT ![x] = "archived"]
    /\ UNCHANGED <<value, seen, edit, handler, review, replaced, blind>>

\* A device fetches what the cloud has.
Fetch(d) ==
    /\ seen[d] # value
    /\ seen' = [seen EXCEPT ![d] = value]
    /\ UNCHANGED <<state, value, edit, handler, review, replaced, blind>>

\* The handler reads the row; what the device saw came with the edit.
BeginEdit(h, e, kind) ==
    LET x == EditOf[e].thing
    IN  /\ KindOf[x] = kind /\ state[x] # "none"
        /\ handler[h] = Resting /\ edit[e] = "new"
        /\ edit' = [edit EXCEPT ![e] = "sent"]
        /\ handler' = [handler EXCEPT ![h] =
                          [edit |-> e, row |-> value[x], state |-> state[x], base |-> seen[EditOf[e].device][x]]]
        /\ UNCHANGED <<state, value, seen, review, replaced, blind>>

\* The handler writes what it decided from the row it read: the removed edit,
\* or the clashes and then the other fields.
CommitEdit(h, kind, mayBeRemoved) ==
    LET w == handler[h]
        e == w.edit
        x == EditOf[e].thing
        removed == mayBeRemoved /\ EditOf[e].saysBase /\ w.state = "archived"
        fields == IF removed THEN {} ELSE Applies(w.row, e, w.base)
        knows == ~EditOf[e].saysBase \/ w.row # value[x]
    IN  /\ w # Resting /\ KindOf[x] = kind
        /\ review' = review \cup
              IF removed THEN {RemovedEdit(x, e)}
              ELSE {FieldClash(x, f, e) : f \in Clashes(w.row, e, w.base)}
        /\ value' = [value EXCEPT ![x] = Written(@, fields, e)]
        /\ replaced' = replaced \cup WrittenOver(value[x], fields)
        /\ blind' = IF knows THEN blind
                    ELSE blind \cup {<<f, value[x][f]>> : f \in {f \in fields : value[x][f] # w.base[f]}}
        /\ edit' = [edit EXCEPT ![e] = "answered"]
        /\ handler' = [handler EXCEPT ![h] = Resting]
        /\ UNCHANGED <<state, seen>>

\* PATCH /products/:id
ReadProduct(h, e) == BeginEdit(h, e, "product")

PatchProduct(h) == CommitEdit(h, "product", TRUE)

\* PATCH /customers/:id
ReadCustomer(h, e) == BeginEdit(h, e, "customer")

PatchCustomer(h) == CommitEdit(h, "customer", TRUE)

\* PATCH /suppliers/:id
ReadSupplier(h, e) == BeginEdit(h, e, "supplier")

PatchSupplier(h) == CommitEdit(h, "supplier", TRUE)

\* PUT /products/:id/branches/:branchId: a removed product is not looked for.
ReadBranchPrice(h, e) == BeginEdit(h, e, "branch_price")

PutBranchPrice(h) == CommitEdit(h, "branch_price", FALSE)

Resolved(c) == (review \ {c}) \cup {[c EXCEPT !.status = "RESOLVED"]}

\* POST /conflicts/:id/resolve of a field: the cloud's value stays ...
KeepCloud(c) ==
    /\ c \in review /\ c.status = "OPEN"
    /\ review' = Resolved(c)
    /\ UNCHANGED <<state, value, seen, edit, handler, replaced, blind>>

\* ... or the device's is written, over whatever the cloud has by now.
TakeDevice(c) ==
    /\ c \in review /\ c.status = "OPEN" /\ c.kind = "field"
    /\ value' = [value EXCEPT ![c.thing] = Written(@, {c.field}, c.edit)]
    /\ replaced' = replaced \cup WrittenOver(value[c.thing], {c.field})
    /\ review' = Resolved(c)
    /\ UNCHANGED <<state, seen, edit, handler, blind>>

\* ... of something removed: it comes back with the edit; no limit is counted.
Restore(c) ==
    /\ c \in review /\ c.status = "OPEN" /\ c.kind = "removed"
    /\ value' = [value EXCEPT ![c.thing] = Written(@, EditOf[c.edit].fields, c.edit)]
    /\ replaced' = replaced \cup WrittenOver(value[c.thing], EditOf[c.edit].fields)
    /\ state' = [state EXCEPT ![c.thing] = "live"]
    /\ review' = Resolved(c)
    /\ UNCHANGED <<seen, edit, handler, blind>>

CatalogueNext ==
    \/ \E x \in Things : AddProduct(x) \/ ArchiveProduct(x)
    \/ \E d \in Devices : Fetch(d)
    \/ \E h \in Handlers, e \in Edits :
          ReadProduct(h, e) \/ ReadCustomer(h, e) \/ ReadSupplier(h, e) \/ ReadBranchPrice(h, e)
    \/ \E h \in Handlers : PatchProduct(h) \/ PatchCustomer(h) \/ PatchSupplier(h) \/ PutBranchPrice(h)
    \/ \E c \in review : KeepCloud(c) \/ TakeDevice(c) \/ Restore(c)

CatalogueSpec == CatalogueInit /\ [][CatalogueNext]_catalogueVars

----------------------------------------------------------------------------
CatalogueTypeOK ==
    /\ state \in [Things -> {"none", "live", "archived"}]
    /\ value \in [Things -> [Fields -> {0} \cup Edits]]
    /\ seen \in [Devices -> [Things -> [Fields -> {0} \cup Edits]]]
    /\ edit \in [Edits -> {"new", "sent", "answered"}]
    /\ \A h \in Handlers : handler[h].edit \in {0} \cup Edits
    /\ review \subseteq [kind : {"field", "removed"}, thing : Things, field : Fields,
                         edit : Edits, status : {"OPEN", "RESOLVED"}]
    /\ replaced \subseteq Fields \X ({0} \cup Edits) /\ blind \subseteq replaced

\* An edit that was answered is in force, was replaced later, or is before the
\* owner; and no edit that said what it saw wrote over a value it had not seen,
\* unless the row changed between the handler's read and its write.
NoEditLost ==
    /\ blind = {}
    /\ \A e \in Edits : edit[e] = "answered" =>
          \A f \in EditOf[e].fields :
             \/ value[EditOf[e].thing][f] = e
             \/ <<f, e>> \in replaced
             \/ \E c \in review : c.edit = e /\ (c.kind = "removed" \/ c.field = f)
=============================================================================
