----------------------------- MODULE ShopProofs -----------------------------
(***************************************************************************)
(* Theorems about a shop: the edits of Catalogue, for every number of      *)
(* devices, edits, things and handlers; the migrations of Imports, for     *)
(* every backup; and the types of the whole shop, to which BooksProofs     *)
(* gives those of the books.                                               *)
(***************************************************************************)
EXTENDS Shop, BooksProofs

----------------------------------------------------------------------------
(***************************************************************************)
(* Edits.                                                                  *)
(***************************************************************************)
EditValue == {0} \cup Edits
EditRow == [Fields -> EditValue]
Editing == [edit : Edits, row : EditRow, state : {"none", "live", "archived"}, base : EditRow]

\* What is stored, seen and in hand is typed, and so is what is to review.
EditTypes ==
    /\ value \in [Things -> EditRow]
    /\ seen \in [Devices -> [Things -> EditRow]]
    /\ state \in [Things -> {"none", "live", "archived"}]
    /\ edit \in [Edits -> {"new", "sent", "answered"}]
    /\ handler \in [Handlers -> {Resting} \cup Editing]
    /\ review \subseteq [kind : {"field", "removed"}, thing : Things, field : Fields,
                         edit : Edits, status : {"OPEN", "RESOLVED"}]

\* The edit in a handler's hands is in no other's, is not answered, and cannot
\* be what the handler read; whatever is stored or to review was answered.
EditsInHand ==
    /\ \A h \in Handlers : handler[h] # Resting =>
          /\ edit[handler[h].edit] = "sent"
          /\ \A f \in Fields : handler[h].row[f] # handler[h].edit
          /\ \A g \in Handlers : g # h => handler[g].edit # handler[h].edit
    /\ \A x \in Things, f \in Fields :
          value[x][f] \in Edits => edit[value[x][f]] = "answered"
    /\ \A c \in review : edit[c.edit] = "answered"

\* Where the value of an answered edit is.
EditKept(e, f) ==
    \/ value[EditOf[e].thing][f] = e
    \/ <<f, e>> \in replaced
    \/ \E c \in review : c.edit = e /\ (c.kind = "removed" \/ c.field = f)

EditsKept == \A e \in Edits : edit[e] = "answered" => \A f \in EditOf[e].fields : EditKept(e, f)

EditInv == EditTypes /\ EditsInHand /\ blind = {} /\ EditsKept

----------------------------------------------------------------------------
LEMMA RestingIsNoWork == \A w \in Editing : w # Resting /\ w.edit # Resting.edit
  BY EditsAssumption DEF Editing, Resting

LEMMA EditFields ==
    ASSUME NEW e \in Edits
    PROVE  /\ EditOf[e].device \in Devices /\ EditOf[e].thing \in Things
           /\ EditOf[e].fields \subseteq Fields /\ EditOf[e].saysBase \in BOOLEAN
  BY EditsAssumption

LEMMA EditInvInit == CatalogueInit => EditInv
<1> SUFFICES ASSUME CatalogueInit PROVE EditInv
  OBVIOUS
<1>1. Unset \in EditRow
  BY DEF Unset, EditRow, EditValue
<1>2. EditTypes
  BY <1>1 DEF CatalogueInit, EditTypes
<1>3. EditsInHand
  BY EditsAssumption DEF CatalogueInit, EditsInHand, Unset
<1>4. QED
  BY <1>2, <1>3 DEF CatalogueInit, EditInv, EditsKept

\* Writing fields of a thing keeps track of what they replace.
LEMMA WritingKeeps ==
    ASSUME EditTypes, EditsKept, NEW x \in Things, NEW e \in Edits, NEW fields \in SUBSET Fields,
           value' = [value EXCEPT ![x] = Written(@, fields, e)],
           replaced' = replaced \cup WrittenOver(value[x], fields),
           \A c \in review : \E d \in review' :
               d.edit = c.edit /\ d.kind = c.kind /\ d.field = c.field,
           NEW a \in Edits, NEW f \in EditOf[a].fields, EditKept(a, f)
    PROVE  EditKept(a, f)'
<1>1. f \in Fields /\ EditOf[a].thing \in Things
  BY EditFields
<1>2. CASE value[EditOf[a].thing][f] = a
  <2>1. CASE EditOf[a].thing = x /\ f \in fields
    BY <1>2, <2>1 DEF WrittenOver, EditKept
  <2>2. CASE ~(EditOf[a].thing = x /\ f \in fields)
    <3>1. value'[EditOf[a].thing][f] = value[EditOf[a].thing][f]
      BY <1>1, <2>2 DEF Written, EditTypes
    <3>2. QED
      BY <1>2, <3>1 DEF EditKept
  <2>3. QED
    BY <2>1, <2>2
<1>3. CASE <<f, a>> \in replaced
  BY <1>3 DEF EditKept
<1>4. CASE \E c \in review : c.edit = a /\ (c.kind = "removed" \/ c.field = f)
  BY <1>4 DEF EditKept
<1>5. QED
  BY <1>2, <1>3, <1>4 DEF EditKept

\* A thing, a device or the plan changes, no value and no edit.
LEMMA QuietKeepsEdits ==
    ASSUME EditInv, EditTypes', UNCHANGED <<value, edit, handler, review, replaced, blind>>
    PROVE  EditInv'
<1>1. EditsInHand'
  BY DEF EditInv, EditsInHand
<1>2. EditsKept'
  BY DEF EditInv, EditsKept, EditKept
<1>3. QED
  BY <1>1, <1>2 DEF EditInv

LEMMA BeginKeepsEdits ==
    ASSUME EditInv, NEW h \in Handlers, NEW e \in Edits, NEW kind, BeginEdit(h, e, kind)
    PROVE  EditInv'
<1> DEFINE x == EditOf[e].thing
           w == [edit |-> e, row |-> value[x], state |-> state[x],
                 base |-> seen[EditOf[e].device][x]]
<1>1. /\ handler[h] = Resting /\ edit[e] = "new"
      /\ edit' = [edit EXCEPT ![e] = "sent"]
      /\ handler' = [handler EXCEPT ![h] = w]
      /\ UNCHANGED <<state, value, seen, review, replaced, blind>>
  BY DEF BeginEdit
<1>2. EditTypes /\ EditsInHand /\ EditsKept /\ blind = {}
  BY DEF EditInv
<1>3. x \in Things /\ EditOf[e].device \in Devices
  BY EditFields
<1>4. w \in Editing
  BY <1>2, <1>3 DEF Editing, EditTypes
<1>5. EditTypes'
  BY <1>1, <1>2, <1>4 DEF EditTypes
<1>6. EditsInHand'
  <2>1. \A f \in Fields : w.row[f] # e
    BY <1>1, <1>2, <1>3 DEF EditsInHand
  <2>2. \A g \in Handlers : g # h => handler[g].edit # e
    BY <1>1, <1>2, EditsAssumption DEF EditsInHand, Resting
  <2>3. \A a \in Edits : edit[a] = "answered" => edit'[a] = "answered"
    BY <1>1, <1>2 DEF EditTypes
  <2>4. handler'[h] = w /\ edit'[e] = "sent" /\ w.edit = e
    BY <1>1, <1>2 DEF EditTypes
  <2>5. ASSUME NEW g \in Handlers, g # h, handler'[g] # Resting
        PROVE  /\ handler'[g] = handler[g] /\ edit'[handler[g].edit] = "sent"
               /\ \A f \in Fields : handler[g].row[f] # handler[g].edit
               /\ \A i \in Handlers : i # g => handler'[i].edit # handler[g].edit
    <3>1. handler'[g] = handler[g]
      BY <1>1, <1>2, <2>5 DEF EditTypes
    <3>2. handler[g] \in Editing
      BY <1>2, <2>5, <3>1 DEF EditTypes
    <3>3. edit[handler[g].edit] = "sent" /\ handler[g].edit \in Edits
      BY <1>2, <2>5, <3>1, <3>2 DEF EditsInHand, Editing
    <3>4. QED
      BY <1>1, <1>2, <2>2, <2>4, <2>5, <3>1, <3>3 DEF EditsInHand, EditTypes
  <2>6. \A i \in Handlers : i # h => handler'[i].edit # e
    BY <1>1, <1>2, <2>2 DEF EditTypes
  <2>7. \A c \in review : c.edit \in Edits
    BY <1>2 DEF EditTypes
  <2> HIDE DEF w
  <2>8. QED
    BY <1>1, <1>2, <2>1, <2>3, <2>4, <2>5, <2>6, <2>7 DEF EditsInHand
<1>7. EditsKept'
  BY <1>1, <1>2 DEF EditsKept, EditKept, EditTypes
<1>8. QED
  BY <1>1, <1>2, <1>5, <1>6, <1>7 DEF EditInv

\* What becomes of each field of the edit in hand when it is written.
LEMMA CommitDecides ==
    ASSUME EditInv, NEW h \in Handlers, NEW kind, NEW mayBeRemoved \in BOOLEAN,
           CommitEdit(h, kind, mayBeRemoved)
    PROVE  LET w == handler[h]
               e == w.edit
               x == EditOf[e].thing
           IN  \E fields \in SUBSET Fields :
                  /\ w \in Editing /\ e \in Edits /\ x \in Things
                  /\ value' = [value EXCEPT ![x] = Written(@, fields, e)]
                  /\ replaced' = replaced \cup WrittenOver(value[x], fields)
                  /\ review \subseteq review'
                  /\ \A c \in review' \ review :
                        c.edit = e /\ c \in [kind : {"field", "removed"}, thing : Things,
                                            field : Fields, edit : Edits, status : {"OPEN", "RESOLVED"}]
                  /\ \A f \in EditOf[e].fields \ fields :
                        \E c \in review' : c.edit = e /\ (c.kind = "removed" \/ c.field = f)
                  /\ blind' = {}
                  /\ edit' = [edit EXCEPT ![e] = "answered"]
                  /\ handler' = [handler EXCEPT ![h] = Resting]
                  /\ UNCHANGED <<state, seen>>
<1> DEFINE w == handler[h]
           e == w.edit
           x == EditOf[e].thing
           removed == mayBeRemoved /\ EditOf[e].saysBase /\ w.state = "archived"
           fields == IF removed THEN {} ELSE Applies(w.row, e, w.base)
           knows == ~EditOf[e].saysBase \/ w.row # value[x]
           clashing == IF removed THEN {RemovedEdit(x, e)}
                       ELSE {FieldClash(x, f, e) : f \in Clashes(w.row, e, w.base)}
<1>1. /\ w # Resting
      /\ review' = review \cup clashing
      /\ value' = [value EXCEPT ![x] = Written(@, fields, e)]
      /\ replaced' = replaced \cup WrittenOver(value[x], fields)
      /\ blind' = IF knows THEN blind
                  ELSE blind \cup {<<f, value[x][f]>> : f \in {f \in fields : value[x][f] # w.base[f]}}
      /\ edit' = [edit EXCEPT ![e] = "answered"]
      /\ handler' = [handler EXCEPT ![h] = Resting]
      /\ UNCHANGED <<state, seen>>
  BY DEF CommitEdit
<1>2. w \in Editing /\ e \in Edits
  BY <1>1 DEF EditInv, EditTypes, Editing
<1>3. x \in Things /\ EditOf[e].fields \subseteq Fields
  BY <1>2, EditFields
<1>4. fields \in SUBSET Fields
  BY <1>3 DEF Applies
<1>5. \A c \in clashing :
          c.edit = e /\ c \in [kind : {"field", "removed"}, thing : Things,
                              field : Fields, edit : Edits, status : {"OPEN", "RESOLVED"}]
  <2>1. RemovedEdit(x, e).edit = e
        /\ RemovedEdit(x, e) \in [kind : {"field", "removed"}, thing : Things,
                                  field : Fields, edit : Edits, status : {"OPEN", "RESOLVED"}]
    BY <1>2, <1>3 DEF RemovedEdit, Fields
  <2>2. \A f \in Fields :
          FieldClash(x, f, e).edit = e
          /\ FieldClash(x, f, e) \in [kind : {"field", "removed"}, thing : Things,
                                      field : Fields, edit : Edits, status : {"OPEN", "RESOLVED"}]
    BY <1>2, <1>3 DEF FieldClash
  <2>3. Clashes(w.row, e, w.base) \subseteq Fields
    BY <1>3 DEF Clashes
  <2>4. QED
    BY <2>1, <2>2, <2>3, ZenonT(30)
<1>6. ASSUME NEW f \in EditOf[e].fields \ fields
      PROVE  \E c \in clashing : c.edit = e /\ (c.kind = "removed" \/ c.field = f)
  <2>1. CASE removed
    BY <2>1 DEF RemovedEdit
  <2>2. CASE ~removed
    <3>1. w.row[f] # e
      BY <1>1, <1>3, <1>6 DEF EditInv, EditsInHand
    <3>2. f \in Clashes(w.row, e, w.base)
      BY <1>6, <2>2, <3>1 DEF Clashes
    <3>3. FieldClash(x, f, e) \in clashing
      BY <2>2, <3>2
    <3>4. FieldClash(x, f, e).edit = e /\ FieldClash(x, f, e).field = f
      BY DEF FieldClash
    <3>5. QED
      BY <3>3, <3>4
  <2>3. QED
    BY <2>1, <2>2
<1>7. blind' = {}
  <2>1. CASE knows
    BY <1>1, <2>1 DEF EditInv
  <2>2. CASE ~knows
    <3>1. \A f \in fields : value[x][f] = w.base[f]
      BY <2>2 DEF Applies
    <3> HIDE DEF fields, w, x
    <3>2. {f \in fields : value[x][f] # w.base[f]} = {}
      BY <3>1
    <3>3. QED
      BY <1>1, <2>2, <3>2 DEF EditInv
  <2>3. QED
    BY <2>1, <2>2
<1> HIDE DEF fields, clashing
<1>8. /\ review \subseteq review'
      /\ \A c \in review' \ review :
            c.edit = e /\ c \in [kind : {"field", "removed"}, thing : Things,
                                field : Fields, edit : Edits, status : {"OPEN", "RESOLVED"}]
  BY <1>1, <1>5
<1>9. \A f \in EditOf[e].fields \ fields :
          \E c \in review' : c.edit = e /\ (c.kind = "removed" \/ c.field = f)
  BY <1>1, <1>6
<1> HIDE DEF w, e, x
<1>10. QED
  BY <1>1, <1>2, <1>3, <1>4, <1>7, <1>8, <1>9 DEF w, e, x

LEMMA CommitKeepsEdits ==
    ASSUME EditInv, NEW h \in Handlers, NEW kind, NEW mayBeRemoved \in BOOLEAN,
           CommitEdit(h, kind, mayBeRemoved)
    PROVE  EditInv'
<1> DEFINE w == handler[h]
           e == w.edit
           x == EditOf[e].thing
<1>1. PICK fields \in SUBSET Fields :
          /\ w \in Editing /\ e \in Edits /\ x \in Things
          /\ value' = [value EXCEPT ![x] = Written(@, fields, e)]
          /\ replaced' = replaced \cup WrittenOver(value[x], fields)
          /\ review \subseteq review'
          /\ \A c \in review' \ review :
                c.edit = e /\ c \in [kind : {"field", "removed"}, thing : Things,
                                    field : Fields, edit : Edits, status : {"OPEN", "RESOLVED"}]
          /\ \A f \in EditOf[e].fields \ fields :
                \E c \in review' : c.edit = e /\ (c.kind = "removed" \/ c.field = f)
          /\ blind' = {}
          /\ edit' = [edit EXCEPT ![e] = "answered"]
          /\ handler' = [handler EXCEPT ![h] = Resting]
          /\ UNCHANGED <<state, seen>>
  BY CommitDecides
<1>2. EditTypes /\ EditsInHand /\ EditsKept
  BY DEF EditInv
<1>3. w # Resting
  BY <1>1, RestingIsNoWork
<1>4. EditTypes'
  <2>1. Written(value[x], fields, e) \in EditRow
    BY <1>1, <1>2 DEF Written, EditRow, EditValue, EditTypes
  <2> HIDE DEF e, x
  <2>2. value' \in [Things -> EditRow]
    BY <1>1, <1>2, <2>1 DEF EditTypes
  <2>3. QED
    BY <1>1, <1>2, <2>2 DEF EditTypes
<1>5. EditsInHand'
  <2>1. \A g \in Handlers : g # h => handler'[g] = handler[g] /\ handler[g].edit # e
    BY <1>1, <1>2, <1>3 DEF EditsInHand, EditTypes
  <2>2. handler'[h] = Resting
    BY <1>1, <1>2 DEF EditTypes
  <2>3. \A a \in Edits : edit'[a] = IF a = e THEN "answered" ELSE edit[a]
    BY <1>1, <1>2 DEF EditTypes
  <2>4. \A g \in Handlers : handler[g] # Resting => handler[g].edit \in Edits
    BY <1>2 DEF EditTypes, Editing
  <2>5. \A y \in Things, f \in Fields :
            value'[y][f] = value[y][f] \/ value'[y][f] = e
    BY <1>1, <1>2 DEF EditTypes, Written
  <2>6. \A c \in review' : c \in review \/ c.edit = e
    BY <1>1
  <2>7. \A c \in review : c.edit \in Edits
    BY <1>2 DEF EditTypes
  <2>8. ASSUME NEW g \in Handlers, handler'[g] # Resting
        PROVE  /\ edit'[handler'[g].edit] = "sent"
               /\ \A f \in Fields : handler'[g].row[f] # handler'[g].edit
               /\ \A i \in Handlers : i # g => handler'[i].edit # handler'[g].edit
    <3>1. g # h /\ handler'[g] = handler[g] /\ handler[g] # Resting
      BY <2>1, <2>2, <2>8
    <3>2. /\ edit[handler[g].edit] = "sent" /\ handler[g].edit \in Edits
          /\ handler[g].edit # e
          /\ \A f \in Fields : handler[g].row[f] # handler[g].edit
          /\ \A i \in Handlers : i # g => handler[i].edit # handler[g].edit
      BY <1>2, <2>1, <2>4, <3>1 DEF EditsInHand
    <3>3. handler[g].edit # Resting.edit
      BY <3>2, EditsAssumption DEF Resting
    <3>4. QED
      BY <2>1, <2>2, <2>3, <3>1, <3>2, <3>3
  <2>9. \A y \in Things, f \in Fields :
            value'[y][f] \in Edits => edit'[value'[y][f]] = "answered"
    BY <1>2, <2>3, <2>5 DEF EditsInHand
  <2>10. \A c \in review' : edit'[c.edit] = "answered"
    <3> HIDE DEF e
    <3>1. QED
      BY <1>1, <1>2, <2>3, <2>6, <2>7 DEF EditsInHand
  <2>11. QED
    BY <2>8, <2>9, <2>10 DEF EditsInHand
<1>6. EditsKept'
  <2> SUFFICES ASSUME NEW a \in Edits, edit'[a] = "answered", NEW f \in EditOf[a].fields
               PROVE  EditKept(a, f)'
    BY DEF EditsKept
  <2>1. CASE a = e
    <3>1. CASE f \in fields
      <4>1. f \in Fields
        BY EditFields
      <4>2. value'[x][f] = e
        BY <1>1, <1>2, <3>1, <4>1 DEF Written, EditTypes
      <4>3. QED
        BY <2>1, <4>2 DEF EditKept
    <3>2. CASE f \notin fields
      BY <1>1, <2>1, <3>2 DEF EditKept
    <3>3. QED
      BY <3>1, <3>2
  <2>2. CASE a # e
    <3>1. edit[a] = "answered"
      BY <1>1, <1>2, <2>2 DEF EditTypes
    <3>2. EditKept(a, f)
      BY <1>2, <3>1 DEF EditsKept
    <3> HIDE DEF e, x
    <3>3. QED
      BY <1>1, <1>2, <3>2, WritingKeeps
  <2>3. QED
    BY <2>1, <2>2
<1>7. QED
  BY <1>1, <1>4, <1>5, <1>6 DEF EditInv

\* The owner decides on one of the things to review.
LEMMA ResolveKeepsEdits ==
    ASSUME EditInv, NEW c \in review, c.status = "OPEN",
           KeepCloud(c) \/ TakeDevice(c) \/ Restore(c)
    PROVE  EditInv'
<1> DEFINE done == [c EXCEPT !.status = "RESOLVED"]
           x == c.thing
           e == c.edit
<1>1. EditTypes /\ EditsInHand /\ EditsKept /\ blind = {}
  BY DEF EditInv
<1>2. /\ c \in [kind : {"field", "removed"}, thing : Things, field : Fields,
                 edit : Edits, status : {"OPEN", "RESOLVED"}]
      /\ edit[e] = "answered"
  BY <1>1 DEF EditTypes, EditsInHand
<1>3. /\ done.edit = c.edit /\ done.kind = c.kind /\ done.field = c.field
      /\ done \in [kind : {"field", "removed"}, thing : Things, field : Fields,
                    edit : Edits, status : {"OPEN", "RESOLVED"}]
  BY <1>2
<1>4. x \in Things /\ e \in Edits /\ c.field \in Fields
  BY <1>2
<1>5. PICK fields \in SUBSET Fields :
          /\ value' = [value EXCEPT ![x] = Written(@, fields, e)]
          /\ replaced' = replaced \cup WrittenOver(value[x], fields)
  <2>1. CASE KeepCloud(c)
    <3>1. value' = [value EXCEPT ![x] = Written(@, {}, e)]
      BY <1>1, <1>4, <2>1 DEF KeepCloud, Written, EditTypes, EditRow
    <3>2. replaced' = replaced \cup WrittenOver(value[x], {})
      BY <2>1 DEF KeepCloud, WrittenOver
    <3>3. QED
      BY <3>1, <3>2
  <2>2. CASE TakeDevice(c)
    BY <1>4, <2>2 DEF TakeDevice
  <2>3. CASE Restore(c)
    BY <1>4, <2>3, EditFields DEF Restore
  <2>4. QED
    BY <2>1, <2>2, <2>3
<1>6. /\ review' = (review \ {c}) \cup {done}
      /\ UNCHANGED <<seen, edit, handler, blind>>
      /\ state' = state \/ state' = [state EXCEPT ![x] = "live"]
  BY DEF KeepCloud, TakeDevice, Restore, Resolved
<1>7. EditTypes'
  <2>1. Written(value[x], fields, e) \in EditRow
    BY <1>1, <1>4 DEF Written, EditRow, EditValue, EditTypes
  <2> HIDE DEF e, x, done
  <2>2. value' \in [Things -> EditRow]
    BY <1>1, <1>4, <1>5, <2>1 DEF EditTypes
  <2>3. QED
    BY <1>1, <1>3, <1>4, <1>6, <2>2 DEF EditTypes
<1>8. EditsInHand'
  <2>1. \A y \in Things, f \in Fields :
            value'[y][f] = value[y][f] \/ value'[y][f] = e
    BY <1>1, <1>4, <1>5 DEF EditTypes, Written
  <2>2. \A d \in review' : edit[d.edit] = "answered"
    BY <1>1, <1>2, <1>3, <1>6 DEF EditsInHand
  <2> HIDE DEF e, x, done
  <2>3. QED
    BY <1>1, <1>2, <1>6, <2>1, <2>2 DEF EditsInHand, e
<1>9. EditsKept'
  <2>1. \A d \in review : \E b \in review' :
            b.edit = d.edit /\ b.kind = d.kind /\ b.field = d.field
    BY <1>3, <1>6
  <2> SUFFICES ASSUME NEW a \in Edits, edit'[a] = "answered", NEW f \in EditOf[a].fields
               PROVE  EditKept(a, f)'
    BY DEF EditsKept
  <2>2. EditKept(a, f)
    BY <1>1, <1>6 DEF EditsKept
  <2> HIDE DEF e, x, done
  <2>3. QED
    BY <1>1, <1>4, <1>5, <2>1, <2>2, WritingKeeps
<1>10. QED
  BY <1>1, <1>6, <1>7, <1>8, <1>9 DEF EditInv

LEMMA EditInvStep == EditInv /\ [CatalogueNext]_catalogueVars => EditInv'
<1> SUFFICES ASSUME EditInv, [CatalogueNext]_catalogueVars PROVE EditInv'
  OBVIOUS
<1>1. CASE UNCHANGED catalogueVars
  BY <1>1, QuietKeepsEdits DEF catalogueVars, EditInv, EditTypes
<1>2. ASSUME NEW x \in Things, AddProduct(x) \/ ArchiveProduct(x)
      PROVE  EditInv'
  BY <1>2, QuietKeepsEdits DEF AddProduct, ArchiveProduct, EditInv, EditTypes
<1>3. ASSUME NEW d \in Devices, Fetch(d)
      PROVE  EditInv'
  BY <1>3, QuietKeepsEdits DEF Fetch, EditInv, EditTypes
<1>4. ASSUME NEW h \in Handlers, NEW e \in Edits,
             ReadProduct(h, e) \/ ReadCustomer(h, e) \/ ReadSupplier(h, e) \/ ReadBranchPrice(h, e)
      PROVE  EditInv'
  BY <1>4, BeginKeepsEdits DEF ReadProduct, ReadCustomer, ReadSupplier, ReadBranchPrice
<1>5. ASSUME NEW h \in Handlers,
             PatchProduct(h) \/ PatchCustomer(h) \/ PatchSupplier(h) \/ PutBranchPrice(h)
      PROVE  EditInv'
  BY <1>5, CommitKeepsEdits DEF PatchProduct, PatchCustomer, PatchSupplier, PutBranchPrice
<1>6. ASSUME NEW c \in review, KeepCloud(c) \/ TakeDevice(c) \/ Restore(c)
      PROVE  EditInv'
  BY <1>6, ResolveKeepsEdits DEF KeepCloud, TakeDevice, Restore
<1>7. QED
  BY <1>1, <1>2, <1>3, <1>4, <1>5, <1>6 DEF CatalogueNext

\* No edit is lost: an answered one is in force, was replaced later, or is before
\* the owner, and none that said what it saw writes over a value it had not seen
\* unless the row changed after the handler read it.
THEOREM NoEditIsLost == CatalogueSpec => []NoEditLost
<1>1. EditInv => NoEditLost
  BY DEF EditInv, EditsKept, EditKept, NoEditLost
<1>2. QED
  BY <1>1, EditInvInit, EditInvStep, PTL DEF CatalogueSpec

\* What was written over is a value some edit gave its field, or the first one.
ReplacedTyped == replaced \subseteq Fields \X EditValue

LEMMA WritingOverIsTyped ==
    ASSUME EditTypes, ReplacedTyped, NEW x \in Things, NEW fields \in SUBSET Fields,
           replaced' = replaced \cup WrittenOver(value[x], fields)
    PROVE  ReplacedTyped'
<1>1. \A f \in fields : <<f, value[x][f]>> \in Fields \X EditValue
  BY DEF EditTypes, EditRow
<1>2. QED
  BY <1>1 DEF ReplacedTyped, WrittenOver

LEMMA ReplacedStaysTyped == EditInv /\ ReplacedTyped /\ [CatalogueNext]_catalogueVars => ReplacedTyped'
<1> SUFFICES ASSUME EditInv, ReplacedTyped, [CatalogueNext]_catalogueVars PROVE ReplacedTyped'
  OBVIOUS
<1>1. EditTypes
  BY DEF EditInv
<1>2. CASE UNCHANGED replaced
  BY <1>2 DEF ReplacedTyped
<1>3. ASSUME NEW h \in Handlers, NEW kind, NEW mayBeRemoved \in BOOLEAN, CommitEdit(h, kind, mayBeRemoved)
      PROVE  ReplacedTyped'
  <2> DEFINE x == EditOf[handler[h].edit].thing
  <2>1. x \in Things /\ \E fields \in SUBSET Fields : replaced' = replaced \cup WrittenOver(value[x], fields)
    BY <1>3, CommitDecides
  <2> HIDE DEF x
  <2>2. PICK fields \in SUBSET Fields : replaced' = replaced \cup WrittenOver(value[x], fields)
    BY <2>1
  <2>3. QED
    BY <1>1, <2>1, <2>2, WritingOverIsTyped
<1>4. ASSUME NEW h \in Handlers,
             PatchProduct(h) \/ PatchCustomer(h) \/ PatchSupplier(h) \/ PutBranchPrice(h)
      PROVE  ReplacedTyped'
  BY <1>3, <1>4 DEF PatchProduct, PatchCustomer, PatchSupplier, PutBranchPrice
<1>5. ASSUME NEW c \in review, TakeDevice(c) \/ Restore(c) PROVE ReplacedTyped'
  <2>1. c.thing \in Things /\ c.field \in Fields /\ EditOf[c.edit].fields \subseteq Fields
    BY <1>1, EditFields DEF EditTypes
  <2>2. \E fields \in SUBSET Fields : replaced' = replaced \cup WrittenOver(value[c.thing], fields)
    BY <1>5, <2>1 DEF TakeDevice, Restore
  <2>3. QED
    BY <1>1, <2>1, <2>2, WritingOverIsTyped
<1>6. QED
  BY <1>2, <1>4, <1>5
     DEF CatalogueNext, catalogueVars, AddProduct, ArchiveProduct, Fetch, ReadProduct, ReadCustomer,
         ReadSupplier, ReadBranchPrice, BeginEdit, KeepCloud

\* Every variable of the catalogue keeps its type.
THEOREM CatalogueTypes == CatalogueSpec => []CatalogueTypeOK
<1>1. CatalogueInit => ReplacedTyped
  BY DEF CatalogueInit, ReplacedTyped
<1>2. ASSUME EditInv, ReplacedTyped PROVE CatalogueTypeOK
  <2>1. \A h \in Handlers : handler[h].edit \in {0} \cup Edits
    <3>1. \A h \in Handlers : handler[h] = Resting \/ handler[h] \in Editing
      BY <1>2 DEF EditInv, EditTypes
    <3>2. QED
      BY <3>1 DEF Resting, Editing
  <2>2. QED
    BY <1>2, <2>1 DEF EditInv, EditTypes, EditRow, EditValue, ReplacedTyped, CatalogueTypeOK
<1>3. QED
  BY <1>1, <1>2, EditInvInit, EditInvStep, ReplacedStaysTyped, PTL DEF CatalogueSpec

----------------------------------------------------------------------------
(***************************************************************************)
(* Imports.                                                                *)
(***************************************************************************)

\* What an import of the backup leaves: each of its products is there as the
\* backup has it, or the plan had no room for it ...
SameProduct(p, row) == p.name = row.name /\ p.sku = row.sku /\ p.barcode = row.barcode

ProductDone(list, row) ==
    IF FindMatch(list, row) = 0 THEN Cardinality(LiveOf(list)) >= PlanProducts
    ELSE SameProduct(list[FindMatch(list, row)], row)

ProductsDone(list) == \A n \in DOMAIN ProductFile : ProductDone(list, ProductFile[n])

\* ... so is each customer ...
CustomerDone(list, row) ==
    IF FindCustomer(list, row) = 0 THEN Cardinality(LiveOf(list)) >= PlanCustomers
    ELSE list[FindCustomer(list, row)].name = row.name /\ list[FindCustomer(list, row)].phone = row.phone

CustomersDone(list) == \A n \in DOMAIN CustomerFile : CustomerDone(list, CustomerFile[n])

\* ... and the payment methods up to the n-th ...
MethodsDone(list, n) == \A m \in 1..n : \E i \in DOMAIN list : list[i] = MethodFile[m]

\* ... the suppliers of the file are found, and those that rows only name ...
Named(r) == HistoryFile[r].store \in {"purchases", "supplier_ledger"} /\ HistoryFile[r].supplier = 0
FileNames == {SupplierFile[n].name : n \in DOMAIN SupplierFile}
NameFound(list, name) == \E i \in LiveOf(list) : list[i].name = name
SuppliersFound(list) == \A n \in DOMAIN SupplierFile : FindSupplier(list, SupplierFile[n]) # 0

SuppliersDone(list) ==
    /\ SuppliersFound(list)
    /\ \A r \in DOMAIN HistoryFile :
          Named(r) => HistoryFile[r].name \in FileNames \/ NameFound(list, HistoryFile[r].name)

\* ... and a row of the books is recorded, or is none that could be.
RowDone(book, r) ==
    \/ book[r].status # "none"
    \/ HistoryFile[r].store = "purchase_returns" /\ book[HistoryFile[r].of].status = "none"
    \/ HistoryFile[r].store = "expenses" /\ IsMirror(r)
    \/ HistoryFile[r].store = "ledger" /\ CustomerFor(HistoryFile[r]) = 0

HistoryDone(book) == \A r \in DOMAIN HistoryFile : RowDone(book, r)

\* Each list for itself.
ProductsFit(list) ==
    /\ list \in Seq(Product) /\ Apart(list, "sku") /\ Cardinality(LiveOf(list)) <= PlanProducts
    /\ \A p \in DOMAIN list : BatchesAreStock(list[p])

CustomersFit(list) ==
    /\ list \in Seq(Customer) /\ Apart(list, "phone") /\ Cardinality(LiveOf(list)) <= PlanCustomers

SuppliersFit(list) == list \in Seq(Supplier) /\ Apart(list, "name")

Recording == [status : {"none", "live", "struck"}, party : Nat]

\* Recorded rows name suppliers, or customers, that there are.
HistoryFits(book, nSuppliers, nCustomers) ==
    /\ book \in [DOMAIN HistoryFile -> Recording]
    /\ \A r \in DOMAIN HistoryFile :
          /\ HistoryFile[r].store \notin {"ledger", "cashbook"} => book[r].party <= nSuppliers
          /\ HistoryFile[r].store = "ledger" => book[r].party <= nCustomers

BatchesJob == [step : {"batches"}, since : Nat, map : [DOMAIN ProductFile -> 0..Len(products)]]
CustomersJob == [step : {"customers"}, since : Nat]
MethodsJob == [step : {"methods"}, since : Nat, next : 1..(Len(MethodFile) + 1)]

ImportFits ==
    /\ ProductsFit(products) /\ CustomersFit(customers) /\ SuppliersFit(suppliers)
    /\ HistoryFits(history, Len(suppliers), Len(customers))
    /\ methods \in Seq(Nat) /\ IsInjective(methods)
    /\ job \in {NoImport} \cup BatchesJob \cup CustomersJob \cup MethodsJob
    /\ imports \in 0..MaxImports /\ others \in 0..MaxOthers /\ doubled \in BOOLEAN

\* What the import in progress has done, unless something came between or two rows
\* of the backup are one thing.
ImportProgress ==
    job # NoImport =>
        /\ made.others <= job.since /\ job.since <= others
        /\ RowsAreTwoThings /\ job.since = others =>
              /\ ProductsDone(products)
              /\ job.step = "methods" =>
                    CustomersDone(customers) /\ MethodsDone(methods, job.next - 1)

\* After a backup of rows that are two things each, which nothing disturbed, and as
\* long as nothing else happens, all of it is there and a repetition adds nothing.
NothingLeft ==
    /\ made.others \in Int /\ made.others <= others
    /\ RowsAreTwoThings /\ made.others = others =>
          /\ ProductsDone(products) /\ CustomersDone(customers)
          /\ MethodsDone(methods, Len(MethodFile))
          /\ SuppliersDone(suppliers) /\ HistoryDone(history)
          /\ made = Amounts

ImportInv == ImportFits /\ ImportProgress /\ NothingLeft /\ (RowsAreTwoThings => doubled = FALSE)

----------------------------------------------------------------------------
(***************************************************************************)
(* The loops of an import go through one result after another.             *)
(***************************************************************************)
\* Some turns of n and fewer.
Few(T, k) == {U \in SUBSET T : Cardinality(U) <= k}

LEMMA FewTurns ==
    ASSUME NEW N \in Nat
    PROVE  /\ Few(1..N, N) = SUBSET (1..N) /\ 1..N \in SUBSET (1..N)
           /\ {} \in Few(1..N, 0) /\ \A U \in Few(1..N, 0) : U = {}
           /\ \A k \in Nat : \A U \in Few(1..N, k + 1) :
                 U # {} => /\ U \ {Max(U)} \in Few(1..N, k)
                           /\ (Cardinality(U) <= k => U \in Few(1..N, k))
           /\ \A k \in Nat : Few(1..N, k) \subseteq Few(1..N, k + 1)
           /\ \A k \in Nat : \A U \in Few(1..N, k) : U # {} => U \ {Max(U)} \in Few(1..N, k)
<1> DEFINE T == 1..N
<1>1. IsFiniteSet(T) /\ Cardinality(T) = N /\ T \subseteq Nat
  BY FS_Interval
<1>2. ASSUME NEW U \in SUBSET T
      PROVE  /\ IsFiniteSet(U) /\ Cardinality(U) \in Nat /\ Cardinality(U) <= N
             /\ (Cardinality(U) = 0 <=> U = {})
  <2>1. IsFiniteSet(U) /\ Cardinality(U) <= Cardinality(T)
    BY <1>1, FS_Subset
  <2>2. QED
    BY <1>1, <2>1, FS_CardinalityType, FS_EmptySet
<1> HIDE DEF T
<1>3. ASSUME NEW U \in SUBSET T, U # {}
      PROVE  /\ U \ {Max(U)} \in SUBSET T
             /\ Cardinality(U) \in Nat /\ Cardinality(U \ {Max(U)}) = Cardinality(U) - 1
  BY <1>1, <1>3, LastTurn
<1>4. Few(T, N) = SUBSET T /\ T \in SUBSET T
  BY <1>2 DEF Few
<1>5. {} \in Few(T, 0) /\ \A U \in Few(T, 0) : U = {}
  <2>1. Cardinality({}) = 0 /\ {} \in SUBSET T
    BY FS_EmptySet
  <2>2. ASSUME NEW U \in Few(T, 0) PROVE U = {}
    <3>1. U \in SUBSET T /\ Cardinality(U) <= 0
      BY DEF Few
    <3>2. Cardinality(U) = 0
      BY <1>2, <3>1
    <3>3. QED
      BY <1>2, <3>1, <3>2
  <2>3. QED
    BY <2>1, <2>2 DEF Few
<1>6. ASSUME NEW k \in Nat, NEW U \in Few(T, k + 1), U # {}
      PROVE  /\ U \ {Max(U)} \in Few(T, k)
             /\ (Cardinality(U) <= k => U \in Few(T, k))
  BY <1>3, <1>6 DEF Few
<1>7. ASSUME NEW k \in Nat PROVE Few(T, k) \subseteq Few(T, k + 1)
  BY <1>2 DEF Few
<1>8. ASSUME NEW k \in Nat, NEW U \in Few(T, k), U # {} PROVE U \ {Max(U)} \in Few(T, k)
  BY <1>3, <1>8 DEF Few
<1>9. QED
  BY <1>4, <1>5, <1>6, <1>7, <1>8 DEF T

\* One turn of each of the loops.
OneTurn(loop, acc, x) ==
    CASE loop = "backup" -> UpsertProduct(acc, x, TRUE)
      [] loop = "list" -> UpsertProduct(acc, x, FALSE)
      [] loop = "customers" -> UpsertCustomer(acc, x)
      [] loop = "suppliers" -> FileSupplier(acc, x)
      [] loop = "books" -> ImportRow(acc, x)

\* The results of a loop after some sets of its turns.
InTurn(g, loop, base, seq, S) ==
    g = [U \in S |-> IF U = {} THEN base ELSE OneTurn(loop, g[U \ {Max(U)}], seq[Max(U)])]

LEMMA InTurnExists ==
    ASSUME NEW loop, NEW base, NEW N \in Nat, NEW seq
    PROVE  \E g : InTurn(g, loop, base, seq, SUBSET (1..N))
<1> DEFINE T == 1..N
           P == {k \in Nat : \E g : InTurn(g, loop, base, seq, Few(T, k))}
<1>1. 0 \in P
  <2> DEFINE g == [U \in Few(T, 0) |-> base]
  <2>1. InTurn(g, loop, base, seq, Few(T, 0))
    BY FewTurns DEF InTurn
  <2>2. QED
    BY <2>1
<1>2. ASSUME NEW k \in Nat, k \in P PROVE k + 1 \in P
  <2>1. PICK f : InTurn(f, loop, base, seq, Few(T, k))
    BY <1>2
  <2> DEFINE next(U) == OneTurn(loop, f[U \ {Max(U)}], seq[Max(U)])
             g == [U \in Few(T, k + 1) |-> IF U = {} THEN base ELSE next(U)]
  <2>2. ASSUME NEW U \in Few(T, k) PROVE U \in Few(T, k + 1) /\ g[U] = f[U]
    <3>1. U \in Few(T, k + 1)
      BY FewTurns
    <3>2. f[U] = IF U = {} THEN base ELSE next(U)
      BY <2>1 DEF InTurn
    <3>3. QED
      BY <3>1, <3>2
  <2>3. ASSUME NEW U \in Few(T, k + 1), U # {}
        PROVE  g[U] = OneTurn(loop, g[U \ {Max(U)}], seq[Max(U)])
    <3>1. g[U \ {Max(U)}] = f[U \ {Max(U)}]
      BY <2>2, <2>3, FewTurns
    <3>2. g[U] = next(U)
      BY <2>3
    <3>3. QED
      BY <3>1, <3>2
  <2>4. InTurn(g, loop, base, seq, Few(T, k + 1))
    <3>1. \A U \in Few(T, k + 1) : U = {} => g[U] = base
      OBVIOUS
    <3>2. g = [U \in Few(T, k + 1) |-> g[U]]
      OBVIOUS
    <3> HIDE DEF g
    <3>3. QED
      BY <2>3, <3>1, <3>2 DEF InTurn
  <2>5. QED
    BY <2>4
<1> HIDE DEF P
<1>3. N \in P
  BY <1>1, <1>2, NatSetInduction
<1>4. \E g : InTurn(g, loop, base, seq, Few(T, N))
  BY <1>3 DEF P
<1>5. Few(T, N) = SUBSET (1..N)
  BY FewTurns
<1>6. QED
  BY <1>4, <1>5

\* The results after the first turns, one after the other.
OneByOne(h, loop, base, seq, N) ==
    h[0] = base /\ \A n \in 1..N : h[n] = OneTurn(loop, h[n - 1], seq[n])

Reached(result, loop, base, seq, N) == \E h : OneByOne(h, loop, base, seq, N) /\ h[N] = result

LEMMA InTurnOneByOne ==
    ASSUME NEW g, NEW loop, NEW base, NEW N \in Nat, NEW seq,
           InTurn(g, loop, base, seq, SUBSET (1..N))
    PROVE  Reached(g[1..N], loop, base, seq, N)
<1> DEFINE h == [n \in 0..N |-> g[1..n]]
<1>1. h[0] = base
  <2>1. 1..0 = {} /\ {} \in SUBSET (1..N) /\ 0 \in 0..N
    OBVIOUS
  <2>2. g[{}] = base
    BY <2>1 DEF InTurn
  <2>3. QED
    BY <2>1, <2>2
<1>2. ASSUME NEW n \in 1..N
      PROVE  h[n] = OneTurn(loop, h[n - 1], seq[n])
  <2> DEFINE U == 1..n
  <2>1. /\ U \in SUBSET (1..N) /\ U # {} /\ Max(U) = n /\ U \ {n} = 1..(n - 1)
        /\ n \in 0..N /\ n - 1 \in 0..N
    BY FirstTurns
  <2>2. h[n] = g[U] /\ h[n - 1] = g[1..(n - 1)]
    BY <2>1
  <2> HIDE DEF U, h
  <2>3. g[U] = OneTurn(loop, g[U \ {Max(U)}], seq[Max(U)])
    BY <2>1 DEF InTurn
  <2>4. QED
    BY <2>1, <2>2, <2>3
<1>3. h[N] = g[1..N]
  OBVIOUS
<1> HIDE DEF h
<1>4. QED
  BY <1>1, <1>2, <1>3 DEF OneByOne, Reached

\* Each loop of Imports is one of these.
LEMMA ProductsOneByOne ==
    ASSUME NEW file, Len(file) \in Nat, DOMAIN file = 1..Len(file), NEW whole \in BOOLEAN
    PROVE  Reached(UpsertProducts(file, whole), IF whole THEN "backup" ELSE "list",
                   [list |-> products, map |-> <<>>, categories |-> categories], file, Len(file))
<1> DEFINE N == Len(file)
           S == SUBSET (1..N)
           base == [list |-> products, map |-> <<>>, categories |-> categories]
           loop == IF whole THEN "backup" ELSE "list"
           Results(g) == g = [U \in S |-> IF U = {} THEN base
                                          ELSE LET n == Max(U) IN UpsertProduct(g[U \ {n}], file[n], whole)]
           g == CHOOSE g : Results(g)
<1>1. UpsertProducts(file, whole) = g[1..N]
  BY DEF UpsertProducts, FoldLeft, MapThenFoldSet
<1>2. \A acc, row : UpsertProduct(acc, row, whole) = OneTurn(loop, acc, row)
  BY DEF OneTurn
<1> HIDE DEF base, loop, N
<1>3. N \in Nat
  BY DEF N
<1>4. PICK f : InTurn(f, loop, base, file, S)
  BY <1>3, InTurnExists
<1>5. Results(f)
  BY <1>2, <1>4 DEF InTurn
<1>6. InTurn(g, loop, base, file, S)
  <2> HIDE DEF S
  <2>1. Results(g)
    BY <1>5
  <2> HIDE DEF g
  <2>2. QED
    BY <1>2, <2>1 DEF InTurn
<1> HIDE DEF g
<1>7. Reached(g[1..N], loop, base, file, N)
  <2>1. InTurn(g, loop, base, file, SUBSET (1..N))
    BY <1>6
  <2>2. QED
    BY <1>3, <2>1, InTurnOneByOne
<1>8. QED
  BY <1>1, <1>7 DEF base, loop, N
LEMMA CustomersOneByOne ==
    ASSUME NEW file, Len(file) \in Nat, DOMAIN file = 1..Len(file)
    PROVE  Reached(UpsertCustomers(file), "customers", customers, file, Len(file))
<1> DEFINE N == Len(file)
           S == SUBSET (1..N)
           base == customers
           Results(g) == g = [U \in S |-> IF U = {} THEN base
                                          ELSE LET n == Max(U) IN UpsertCustomer(g[U \ {n}], file[n])]
           g == CHOOSE g : Results(g)
<1>1. UpsertCustomers(file) = g[1..N]
  BY DEF UpsertCustomers, FoldLeft, MapThenFoldSet
<1>2. \A acc, x : UpsertCustomer(acc, x) = OneTurn("customers", acc, x)
  BY DEF OneTurn
<1> HIDE DEF base, N
<1>3. N \in Nat
  BY DEF N
<1>4. PICK f : InTurn(f, "customers", base, file, S)
  BY <1>3, InTurnExists
<1>5. Results(f)
  BY <1>2, <1>4 DEF InTurn
<1>6. InTurn(g, "customers", base, file, S)
  <2> HIDE DEF S
  <2>1. Results(g)
    BY <1>5
  <2> HIDE DEF g
  <2>2. QED
    BY <1>2, <2>1 DEF InTurn
<1> HIDE DEF g
<1>7. Reached(g[1..N], "customers", base, file, N)
  <2>1. InTurn(g, "customers", base, file, SUBSET (1..N))
    BY <1>6
  <2>2. QED
    BY <1>3, <2>1, InTurnOneByOne
<1>8. QED
  BY <1>1, <1>7 DEF base, N

\* Nothing is read in of the backup's books; its rows by their numbers.
NoSuppliersYet == [suppliers |-> suppliers, history |-> history, ids |-> <<>>, byName |-> <<>>, at |-> 0]
RowNumbers == [r \in DOMAIN HistoryFile |-> r]

LEMMA SupplierRows == Len(SupplierFile) \in Nat /\ DOMAIN SupplierFile = 1..Len(SupplierFile)
  BY FilesAssumption

LEMMA BackupRows == DOMAIN RowNumbers = 1..Len(HistoryFile)
  BY FilesAssumption DEF RowNumbers

LEMMA SuppliersOneByOne ==
    Reached(FileSuppliers, "suppliers", NoSuppliersYet, SupplierFile, Len(SupplierFile))
<1> DEFINE N == Len(SupplierFile)
           S == SUBSET (1..N)
           base == NoSuppliersYet
           Results(g) == g = [U \in S |-> IF U = {} THEN base
                                          ELSE LET n == Max(U) IN FileSupplier(g[U \ {n}], SupplierFile[n])]
           g == CHOOSE g : Results(g)
<1>1. FileSuppliers = g[1..N]
  BY SupplierRows DEF FileSuppliers, NoSuppliersYet, FoldLeft, MapThenFoldSet
<1>2. \A acc, x : FileSupplier(acc, x) = OneTurn("suppliers", acc, x)
  BY DEF OneTurn
<1> HIDE DEF base, N
<1>3. N \in Nat
  BY SupplierRows DEF N
<1>4. PICK f : InTurn(f, "suppliers", base, SupplierFile, S)
  BY <1>3, InTurnExists
<1>5. Results(f)
  BY <1>2, <1>4 DEF InTurn
<1>6. InTurn(g, "suppliers", base, SupplierFile, S)
  <2> HIDE DEF S
  <2>1. Results(g)
    BY <1>5
  <2> HIDE DEF g
  <2>2. QED
    BY <1>2, <2>1 DEF InTurn
<1> HIDE DEF g
<1>7. Reached(g[1..N], "suppliers", base, SupplierFile, N)
  <2>1. InTurn(g, "suppliers", base, SupplierFile, SUBSET (1..N))
    BY <1>6
  <2>2. QED
    BY <1>3, <2>1, InTurnOneByOne
<1>8. QED
  BY <1>1, <1>7 DEF base, N

LEMMA BooksOneByOne ==
    Reached(ImportBooks, "books", FileSuppliers, RowNumbers, Len(HistoryFile))
<1> DEFINE N == Len(HistoryFile)
           S == SUBSET (1..N)
           base == FileSuppliers
           Results(g) == g = [U \in S |-> IF U = {} THEN base
                                          ELSE LET n == Max(U) IN ImportRow(g[U \ {n}], RowNumbers[n])]
           g == CHOOSE g : Results(g)
<1>1. ImportBooks = g[1..N]
  BY BackupRows DEF ImportBooks, RowNumbers, FoldLeft, MapThenFoldSet
<1>2. \A acc, x : ImportRow(acc, x) = OneTurn("books", acc, x)
  BY DEF OneTurn
<1> HIDE DEF base, N
<1>3. N \in Nat
  BY FilesAssumption DEF N
<1>4. PICK f : InTurn(f, "books", base, RowNumbers, S)
  BY <1>3, InTurnExists
<1>5. Results(f)
  BY <1>2, <1>4 DEF InTurn
<1>6. InTurn(g, "books", base, RowNumbers, S)
  <2> HIDE DEF S
  <2>1. Results(g)
    BY <1>5
  <2> HIDE DEF g
  <2>2. QED
    BY <1>2, <2>1 DEF InTurn
<1> HIDE DEF g
<1>7. Reached(g[1..N], "books", base, RowNumbers, N)
  <2>1. InTurn(g, "books", base, RowNumbers, SUBSET (1..N))
    BY <1>6
  <2>2. QED
    BY <1>3, <2>1, InTurnOneByOne
<1>8. QED
  BY <1>1, <1>7 DEF base, N

----------------------------------------------------------------------------
(***************************************************************************)
(* What is found.                                                          *)
(***************************************************************************)
LEMMA FirstIs ==
    ASSUME NEW some, some \subseteq Nat
    PROVE  /\ some = {} => First(some) = 0
           /\ some # {} => First(some) \in some /\ \A j \in some : First(some) <= j
<1>1. CASE some = {}
  BY <1>1 DEF First
<1>2. CASE some # {}
  <2>1. \E i \in some : \A j \in some : i <= j
    BY <1>2, LeastNat
  <2>2. QED
    BY <1>2, <2>1 DEF First
<1>3. QED
  BY <1>1, <1>2

\* What is found by one of three signs, the first that finds something.
Pick(A, B, C) == Else(First(A), Else(First(B), First(C)))

LeastOf(e, A) == e \in A /\ \A j \in A : e <= j

PickedFrom(e, A, B, C) ==
    LeastOf(e, A) \/ (A = {} /\ LeastOf(e, B)) \/ (A = {} /\ B = {} /\ LeastOf(e, C))

LEMMA PickIs ==
    ASSUME NEW A, A \subseteq Nat \ {0}, NEW B, B \subseteq Nat \ {0}, NEW C, C \subseteq Nat \ {0}
    PROVE  /\ Pick(A, B, C) = 0 <=> A = {} /\ B = {} /\ C = {}
           /\ Pick(A, B, C) # 0 => PickedFrom(Pick(A, B, C), A, B, C)
           /\ \A e : PickedFrom(e, A, B, C) => Pick(A, B, C) = e
<1>1. ASSUME NEW S, S \subseteq Nat \ {0}
      PROVE  /\ First(S) = 0 <=> S = {}
             /\ S # {} => LeastOf(First(S), S)
             /\ \A e : LeastOf(e, S) => First(S) = e
  <2>1. S \subseteq Nat /\ 0 \notin S
    BY <1>1
  <2>2. /\ S = {} => First(S) = 0
        /\ S # {} => First(S) \in S /\ \A j \in S : First(S) <= j
    BY <2>1, FirstIs
  <2>3. ASSUME NEW e, LeastOf(e, S) PROVE First(S) = e
    <3>1. e \in S /\ \A j \in S : e <= j
      BY <2>3 DEF LeastOf
    <3>2. First(S) \in S /\ First(S) <= e /\ e <= First(S)
      BY <2>2, <3>1
    <3>3. First(S) \in Nat /\ e \in Nat
      BY <2>1, <3>1, <3>2
    <3>4. QED
      BY <3>2, <3>3
  <2>4. QED
    BY <2>1, <2>2, <2>3 DEF LeastOf
<1>2. ASSUME NEW S, S \subseteq Nat \ {0}, S # {} PROVE First(S) # 0
  BY <1>1, <1>2
<1>3. CASE A # {}
  BY <1>1, <1>3 DEF Pick, Else, PickedFrom, LeastOf
<1>4. CASE A = {} /\ B # {}
  BY <1>1, <1>4 DEF Pick, Else, PickedFrom, LeastOf
<1>5. CASE A = {} /\ B = {}
  BY <1>1, <1>5 DEF Pick, Else, PickedFrom, LeastOf
<1>6. QED
  BY <1>3, <1>4, <1>5

\* What was found is found still when something else is not looked at any more.
LEMMA PickStays ==
    ASSUME NEW e, NEW f, f # e, NEW A, NEW B, NEW C, PickedFrom(e, A, B, C)
    PROVE  PickedFrom(e, A \ {f}, B \ {f}, C \ {f})
  BY DEF PickedFrom, LeastOf

\* Live things with the key of a row.
Matching(list, row, key) == {i \in LiveOf(list) : row[key] # 0 /\ list[i][key] = row[key]}

LEMMA FindMatchPicks ==
    ASSUME NEW list, NEW row
    PROVE  FindMatch(list, row)
           = Pick(Matching(list, row, "sku"), Matching(list, row, "barcode"), Matching(list, row, "name"))
  BY DEF FindMatch, Pick, Matching

LEMMA FindSupplierPicks ==
    ASSUME NEW list, NEW s
    PROVE  FindSupplier(list, s)
           = Pick(Matching(list, s, "gstin"), Matching(list, s, "phone"), Matching(list, s, "name"))
  BY DEF FindSupplier, Pick, Matching

\* Live customers of a name, unless both have a phone.
ByName(list, row) == {i \in LiveOf(list) : list[i].name = row.name /\ (list[i].phone = 0 \/ row.phone = 0)}

LEMMA FindCustomerPicks ==
    ASSUME NEW list, NEW row
    PROVE  FindCustomer(list, row) = Pick(Matching(list, row, "phone"), ByName(list, row), {})
<1>1. First({}) = 0
  BY DEF First
<1>2. \A b : Else(b, 0) = b
  BY DEF Else
<1>3. FindCustomer(list, row) = Else(First(Matching(list, row, "phone")), First(ByName(list, row)))
  BY DEF FindCustomer, Matching, ByName
<1>4. QED
  BY <1>1, <1>2, <1>3 DEF Pick

LEMMA ListIndices ==
    ASSUME NEW X, NEW list \in Seq(X)
    PROVE  /\ Len(list) \in Nat /\ DOMAIN list = 1..Len(list) /\ DOMAIN list \subseteq Nat \ {0}
           /\ \A i \in DOMAIN list : list[i] \in X
           /\ IsFiniteSet(DOMAIN list) /\ LiveOf(list) \subseteq DOMAIN list
           /\ IsFiniteSet(LiveOf(list)) /\ Cardinality(LiveOf(list)) \in Nat
           /\ \A row, key : Matching(list, row, key) \subseteq Nat \ {0}
           /\ \A row : ByName(list, row) \subseteq Nat \ {0}
<1>1. Len(list) \in Nat /\ DOMAIN list = 1..Len(list) /\ \A i \in DOMAIN list : list[i] \in X
  OBVIOUS
<1>2. LiveOf(list) \subseteq DOMAIN list
  BY DEF LiveOf
<1>3. IsFiniteSet(DOMAIN list)
  BY <1>1, FS_Interval
<1>4. IsFiniteSet(LiveOf(list)) /\ Cardinality(LiveOf(list)) \in Nat
  BY <1>2, <1>3, FS_Subset, FS_CardinalityType
<1>5. DOMAIN list \subseteq Nat \ {0}
  BY <1>1
<1>6. (\A row, key : Matching(list, row, key) \subseteq Nat \ {0}) /\ \A row : ByName(list, row) \subseteq Nat \ {0}
  BY <1>2, <1>5 DEF Matching, ByName
<1>7. QED
  BY <1>1, <1>2, <1>3, <1>4, <1>5, <1>6

\* What finding a product, a supplier or a customer comes to.
Found(f, A, B, C) ==
    /\ f = 0 <=> A = {} /\ B = {} /\ C = {}
    /\ f # 0 => PickedFrom(f, A, B, C)
    /\ \A e : PickedFrom(e, A, B, C) => f = e

LEMMA PickFound ==
    ASSUME NEW A, A \subseteq Nat \ {0}, NEW B, B \subseteq Nat \ {0}, NEW C, C \subseteq Nat \ {0}
    PROVE  Found(Pick(A, B, C), A, B, C)
  BY PickIs DEF Found

LEMMA MatchFound ==
    ASSUME NEW X, NEW list \in Seq(X), NEW row
    PROVE  Found(FindMatch(list, row),
                 Matching(list, row, "sku"), Matching(list, row, "barcode"), Matching(list, row, "name"))
<1>1. \A key : Matching(list, row, key) \subseteq Nat \ {0}
  BY ListIndices
<1>2. Found(Pick(Matching(list, row, "sku"), Matching(list, row, "barcode"), Matching(list, row, "name")),
            Matching(list, row, "sku"), Matching(list, row, "barcode"), Matching(list, row, "name"))
  BY <1>1, PickFound
<1>3. QED
  BY <1>2, FindMatchPicks

LEMMA SupplierFound ==
    ASSUME NEW X, NEW list \in Seq(X), NEW s
    PROVE  Found(FindSupplier(list, s),
                 Matching(list, s, "gstin"), Matching(list, s, "phone"), Matching(list, s, "name"))
<1>1. \A key : Matching(list, s, key) \subseteq Nat \ {0}
  BY ListIndices
<1>2. Found(Pick(Matching(list, s, "gstin"), Matching(list, s, "phone"), Matching(list, s, "name")),
            Matching(list, s, "gstin"), Matching(list, s, "phone"), Matching(list, s, "name"))
  BY <1>1, PickFound
<1>3. QED
  BY <1>2, FindSupplierPicks

LEMMA CustomerFound ==
    ASSUME NEW X, NEW list \in Seq(X), NEW row
    PROVE  Found(FindCustomer(list, row), Matching(list, row, "phone"), ByName(list, row), {})
<1>1. Matching(list, row, "phone") \subseteq Nat \ {0} /\ ByName(list, row) \subseteq Nat \ {0}
  BY ListIndices
<1>2. Found(Pick(Matching(list, row, "phone"), ByName(list, row), {}),
            Matching(list, row, "phone"), ByName(list, row), {})
  BY <1>1, PickFound
<1>3. QED
  BY <1>2, FindCustomerPicks

----------------------------------------------------------------------------
(***************************************************************************)
(* Products.                                                               *)
(***************************************************************************)
\* A row is written over the f-th product or appended as that one.
ProductWritten(list, new, f, row, whole) ==
    /\ new \in Seq(Product) /\ Len(list) <= Len(new) /\ f \in DOMAIN new
    /\ \A i \in DOMAIN list : i \in DOMAIN new /\ (i # f => new[i] = list[i])
    /\ \A i \in DOMAIN new : i # f => i \in DOMAIN list
    /\ new[f].live /\ new[f].name = row.name /\ BatchesAreStock(new[f])
    /\ new[f].sku = row.sku \/ (f \in DOMAIN list /\ row.sku = 0 /\ new[f].sku = list[f].sku)
    /\ whole => SameProduct(new[f], row)

WholeWritten(list, new, f, row) == ProductWritten(list, new, f, row, TRUE)

LEMMA StockWritten ==
    ASSUME NEW p \in Product, NEW row \in ProductRow,
           \A i \in DOMAIN p.batches : p.batches[i].qty >= 0
    PROVE  LET q == WithStock(p, row)
           IN  /\ q \in Product /\ BatchesAreStock(q)
               /\ q.name = p.name /\ q.sku = p.sku /\ q.barcode = p.barcode /\ q.live = p.live
<1>1. p.batches \in Seq(Batch) /\ row.stock \in Int /\ Never \in Nat \ {0}
  BY FilesAssumption DEF Product, ProductRow
<1> DEFINE even == Reconcile(p.batches, row.stock)
<1>2. Shelf(even) /\ Total(even) = Most(0, row.stock)
  <2>1. Shelf(p.batches)
    BY <1>1 DEF Shelf
  <2>2. QED
    BY <1>1, <2>1, ReconcileEvens
<1>3. WithStock(p, row) = [p EXCEPT !.stock = row.stock, !.batches = even]
  BY DEF WithStock
<1> HIDE DEF even
<1> DEFINE q == WithStock(p, row)
<1>4. /\ q.name = p.name /\ q.sku = p.sku /\ q.barcode = p.barcode /\ q.live = p.live
      /\ q.stock = row.stock /\ q.batches = even
  BY <1>3 DEF Product
<1>5. q \in Product
  BY <1>1, <1>2, <1>3 DEF Product, Shelf
<1> HIDE DEF q
<1>6. BatchesAreStock(q)
  BY <1>2, <1>4 DEF BatchesAreStock, Shelf
<1>7. QED
  BY <1>4, <1>5, <1>6 DEF q

LEMMA UpsertProductWrites ==
    ASSUME NEW acc, NEW list, list = acc.list, ProductsFit(list), NEW row \in ProductRow, NEW whole \in BOOLEAN
    PROVE  LET found == FindMatch(list, row)
               new == UpsertProduct(acc, row, whole).list
           IN  \/ /\ found = 0 /\ Cardinality(LiveOf(list)) >= PlanProducts /\ new = list
               \/ /\ found \in LiveOf(list) /\ Len(new) = Len(list)
                  /\ ProductWritten(list, new, found, row, whole)
               \/ /\ found = 0 /\ Cardinality(LiveOf(list)) < PlanProducts /\ Len(new) = Len(list) + 1
                  /\ ProductWritten(list, new, Len(list) + 1, row, whole)
<1> DEFINE found == FindMatch(list, row)
           new == UpsertProduct(acc, row, whole).list
<1>1. /\ list \in Seq(Product) /\ Len(list) \in Nat /\ DOMAIN list = 1..Len(list)
      /\ \A i \in DOMAIN list : list[i] \in Product
      /\ LiveOf(list) \subseteq DOMAIN list /\ DOMAIN list \subseteq Nat \ {0}
      /\ Cardinality(LiveOf(list)) \in Nat
      /\ \A i \in DOMAIN list : \A j \in DOMAIN list[i].batches : list[i].batches[j].qty >= 0
  BY ListIndices DEF ProductsFit, BatchesAreStock
<1>2. found # 0 => found \in LiveOf(list)
  <2>1. \A key : Matching(list, row, key) \subseteq LiveOf(list) /\ Matching(list, row, key) \subseteq Nat \ {0}
    BY <1>1 DEF Matching
  <2>2. found # 0 => PickedFrom(found, Matching(list, row, "sku"), Matching(list, row, "barcode"), Matching(list, row, "name"))
    BY <2>1, FindMatchPicks, PickIs
  <2>3. QED
    BY <2>1, <2>2 DEF PickedFrom, LeastOf
<1>3. PlanProducts \in Nat /\ row \in ProductRow
  BY FilesAssumption
<1>4. CASE found = 0 /\ Cardinality(LiveOf(list)) >= PlanProducts
  BY <1>4 DEF UpsertProduct
<1>5. CASE found # 0
  <2> DEFINE p == WithFields(list[found], row, whole)
             q == WithStock(p, row)
  <2>1. found \in DOMAIN list /\ list[found] \in Product /\ list[found].live = TRUE
    BY <1>1, <1>2, <1>5 DEF LiveOf, Product
  <2>2. /\ p \in Product /\ p.live = TRUE /\ p.batches = list[found].batches
        /\ p.name = row.name
        /\ p.sku = row.sku \/ (row.sku = 0 /\ p.sku = list[found].sku)
        /\ whole => p.sku = row.sku /\ p.barcode = row.barcode
    BY <2>1 DEF WithFields, Kept, Product, ProductRow
  <2>3. new = [list EXCEPT ![found] = q]
    BY <1>5 DEF UpsertProduct
  <2> HIDE DEF p
  <2>4. /\ q \in Product /\ BatchesAreStock(q)
        /\ q.name = p.name /\ q.sku = p.sku /\ q.barcode = p.barcode /\ q.live = p.live
    BY <1>1, <2>1, <2>2, StockWritten
  <2> HIDE DEF q, found, new
  <2>5. /\ new \in Seq(Product) /\ Len(new) = Len(list) /\ DOMAIN new = DOMAIN list
        /\ new[found] = q /\ \A i \in DOMAIN list : i # found => new[i] = list[i]
    BY <1>1, <2>1, <2>3, <2>4
  <2>6. ProductWritten(list, new, found, row, whole)
    BY <1>1, <2>1, <2>2, <2>4, <2>5 DEF ProductWritten, SameProduct
  <2>7. QED
    BY <1>2, <1>5, <2>5, <2>6 DEF found, new
<1>6. CASE found = 0 /\ Cardinality(LiveOf(list)) < PlanProducts
  <2> DEFINE p == NewProduct(row)
             q == WithStock(p, row)
             f == Len(list) + 1
  <2>1. /\ p \in Product /\ p.live = TRUE /\ p.batches = <<>>
        /\ p.name = row.name /\ p.sku = row.sku /\ p.barcode = row.barcode
    BY DEF NewProduct, Product, ProductRow
  <2>2. new = Append(list, q)
    <3>1. ~(Cardinality(LiveOf(list)) >= PlanProducts)
      BY <1>1, <1>3, <1>6
    <3>2. QED
      BY <1>6, <3>1 DEF UpsertProduct
  <2> HIDE DEF p
  <2>3. /\ q \in Product /\ BatchesAreStock(q)
        /\ q.name = p.name /\ q.sku = p.sku /\ q.barcode = p.barcode /\ q.live = p.live
    BY <2>1, StockWritten
  <2> HIDE DEF q, new
  <2>4. /\ new \in Seq(Product) /\ Len(new) = f /\ DOMAIN new = 1..f
        /\ new[f] = q /\ \A i \in DOMAIN list : i # f /\ new[i] = list[i]
    BY <1>1, <2>2, <2>3
  <2>5. ProductWritten(list, new, f, row, whole)
    BY <1>1, <2>1, <2>3, <2>4 DEF ProductWritten, SameProduct
  <2>6. QED
    BY <1>6, <2>4, <2>5 DEF new
<1>7. QED
  BY <1>1, <1>2, <1>3, <1>4, <1>5, <1>6

\* The list after a row is one that fits.
LEMMA WrittenFits ==
    ASSUME NEW list, ProductsFit(list), NEW new, NEW f, NEW row \in ProductRow, NEW whole \in BOOLEAN,
           ProductWritten(list, new, f, row, whole),
           f \in LiveOf(list) \/ (f \notin DOMAIN list /\ Cardinality(LiveOf(list)) < PlanProducts),
           Matching(list, row, "sku") \subseteq {f}
    PROVE  ProductsFit(new)
<1>1. /\ list \in Seq(Product) /\ new \in Seq(Product)
      /\ LiveOf(list) \subseteq DOMAIN list
      /\ IsFiniteSet(LiveOf(list)) /\ Cardinality(LiveOf(list)) \in Nat
      /\ \A i \in DOMAIN list : list[i] \in Product
      /\ PlanProducts \in Nat
  BY ListIndices, FilesAssumption DEF ProductsFit, ProductWritten
<1>2. LiveOf(new) = LiveOf(list) \cup {f}
  BY DEF LiveOf, ProductWritten
<1>3. Cardinality(LiveOf(new)) <= PlanProducts
  <2>1. CASE f \in LiveOf(list)
    <3>1. LiveOf(new) = LiveOf(list)
      BY <1>2, <2>1
    <3>2. QED
      BY <3>1 DEF ProductsFit
  <2>2. CASE f \notin DOMAIN list /\ Cardinality(LiveOf(list)) < PlanProducts
    <3>1. Cardinality(LiveOf(new)) = Cardinality(LiveOf(list)) + 1
      BY <1>1, <1>2, <2>2, FS_AddElement
    <3>2. QED
      BY <1>1, <2>2, <3>1
  <2>3. QED
    BY <2>1, <2>2
<1>4. Apart(new, "sku")
  <2> SUFFICES ASSUME NEW i \in LiveOf(new), NEW j \in LiveOf(new), new[i].sku = new[j].sku,
                      new[i].sku # 0
               PROVE  i = j
    BY DEF Apart
  <2>1. \A k \in LiveOf(list), m \in LiveOf(list) : list[k].sku = list[m].sku => k = m \/ list[k].sku = 0
    BY DEF ProductsFit, Apart
  <2>2. ASSUME NEW k \in LiveOf(new), k # f, new[k].sku = new[f].sku, new[k].sku # 0 PROVE FALSE
    <3>1. k \in LiveOf(list) /\ new[k] = list[k]
      BY <1>1, <1>2, <2>2 DEF ProductWritten
    <3>2. CASE new[f].sku = row.sku
      BY <2>2, <3>1, <3>2 DEF Matching
    <3>3. CASE f \in DOMAIN list /\ new[f].sku = list[f].sku
      BY <2>1, <2>2, <3>1, <3>3
    <3>4. QED
      BY <3>2, <3>3 DEF ProductWritten
  <2>3. CASE i # f /\ j # f
    <3>1. i \in LiveOf(list) /\ j \in LiveOf(list) /\ new[i] = list[i] /\ new[j] = list[j]
      BY <1>1, <1>2, <2>3 DEF ProductWritten
    <3>2. QED
      BY <2>1, <3>1
  <2>4. QED
    BY <2>2, <2>3
<1>5. \A p \in DOMAIN new : BatchesAreStock(new[p])
  BY DEF ProductsFit, ProductWritten
<1>6. QED
  BY <1>1, <1>3, <1>4, <1>5 DEF ProductsFit

\* Nothing else has the SKU of the row that is written.
LEMMA NoOtherSku ==
    ASSUME NEW list, ProductsFit(list), NEW row
    PROVE  Matching(list, row, "sku") \subseteq {FindMatch(list, row)}
<1> DEFINE A == Matching(list, row, "sku")
           B == Matching(list, row, "barcode")
           C == Matching(list, row, "name")
           f == FindMatch(list, row)
<1>1. A \subseteq Nat \ {0} /\ B \subseteq Nat \ {0} /\ C \subseteq Nat \ {0}
  BY ListIndices DEF ProductsFit
<1>2. f = Pick(A, B, C)
  BY FindMatchPicks
<1> HIDE DEF B, C, f
<1>3. ASSUME NEW i \in A PROVE i = f
  <2>1. PickedFrom(f, A, B, C)
    <3> HIDE DEF A
    <3>1. A # {}
      BY <1>3
    <3>2. f # 0
      BY <1>1, <1>2, <3>1, PickIs
    <3>3. QED
      BY <1>1, <1>2, <3>2, PickIs
  <2>2. f \in A
    BY <1>3, <2>1 DEF PickedFrom, LeastOf
  <2>3. /\ i \in LiveOf(list) /\ f \in LiveOf(list) /\ row.sku # 0
        /\ list[i].sku = row.sku /\ list[f].sku = row.sku
    BY <1>3, <2>2 DEF Matching
  <2>4. QED
    BY <2>3 DEF ProductsFit, Apart
<1>4. QED
  BY <1>3 DEF f

LEMMA UpsertProductFits ==
    ASSUME NEW acc, ProductsFit(acc.list), NEW row \in ProductRow, NEW whole \in BOOLEAN
    PROVE  LET new == UpsertProduct(acc, row, whole)
           IN  /\ ProductsFit(new.list) /\ Len(acc.list) <= Len(new.list)
               /\ \E x \in 0..Len(new.list) : new.map = Append(acc.map, x)
<1> DEFINE list == acc.list
           found == FindMatch(list, row)
           new == UpsertProduct(acc, row, whole)
<1>1. /\ Len(list) \in Nat /\ DOMAIN list = 1..Len(list) /\ LiveOf(list) \subseteq DOMAIN list
      /\ Cardinality(LiveOf(list)) \in Nat /\ PlanProducts \in Nat
  BY ListIndices, FilesAssumption DEF ProductsFit
<1>2. Matching(list, row, "sku") \subseteq {found} /\ Matching(list, row, "sku") \subseteq LiveOf(list)
  BY NoOtherSku DEF Matching
<1>3. new.map = Append(acc.map, IF found = 0 /\ Cardinality(LiveOf(list)) >= PlanProducts THEN 0
                               ELSE IF found # 0 THEN found ELSE Len(list) + 1)
  BY DEF UpsertProduct
<1>4. \/ /\ found = 0 /\ Cardinality(LiveOf(list)) >= PlanProducts /\ new.list = list
      \/ /\ found \in LiveOf(list) /\ Len(new.list) = Len(list)
         /\ ProductWritten(list, new.list, found, row, whole)
      \/ /\ found = 0 /\ Cardinality(LiveOf(list)) < PlanProducts /\ Len(new.list) = Len(list) + 1
         /\ ProductWritten(list, new.list, Len(list) + 1, row, whole)
  BY UpsertProductWrites
<1> HIDE DEF new, found, list
<1>5. ProductsFit(list)
  BY DEF list
<1>6. CASE found = 0 /\ Cardinality(LiveOf(list)) >= PlanProducts /\ new.list = list
  BY <1>1, <1>3, <1>5, <1>6 DEF list, new
<1>7. CASE /\ found \in LiveOf(list) /\ Len(new.list) = Len(list)
           /\ ProductWritten(list, new.list, found, row, whole)
  <2>1. ProductsFit(new.list)
    BY <1>2, <1>5, <1>7, WrittenFits
  <2>2. found # 0 /\ found \in 0..Len(new.list)
    BY <1>1, <1>7
  <2>3. QED
    BY <1>1, <1>3, <1>7, <2>1, <2>2 DEF list, new
<1>8. CASE /\ found = 0 /\ Cardinality(LiveOf(list)) < PlanProducts /\ Len(new.list) = Len(list) + 1
           /\ ProductWritten(list, new.list, Len(list) + 1, row, whole)
  <2> DEFINE f == Len(list) + 1
  <2>1. f \notin DOMAIN list /\ Matching(list, row, "sku") \subseteq {f}
    <3>1. 0 \notin LiveOf(list)
      BY <1>1
    <3>2. QED
      BY <1>1, <1>2, <1>8, <3>1
  <2>2. ProductsFit(new.list)
    <3> HIDE DEF f
    <3>1. ProductWritten(list, new.list, f, row, whole)
      BY <1>8 DEF f
    <3>2. QED
      BY <1>5, <1>8, <2>1, <3>1, WrittenFits
  <2>3. f \in 0..Len(new.list) /\ ~(Cardinality(LiveOf(list)) >= PlanProducts)
    BY <1>1, <1>8
  <2>4. QED
    BY <1>1, <1>3, <1>8, <2>2, <2>3 DEF list, new
<1>9. QED
  BY <1>4, <1>6, <1>7, <1>8

\* Who has which key when a whole row was written.
LEMMA MatchingWritten ==
    ASSUME NEW list, NEW new, NEW f, NEW row, WholeWritten(list, new, f, row),
           NEW r, NEW key \in {"name", "sku", "barcode"}
    PROVE  /\ \A i : i # f => (i \in Matching(new, r, key) <=> i \in Matching(list, r, key))
           /\ f \in Matching(new, r, key) <=> r[key] # 0 /\ row[key] = r[key]
<1>1. new[f][key] = row[key] /\ f \in LiveOf(new)
  BY DEF WholeWritten, ProductWritten, SameProduct, LiveOf
<1>2. ASSUME NEW i, i # f
      PROVE  i \in Matching(new, r, key) <=> i \in Matching(list, r, key)
  <2>1. i \in LiveOf(new) <=> i \in LiveOf(list)
    BY <1>2 DEF WholeWritten, ProductWritten, LiveOf
  <2>2. i \in LiveOf(list) => new[i] = list[i]
    BY <1>2 DEF WholeWritten, ProductWritten, LiveOf
  <2>3. QED
    BY <2>1, <2>2 DEF Matching
<1>3. f \in Matching(new, r, key) <=> r[key] # 0 /\ row[key] = r[key]
  BY <1>1 DEF Matching
<1>4. QED
  BY <1>2, <1>3

\* A whole row is then found where it was written.
LEMMA UpsertProductDone ==
    ASSUME NEW acc, ProductsFit(acc.list), NEW row \in ProductRow
    PROVE  ProductDone(UpsertProduct(acc, row, TRUE).list, row)
<1> DEFINE list == acc.list
           new == UpsertProduct(acc, row, TRUE).list
           A == Matching(list, row, "sku")
           B == Matching(list, row, "barcode")
           C == Matching(list, row, "name")
           NewA == Matching(new, row, "sku")
           NewB == Matching(new, row, "barcode")
           NewC == Matching(new, row, "name")
           found == FindMatch(list, row)
<1>1. Found(found, A, B, C)
  BY MatchFound DEF ProductsFit
<1>2. row.name # 0
  BY DEF ProductRow
<1>3. A \subseteq {found}
  BY NoOtherSku
<1>4. ASSUME NEW f \in Nat \ {0}, ProductWritten(list, new, f, row, TRUE),
             found # 0 => f = found
      PROVE  ProductDone(new, row)
  <2>1. /\ NewA = (A \ {f}) \cup {x \in {f} : row.sku # 0}
        /\ NewB = (B \ {f}) \cup {x \in {f} : row.barcode # 0}
        /\ NewC = (C \ {f}) \cup {f}
    <3> HIDE DEF new, list
    <3>1. ASSUME NEW key \in {"name", "sku", "barcode"}
          PROVE  Matching(new, row, key) = (Matching(list, row, key) \ {f}) \cup {x \in {f} : row[key] # 0}
      <4>1. /\ \A i : i # f => (i \in Matching(new, row, key) <=> i \in Matching(list, row, key))
            /\ f \in Matching(new, row, key) <=> row[key] # 0 /\ row[key] = row[key]
        <5>1. WholeWritten(list, new, f, row)
          BY <1>4 DEF WholeWritten
        <5>2. QED
          BY <5>1, MatchingWritten
      <4>2. QED
        BY <4>1
    <3>2. NewA = (A \ {f}) \cup {x \in {f} : row.sku # 0}
      BY <3>1
    <3>3. NewB = (B \ {f}) \cup {x \in {f} : row.barcode # 0}
      BY <3>1
    <3>4. NewC = (C \ {f}) \cup {x \in {f} : row.name # 0}
      BY <3>1
    <3>5. QED
      BY <1>2, <3>2, <3>3, <3>4
  <2>2. (row.sku = 0 => A = {}) /\ (row.barcode = 0 => B = {})
    BY DEF Matching
  <2> HIDE DEF A, B, C, NewA, NewB, NewC, found
  <2>3. PickedFrom(f, NewA, NewB, NewC)
    <3>1. CASE found = 0
      <4>1. A = {} /\ B = {} /\ C = {}
        BY <1>1, <3>1 DEF Found
      <4>2. QED
        BY <2>1, <4>1 DEF PickedFrom, LeastOf
    <3>2. CASE found # 0
      <4>1. f = found /\ PickedFrom(f, A, B, C)
        BY <1>1, <1>4, <3>2 DEF Found
      <4>2. f <= f
        OBVIOUS
      <4>3. QED
        BY <1>3, <2>1, <2>2, <4>1, <4>2 DEF PickedFrom, LeastOf
    <3>3. QED
      BY <3>1, <3>2
  <2>4. FindMatch(new, row) = f
    <3> HIDE DEF new
    <3>1. new \in Seq(Product)
      BY <1>4 DEF ProductWritten
    <3>2. Found(FindMatch(new, row), NewA, NewB, NewC)
      BY <3>1, MatchFound DEF NewA, NewB, NewC
    <3>3. QED
      BY <2>3, <3>2 DEF Found
  <2>5. SameProduct(new[f], row)
    BY <1>4 DEF ProductWritten
  <2>6. QED
    BY <2>4, <2>5 DEF ProductDone
<1>5. \/ /\ found = 0 /\ Cardinality(LiveOf(list)) >= PlanProducts /\ new = list
      \/ /\ found \in LiveOf(list) /\ ProductWritten(list, new, found, row, TRUE)
      \/ /\ found = 0 /\ ProductWritten(list, new, Len(list) + 1, row, TRUE)
  BY UpsertProductWrites
<1>6. LiveOf(list) \subseteq Nat \ {0} /\ Len(list) + 1 \in Nat \ {0}
  BY ListIndices DEF ProductsFit
<1> HIDE DEF new
<1>7. CASE found = 0 /\ Cardinality(LiveOf(list)) >= PlanProducts /\ new = list
  BY <1>7 DEF ProductDone, new
<1>8. QED
  BY <1>4, <1>5, <1>6, <1>7 DEF new

\* Two rows of the backup are two things.
ApartOn(r, s, key) == r[key] = 0 \/ r[key] # s[key]

\* A row that is done stays done when another is written.
LEMMA UpsertProductKeeps ==
    ASSUME NEW acc, ProductsFit(acc.list), NEW row \in ProductRow, NEW r \in ProductRow,
           \A key \in {"name", "sku", "barcode"} : ApartOn(r, row, key),
           ProductDone(acc.list, r)
    PROVE  ProductDone(UpsertProduct(acc, row, TRUE).list, r)
<1> DEFINE list == acc.list
           new == UpsertProduct(acc, row, TRUE).list
           A == Matching(list, r, "sku")
           B == Matching(list, r, "barcode")
           C == Matching(list, r, "name")
           found == FindMatch(list, row)
           e == FindMatch(list, r)
<1>1. /\ Found(e, A, B, C)
      /\ list \in Seq(Product) /\ Len(list) \in Nat /\ DOMAIN list = 1..Len(list)
      /\ LiveOf(list) \subseteq DOMAIN list /\ 0 \notin DOMAIN list
      /\ Cardinality(LiveOf(list)) \in Nat /\ PlanProducts \in Nat
  BY ListIndices, MatchFound, FilesAssumption DEF ProductsFit
<1>2. ASSUME NEW f, ProductWritten(list, new, f, row, TRUE)
      PROVE  /\ Matching(new, r, "sku") = A \ {f}
             /\ Matching(new, r, "barcode") = B \ {f}
             /\ Matching(new, r, "name") = C \ {f}
  <2> HIDE DEF new, list
  <2>1. ASSUME NEW key \in {"name", "sku", "barcode"}
        PROVE  Matching(new, r, key) = Matching(list, r, key) \ {f}
    <3>1. /\ \A i : i # f => (i \in Matching(new, r, key) <=> i \in Matching(list, r, key))
          /\ f \in Matching(new, r, key) <=> r[key] # 0 /\ row[key] = r[key]
      <4>1. WholeWritten(list, new, f, row)
        BY <1>2 DEF WholeWritten
      <4>2. QED
        BY <4>1, MatchingWritten
    <3>2. r[key] = 0 \/ r[key] # row[key]
      BY DEF ApartOn
    <3>3. QED
      BY <3>1, <3>2
  <2>2. QED
    BY <2>1
<1>3. \/ new = list
      \/ /\ found \in LiveOf(list) /\ Len(new) = Len(list)
         /\ ProductWritten(list, new, found, row, TRUE)
      \/ /\ Cardinality(LiveOf(list)) < PlanProducts
         /\ ProductWritten(list, new, Len(list) + 1, row, TRUE)
  BY UpsertProductWrites
<1>4. ProductDone(list, r) /\ (e # 0 => SameProduct(list[e], r)) /\ (e = 0 => Cardinality(LiveOf(list)) >= PlanProducts)
  BY DEF ProductDone
<1>5. ASSUME e # 0, found = e PROVE FALSE
  <2>1. found # 0
    BY <1>5
  <2>2. \E key \in {"name", "sku", "barcode"} : found \in Matching(list, row, key)
    <3>1. PickedFrom(found, Matching(list, row, "sku"), Matching(list, row, "barcode"), Matching(list, row, "name"))
      <4> HIDE DEF list
      <4>1. Found(found, Matching(list, row, "sku"), Matching(list, row, "barcode"), Matching(list, row, "name"))
        BY <1>1, MatchFound
      <4>2. QED
        BY <2>1, <4>1 DEF Found
    <3>2. QED
      BY <3>1 DEF PickedFrom, LeastOf
  <2>3. PICK key \in {"name", "sku", "barcode"} : row[key] # 0 /\ list[found][key] = row[key]
    BY <2>2 DEF Matching
  <2>4. list[found][key] = r[key]
    BY <1>4, <1>5 DEF SameProduct
  <2>5. QED
    BY <2>3, <2>4 DEF ApartOn
<1>6. ASSUME NEW f, ProductWritten(list, new, f, row, TRUE), f # e,
             e = 0 => LiveOf(new) = LiveOf(list)
      PROVE  ProductDone(new, r)
  <2> HIDE DEF A, B, C, found
  <2>1. Found(FindMatch(new, r), A \ {f}, B \ {f}, C \ {f})
    <3> HIDE DEF new
    <3>1. new \in Seq(Product)
      BY <1>6 DEF ProductWritten
    <3>2. Found(FindMatch(new, r), Matching(new, r, "sku"), Matching(new, r, "barcode"), Matching(new, r, "name"))
      BY <3>1, MatchFound
    <3>3. QED
      BY <1>2, <1>6, <3>2
  <2>3. CASE e = 0
    <3>1. A = {} /\ B = {} /\ C = {}
      BY <1>1, <2>3 DEF Found
    <3>2. FindMatch(new, r) = 0
      BY <2>1, <3>1 DEF Found
    <3>3. QED
      BY <1>4, <1>6, <2>3, <3>2 DEF ProductDone
  <2>4. CASE e # 0
    <3>1. PickedFrom(e, A, B, C)
      BY <1>1, <2>4 DEF Found
    <3>2. FindMatch(new, r) = e
      BY <1>6, <2>1, <3>1, PickStays DEF Found
    <3>3. e \in A \cup B \cup C
      BY <3>1 DEF PickedFrom, LeastOf
    <3>4. e \in DOMAIN list
      BY <1>1, <3>3 DEF A, B, C, Matching
    <3>5. new[e] = list[e]
      BY <1>6, <3>4 DEF ProductWritten
    <3>6. QED
      BY <1>4, <2>4, <3>2, <3>5 DEF ProductDone
  <2>5. QED
    BY <2>3, <2>4
<1>7. CASE new = list
  BY <1>4, <1>7
<1>8. CASE found \in LiveOf(list) /\ ProductWritten(list, new, found, row, TRUE)
  <2>1. found # e
    BY <1>1, <1>5, <1>8
  <2>2. LiveOf(new) = LiveOf(list)
    <3> HIDE DEF new, found, list
    <3>1. QED
      BY <1>8 DEF ProductWritten, LiveOf
  <2>3. QED
    BY <1>6, <1>8, <2>1, <2>2
<1>9. CASE /\ Cardinality(LiveOf(list)) < PlanProducts
           /\ ProductWritten(list, new, Len(list) + 1, row, TRUE)
  <2>1. e # 0
    BY <1>1, <1>4, <1>9
  <2>2. e \in DOMAIN list
    <3> HIDE DEF A, B, C
    <3>1. PickedFrom(e, A, B, C)
      BY <1>1, <2>1 DEF Found
    <3>2. e \in A \cup B \cup C
      BY <3>1 DEF PickedFrom, LeastOf
    <3>3. QED
      BY <1>1, <3>2 DEF A, B, C, Matching
  <2>3. Len(list) + 1 # e
    BY <1>1, <2>2
  <2>4. QED
    BY <1>6, <1>9, <2>1, <2>3
<1>10. QED
  BY <1>3, <1>7, <1>8, <1>9

\* Two lists have the same things under the same keys, whatever their stock.
SameKeys(list, new) ==
    /\ Len(new) = Len(list)
    /\ \A i \in DOMAIN list :
          /\ new[i].live = list[i].live /\ new[i].name = list[i].name
          /\ new[i].sku = list[i].sku /\ new[i].barcode = list[i].barcode

LEMMA SameKeysFindSame ==
    ASSUME NEW list \in Seq(Product), NEW new \in Seq(Product), SameKeys(list, new)
    PROVE  /\ LiveOf(new) = LiveOf(list)
           /\ \A row : FindMatch(new, row) = FindMatch(list, row)
           /\ \A row : ProductDone(list, row) => ProductDone(new, row)
<1>1. /\ DOMAIN new = DOMAIN list /\ LiveOf(list) \subseteq DOMAIN list /\ DOMAIN list \subseteq Nat \ {0}
      /\ \A i \in DOMAIN list : list[i] \in Product /\ new[i] \in Product
  <2>1. /\ DOMAIN new = 1..Len(new) /\ DOMAIN list = 1..Len(list) /\ Len(new) = Len(list)
        /\ DOMAIN list \subseteq Nat \ {0} /\ LiveOf(list) \subseteq DOMAIN list
        /\ \A i \in DOMAIN list : list[i] \in Product
        /\ \A i \in DOMAIN new : new[i] \in Product
    BY ListIndices DEF SameKeys
  <2>2. QED
    BY <2>1
<1>2. LiveOf(new) = LiveOf(list)
  BY <1>1 DEF LiveOf, SameKeys
<1>3. ASSUME NEW row, NEW key \in {"name", "sku", "barcode"}
      PROVE  Matching(new, row, key) = Matching(list, row, key)
  <2>1. \A i \in LiveOf(list) : new[i][key] = list[i][key]
    BY <1>1 DEF SameKeys
  <2>2. QED
    BY <1>2, <2>1 DEF Matching
<1>4. ASSUME NEW row PROVE FindMatch(new, row) = FindMatch(list, row)
  BY <1>3, FindMatchPicks
<1>5. ASSUME NEW row, ProductDone(list, row) PROVE ProductDone(new, row)
  <2> DEFINE e == FindMatch(list, row)
  <2>1. FindMatch(new, row) = e
    BY <1>4
  <2>2. CASE e = 0
    BY <1>2, <1>5, <2>1, <2>2 DEF ProductDone
  <2>3. CASE e # 0
    <3>1. Found(e, Matching(list, row, "sku"), Matching(list, row, "barcode"), Matching(list, row, "name"))
      BY MatchFound
    <3> HIDE DEF e
    <3>2. PickedFrom(e, Matching(list, row, "sku"), Matching(list, row, "barcode"), Matching(list, row, "name"))
      BY <2>3, <3>1 DEF Found
    <3>3. e \in LiveOf(list)
      BY <3>2 DEF PickedFrom, LeastOf, Matching
    <3>4. e \in DOMAIN list
      BY <1>1, <3>3
    <3>5. SameProduct(list[e], row)
      BY <1>5, <2>3 DEF ProductDone, e
    <3>6. SameProduct(new[e], row)
      BY <3>4, <3>5 DEF SameProduct, SameKeys
    <3>7. QED
      BY <2>1, <2>3, <3>6 DEF ProductDone
  <2>4. QED
    BY <2>2, <2>3
<1>6. QED
  BY <1>2, <1>4, <1>5

LEMMA UpsertProductSame ==
    ASSUME NEW acc, ProductsFit(acc.list), NEW row \in ProductRow, ProductDone(acc.list, row)
    PROVE  SameKeys(acc.list, UpsertProduct(acc, row, TRUE).list)
<1> DEFINE list == acc.list
           new == UpsertProduct(acc, row, TRUE).list
           found == FindMatch(list, row)
<1>1. \/ new = list
      \/ /\ found \in LiveOf(list) /\ Len(new) = Len(list)
         /\ ProductWritten(list, new, found, row, TRUE)
      \/ /\ found = 0 /\ Cardinality(LiveOf(list)) < PlanProducts
         /\ ProductWritten(list, new, Len(list) + 1, row, TRUE)
  BY UpsertProductWrites
<1>2. /\ LiveOf(list) \subseteq DOMAIN list /\ 0 \notin DOMAIN list
      /\ Cardinality(LiveOf(list)) \in Nat /\ PlanProducts \in Nat
      /\ \A i \in DOMAIN list : list[i].live \in BOOLEAN
  <2>1. list \in Seq(Product)
    BY DEF ProductsFit
  <2>2. /\ LiveOf(list) \subseteq DOMAIN list /\ DOMAIN list \subseteq Nat \ {0}
        /\ Cardinality(LiveOf(list)) \in Nat /\ \A i \in DOMAIN list : list[i] \in Product
    BY <2>1, ListIndices
  <2>3. QED
    BY <2>2, FilesAssumption DEF Product
<1>3. /\ found = 0 => Cardinality(LiveOf(list)) >= PlanProducts
      /\ found # 0 => SameProduct(list[found], row)
  BY DEF ProductDone
<1> HIDE DEF new, list, found
<1>4. CASE new = list
  BY <1>4 DEF SameKeys, new, list
<1>5. CASE /\ found \in LiveOf(list) /\ Len(new) = Len(list)
           /\ ProductWritten(list, new, found, row, TRUE)
  <2>1. found # 0 /\ list[found].live = TRUE
    BY <1>2, <1>5 DEF LiveOf
  <2>2. /\ \A i \in DOMAIN list : i # found => new[i] = list[i]
        /\ new[found].live = TRUE /\ SameProduct(new[found], row)
    <3>1. new[found] \in Product
      BY <1>5 DEF ProductWritten
    <3>2. QED
      BY <1>5, <3>1 DEF ProductWritten, Product
  <2>3. SameKeys(list, new)
    BY <1>3, <1>5, <2>1, <2>2 DEF SameKeys, SameProduct
  <2>4. QED
    BY <2>3 DEF list, new
<1>6. CASE found = 0 /\ Cardinality(LiveOf(list)) < PlanProducts
  BY <1>2, <1>3, <1>6
<1>7. QED
  BY <1>1, <1>4, <1>5, <1>6

\* A list of products read in.
LEMMA ProductsReadIn ==
    ASSUME NEW file \in Seq(ProductRow), NEW whole \in BOOLEAN, ProductsFit(products),
           NEW h, OneByOne(h, IF whole THEN "backup" ELSE "list",
                           [list |-> products, map |-> <<>>, categories |-> categories], file, Len(file))
    PROVE  /\ \A n \in 0..Len(file) :
                 /\ ProductsFit(h[n].list) /\ Len(products) <= Len(h[n].list)
                 /\ h[n].map \in Seq(Nat) /\ Len(h[n].map) = n
                 /\ \A i \in 1..n : h[n].map[i] <= Len(h[n].list)
           /\ h[0].list = products
           /\ \A n \in 1..Len(file) : h[n] = UpsertProduct(h[n - 1], file[n], whole)
<1> DEFINE Good(n) == /\ ProductsFit(h[n].list) /\ Len(products) <= Len(h[n].list)
                      /\ h[n].map \in Seq(Nat) /\ Len(h[n].map) = n
                      /\ \A i \in 1..n : h[n].map[i] <= Len(h[n].list)
           P == {n \in Nat : n <= Len(file) => Good(n)}
<1>1. /\ h[0] = [list |-> products, map |-> <<>>, categories |-> categories]
      /\ \A n \in 1..Len(file) : h[n] = UpsertProduct(h[n - 1], file[n], whole)
  BY DEF OneByOne, OneTurn
<1>2. Len(file) \in Nat /\ \A n \in 1..Len(file) : file[n] \in ProductRow
  OBVIOUS
<1>3. 0 \in P
  <2>1. h[0].list = products /\ h[0].map = <<>>
    BY <1>1
  <2>2. ProductsFit(h[0].list) /\ Len(products) <= Len(h[0].list)
    <3>1. Len(products) \in Nat
      BY ListIndices DEF ProductsFit
    <3>2. QED
      BY <2>1, <3>1
  <2>3. h[0].map \in Seq(Nat) /\ Len(h[0].map) = 0
    BY <2>1
  <2>4. \A i \in 1..0 : h[0].map[i] <= Len(h[0].list)
    OBVIOUS
  <2>5. QED
    BY <2>2, <2>3, <2>4
<1>4. ASSUME NEW n \in Nat, n \in P PROVE n + 1 \in P
  <2> SUFFICES ASSUME n + 1 <= Len(file) PROVE Good(n + 1)
    OBVIOUS
  <2>1. n + 1 \in 1..Len(file) /\ (n + 1) - 1 = n /\ n <= Len(file)
    BY <1>2
  <2>2. Good(n)
    BY <1>4, <2>1
  <2> DEFINE acc == h[n]
             new == h[n + 1]
  <2>3. new = UpsertProduct(acc, file[n + 1], whole) /\ file[n + 1] \in ProductRow
    BY <1>1, <1>2, <2>1
  <2>4. /\ ProductsFit(new.list) /\ Len(acc.list) <= Len(new.list)
        /\ \E x \in 0..Len(new.list) : new.map = Append(acc.map, x)
    <3> HIDE DEF acc, new
    <3>1. ProductsFit(acc.list)
      BY <2>2 DEF acc
    <3>2. QED
      BY <2>3, <3>1, UpsertProductFits
  <2>5. PICK x \in 0..Len(new.list) : new.map = Append(acc.map, x)
    BY <2>4
  <2>6. Len(products) \in Nat /\ Len(acc.list) \in Nat /\ Len(new.list) \in Nat
    BY <2>2, <2>4, ListIndices, SMTT(30) DEF ProductsFit
  <2>7. /\ acc.map \in Seq(Nat) /\ Len(acc.map) = n /\ \A i \in 1..n : acc.map[i] <= Len(acc.list)
        /\ Len(products) <= Len(acc.list)
    BY <2>2
  <2> HIDE DEF acc, new
  <2>8. /\ new.map \in Seq(Nat) /\ Len(new.map) = n + 1 /\ new.map[n + 1] = x
        /\ \A i \in 1..n : new.map[i] = acc.map[i] /\ acc.map[i] \in Nat
    BY <2>5, <2>6, <2>7, SMTT(30)
  <2>9. \A i \in 1..(n + 1) : new.map[i] <= Len(new.list)
    <3>1. ASSUME NEW i \in 1..n PROVE new.map[i] <= Len(new.list)
      <4>1. new.map[i] = acc.map[i] /\ acc.map[i] \in Nat
        BY <2>8
      <4>2. acc.map[i] <= Len(acc.list) /\ Len(acc.list) <= Len(new.list)
        BY <2>4, <2>7
      <4>3. QED
        BY <2>6, <4>1, <4>2
    <3>2. new.map[n + 1] <= Len(new.list)
      BY <2>6, <2>8
    <3>3. \A i \in 1..(n + 1) : i \in 1..n \/ i = n + 1
      OBVIOUS
    <3>4. QED
      BY <3>1, <3>2, <3>3
  <2>10. QED
    BY <2>4, <2>6, <2>7, <2>8, <2>9 DEF new
<1> HIDE DEF P
<1>5. Nat \subseteq P
  BY <1>3, <1>4, NatSetInduction
<1>6. \A n \in 0..Len(file) : Good(n)
  <2> HIDE DEF Good
  <2>1. QED
    BY <1>2, <1>5 DEF P
<1>7. h[0].list = products
  BY <1>1
<1>8. QED
  BY <1>1, <1>6, <1>7

\* A list of numbers that are all within a bound, as a function.
LEMMA WithinBounds ==
    ASSUME NEW list \in Seq(Nat), NEW m \in Nat, \A i \in 1..Len(list) : list[i] <= m
    PROVE  list \in [1..Len(list) -> 0..m]
<1>1. list \in [1..Len(list) -> Nat] /\ \A i \in 1..Len(list) : list[i] \in 0..m
  OBVIOUS
<1>2. QED
  BY <1>1

\* The backup's products: each is there afterwards, and nothing but stock
\* changes when they all were before.
LEMMA BackupProducts ==
    ASSUME ProductsFit(products)
    PROVE  LET done == UpsertProducts(ProductFile, TRUE)
           IN  /\ ProductsFit(done.list) /\ (RowsAreTwoThings => ProductsDone(done.list))
               /\ done.map \in [DOMAIN ProductFile -> 0..Len(done.list)]
               /\ Len(products) <= Len(done.list)
               /\ ProductsDone(products) => SameKeys(products, done.list)
<1> DEFINE N == Len(ProductFile)
           base == [list |-> products, map |-> <<>>, categories |-> categories]
<1>1. /\ ProductFile \in Seq(ProductRow) /\ N \in Nat /\ DOMAIN ProductFile = 1..N
      /\ \A n \in 1..N : ProductFile[n] \in ProductRow
  BY FilesAssumption
<1>2. Reached(UpsertProducts(ProductFile, TRUE), "backup", base, ProductFile, N)
  <2>1. TRUE \in BOOLEAN /\ (IF TRUE THEN "backup" ELSE "list") = "backup"
    OBVIOUS
  <2>2. Reached(UpsertProducts(ProductFile, TRUE), IF TRUE THEN "backup" ELSE "list", base, ProductFile, N)
    BY <1>1, <2>1, ProductsOneByOne
  <2>3. QED
    BY <2>1, <2>2
<1>3. PICK h : OneByOne(h, "backup", base, ProductFile, N) /\ h[N] = UpsertProducts(ProductFile, TRUE)
  BY <1>2 DEF Reached
<1>4. /\ \A n \in 0..N :
            /\ ProductsFit(h[n].list) /\ Len(products) <= Len(h[n].list)
            /\ h[n].map \in Seq(Nat) /\ Len(h[n].map) = n
            /\ \A i \in 1..n : h[n].map[i] <= Len(h[n].list)
      /\ h[0].list = products
      /\ \A n \in 1..N : h[n] = UpsertProduct(h[n - 1], ProductFile[n], TRUE)
  <2>1. TRUE \in BOOLEAN /\ OneByOne(h, IF TRUE THEN "backup" ELSE "list", base, ProductFile, N)
    BY <1>3
  <2>2. QED
    BY <1>1, <2>1, ProductsReadIn
<1> HIDE DEF N, base
<1>5. ASSUME RowsAreTwoThings, NEW m \in 1..N, NEW n \in 1..N, m # n, NEW key \in {"name", "sku", "barcode"}
      PROVE  ApartOn(ProductFile[m], ProductFile[n], key)
  BY <1>1, <1>5 DEF RowsAreTwoThings, RowsApart, ApartOn
<1> DEFINE Done(n) == RowsAreTwoThings => \A m \in 1..n : ProductDone(h[n].list, ProductFile[m])
           P == {n \in Nat : n <= N => Done(n)}
<1>6. 0 \in P
  OBVIOUS
<1>7. ASSUME NEW n \in Nat, n \in P PROVE n + 1 \in P
  <2> SUFFICES ASSUME RowsAreTwoThings, n + 1 <= N, NEW m \in 1..(n + 1)
               PROVE  ProductDone(h[n + 1].list, ProductFile[m])
    OBVIOUS
  <2>1. n + 1 \in 1..N /\ (n + 1) - 1 = n /\ n \in 0..N /\ m \in 1..N
    BY <1>1
  <2>2. ProductsFit(h[n].list) /\ h[n + 1] = UpsertProduct(h[n], ProductFile[n + 1], TRUE)
    BY <1>4, <2>1
  <2>3. CASE m = n + 1
    BY <1>1, <2>1, <2>2, <2>3, UpsertProductDone
  <2>4. CASE m # n + 1
    <3>1. ProductDone(h[n].list, ProductFile[m])
      BY <1>7, <2>1, <2>4
    <3>2. \A key \in {"name", "sku", "barcode"} : ApartOn(ProductFile[m], ProductFile[n + 1], key)
      BY <1>5, <2>1, <2>4
    <3>3. QED
      BY <1>1, <2>1, <2>2, <3>1, <3>2, UpsertProductKeeps
  <2>5. QED
    BY <2>3, <2>4
<1> HIDE DEF P
<1>8. Nat \subseteq P
  BY <1>6, <1>7, NatSetInduction
<1>9. RowsAreTwoThings => ProductsDone(h[N].list)
  BY <1>1, <1>8 DEF P, ProductsDone
<1>10. ASSUME ProductsDone(products) PROVE SameKeys(products, h[N].list)
  <2> DEFINE Q == {n \in Nat : n <= N => SameKeys(products, h[n].list)}
  <2>1. 0 \in Q
    BY <1>4 DEF SameKeys
  <2>2. ASSUME NEW n \in Nat, n \in Q PROVE n + 1 \in Q
    <3> SUFFICES ASSUME n + 1 <= N PROVE SameKeys(products, h[n + 1].list)
      OBVIOUS
    <3>1. n + 1 \in 1..N /\ (n + 1) - 1 = n /\ n \in 0..N
      BY <1>1
    <3>2. SameKeys(products, h[n].list)
      BY <1>1, <2>2, <3>1
    <3>3. ProductsFit(h[n].list) /\ h[n + 1] = UpsertProduct(h[n], ProductFile[n + 1], TRUE)
      BY <1>4, <3>1
    <3>4. ProductDone(h[n].list, ProductFile[n + 1])
      <4>1. ProductDone(products, ProductFile[n + 1])
        BY <1>1, <1>10, <3>1 DEF ProductsDone
      <4>2. products \in Seq(Product) /\ h[n].list \in Seq(Product)
        BY <3>3 DEF ProductsFit
      <4>3. QED
        BY <3>2, <4>1, <4>2, SameKeysFindSame
    <3>5. SameKeys(h[n].list, h[n + 1].list)
      BY <1>1, <3>1, <3>3, <3>4, UpsertProductSame
    <3>6. DOMAIN products = 1..Len(products) /\ DOMAIN h[n].list = 1..Len(h[n].list)
      BY <3>3, ListIndices DEF ProductsFit
    <3>7. QED
      BY <3>2, <3>5, <3>6 DEF SameKeys
  <2> HIDE DEF Q
  <2>3. Nat \subseteq Q
    BY <2>1, <2>2, NatSetInduction
  <2>4. QED
    BY <1>1, <2>3 DEF Q
<1>11. h[N].map \in [DOMAIN ProductFile -> 0..Len(h[N].list)]
  <2>1. N \in 0..N /\ h[N].map \in Seq(Nat) /\ Len(h[N].map) = N /\ \A i \in 1..N : h[N].map[i] <= Len(h[N].list)
    BY <1>1, <1>4
  <2>2. Len(h[N].list) \in Nat
    BY <1>4, <2>1, ListIndices DEF ProductsFit
  <2>3. h[N].map \in [1..Len(h[N].map) -> 0..Len(h[N].list)]
    BY <2>1, <2>2, WithinBounds
  <2>4. QED
    BY <1>1, <2>1, <2>3
<1>12. N \in 0..N
  BY <1>1
<1>13. QED
  BY <1>3, <1>4, <1>9, <1>10, <1>11, <1>12

\* A list of products: some fields may be left out.
LEMMA ListedProducts ==
    ASSUME ProductsFit(products)
    PROVE  LET done == UpsertProducts(ProductList, FALSE)
           IN  ProductsFit(done.list) /\ Len(products) <= Len(done.list)
<1> DEFINE N == Len(ProductList)
           base == [list |-> products, map |-> <<>>, categories |-> categories]
<1>1. ProductList \in Seq(ProductRow) /\ N \in Nat /\ DOMAIN ProductList = 1..N /\ N \in 0..N
  BY FilesAssumption
<1>2. Reached(UpsertProducts(ProductList, FALSE), IF FALSE THEN "backup" ELSE "list", base, ProductList, N)
  <2>1. FALSE \in BOOLEAN
    OBVIOUS
  <2>2. QED
    BY <1>1, <2>1, ProductsOneByOne
<1>3. PICK h : /\ OneByOne(h, IF FALSE THEN "backup" ELSE "list", base, ProductList, N)
               /\ h[N] = UpsertProducts(ProductList, FALSE)
  BY <1>2 DEF Reached
<1>4. FALSE \in BOOLEAN
  OBVIOUS
<1>5. OneByOne(h, IF FALSE THEN "backup" ELSE "list", base, ProductList, Len(ProductList))
  BY <1>3
<1>6. \A n \in 0..Len(ProductList) : ProductsFit(h[n].list) /\ Len(products) <= Len(h[n].list)
  BY <1>1, <1>4, <1>5, ProductsReadIn
<1>7. ProductsFit(h[N].list) /\ Len(products) <= Len(h[N].list)
  BY <1>1, <1>6
<1> HIDE DEF base, N
<1>8. QED
  BY <1>3, <1>7

----------------------------------------------------------------------------
(***************************************************************************)
(* Customers.                                                              *)
(***************************************************************************)
\* A row is written over the f-th customer or appended as that one.
CustomerWritten(list, new, f, row) ==
    /\ new \in Seq(Customer) /\ Len(list) <= Len(new) /\ f \in DOMAIN new
    /\ \A i \in DOMAIN list : i \in DOMAIN new /\ (i # f => new[i] = list[i])
    /\ \A i \in DOMAIN new : i # f => i \in DOMAIN list
    /\ new[f] = [name |-> row.name, phone |-> row.phone, live |-> TRUE]

LEMMA UpsertCustomerWrites ==
    ASSUME NEW list, CustomersFit(list), NEW row \in CustomerRow
    PROVE  LET found == FindCustomer(list, row)
               new == UpsertCustomer(list, row)
           IN  \/ /\ found = 0 /\ Cardinality(LiveOf(list)) >= PlanCustomers /\ new = list
               \/ /\ found \in LiveOf(list) /\ Len(new) = Len(list)
                  /\ CustomerWritten(list, new, found, row)
               \/ /\ found = 0 /\ Cardinality(LiveOf(list)) < PlanCustomers /\ Len(new) = Len(list) + 1
                  /\ CustomerWritten(list, new, Len(list) + 1, row)
<1> DEFINE found == FindCustomer(list, row)
           new == UpsertCustomer(list, row)
           q == [name |-> row.name, phone |-> row.phone, live |-> TRUE]
<1>1. /\ list \in Seq(Customer) /\ Len(list) \in Nat /\ DOMAIN list = 1..Len(list)
      /\ \A i \in DOMAIN list : list[i] \in Customer
      /\ LiveOf(list) \subseteq DOMAIN list /\ DOMAIN list \subseteq Nat \ {0}
      /\ Cardinality(LiveOf(list)) \in Nat /\ PlanCustomers \in Nat
  BY ListIndices, FilesAssumption DEF CustomersFit
<1>2. found # 0 => found \in LiveOf(list)
  <2>1. Found(found, Matching(list, row, "phone"), ByName(list, row), {})
    BY <1>1, CustomerFound
  <2>2. found # 0 => PickedFrom(found, Matching(list, row, "phone"), ByName(list, row), {})
    BY <2>1 DEF Found
  <2>3. QED
    BY <2>2 DEF PickedFrom, LeastOf, Matching, ByName
<1>3. q \in Customer
  BY DEF Customer, CustomerRow
<1>4. CASE found = 0 /\ Cardinality(LiveOf(list)) >= PlanCustomers
  BY <1>4 DEF UpsertCustomer
<1>5. CASE found # 0
  <2>1. found \in DOMAIN list
    BY <1>1, <1>2, <1>5
  <2>2. new = [list EXCEPT ![found] = q]
    BY <1>5 DEF UpsertCustomer
  <2> HIDE DEF q, found, new
  <2>3. /\ new \in Seq(Customer) /\ Len(new) = Len(list) /\ DOMAIN new = DOMAIN list
        /\ new[found] = q /\ \A i \in DOMAIN list : i # found => new[i] = list[i]
    BY <1>1, <1>3, <2>1, <2>2
  <2>4. CustomerWritten(list, new, found, row)
    BY <1>1, <2>1, <2>3 DEF CustomerWritten, q
  <2>5. QED
    BY <1>2, <1>5, <2>3, <2>4 DEF found, new
<1>6. CASE found = 0 /\ Cardinality(LiveOf(list)) < PlanCustomers
  <2> DEFINE f == Len(list) + 1
  <2>1. new = Append(list, q)
    <3>1. ~(Cardinality(LiveOf(list)) >= PlanCustomers)
      BY <1>1, <1>6
    <3>2. QED
      BY <1>6, <3>1 DEF UpsertCustomer
  <2> HIDE DEF q, new
  <2>2. /\ new \in Seq(Customer) /\ Len(new) = f /\ DOMAIN new = 1..f
        /\ new[f] = q /\ \A i \in DOMAIN list : i # f /\ new[i] = list[i]
    BY <1>1, <1>3, <2>1
  <2>3. CustomerWritten(list, new, f, row)
    BY <1>1, <2>2 DEF CustomerWritten, q
  <2>4. QED
    BY <1>6, <2>2, <2>3 DEF new
<1>7. QED
  BY <1>1, <1>4, <1>5, <1>6

\* Who has the phone and the name when a row was written.
LEMMA CustomersWritten ==
    ASSUME NEW list, NEW new, NEW f, NEW row, CustomerWritten(list, new, f, row), NEW r
    PROVE  /\ \A i : i # f => (i \in LiveOf(new) <=> i \in LiveOf(list))
           /\ \A i : i # f => (i \in Matching(new, r, "phone") <=> i \in Matching(list, r, "phone"))
           /\ \A i : i # f => (i \in ByName(new, r) <=> i \in ByName(list, r))
           /\ f \in LiveOf(new)
           /\ f \in Matching(new, r, "phone") <=> r.phone # 0 /\ row.phone = r.phone
           /\ f \in ByName(new, r) <=> row.name = r.name /\ (row.phone = 0 \/ r.phone = 0)
<1>1. /\ \A i \in DOMAIN list : i \in DOMAIN new /\ (i # f => new[i] = list[i])
      /\ \A i \in DOMAIN new : i # f => i \in DOMAIN list
      /\ f \in DOMAIN new /\ new[f] = [name |-> row.name, phone |-> row.phone, live |-> TRUE]
  BY DEF CustomerWritten
<1>2. f \in LiveOf(new) /\ new[f].phone = row.phone /\ new[f].name = row.name
  BY <1>1 DEF LiveOf
<1>3. ASSUME NEW i, i # f
      PROVE  /\ i \in LiveOf(new) <=> i \in LiveOf(list)
             /\ i \in LiveOf(new) => new[i] = list[i]
  BY <1>1, <1>3 DEF LiveOf
<1>4. ASSUME NEW i, i # f
      PROVE  /\ i \in Matching(new, r, "phone") <=> i \in Matching(list, r, "phone")
             /\ i \in ByName(new, r) <=> i \in ByName(list, r)
  BY <1>3, <1>4 DEF Matching, ByName
<1>5. /\ f \in Matching(new, r, "phone") <=> r.phone # 0 /\ row.phone = r.phone
      /\ f \in ByName(new, r) <=> row.name = r.name /\ (row.phone = 0 \/ r.phone = 0)
  BY <1>2 DEF Matching, ByName
<1>6. QED
  BY <1>2, <1>3, <1>4, <1>5

\* Nobody else has the phone of the row that is written.
LEMMA NoOtherPhone ==
    ASSUME NEW list, CustomersFit(list), NEW row
    PROVE  Matching(list, row, "phone") \subseteq {FindCustomer(list, row)}
<1> DEFINE A == Matching(list, row, "phone")
           f == FindCustomer(list, row)
<1>1. Found(f, A, ByName(list, row), {})
  BY CustomerFound DEF CustomersFit
<1> HIDE DEF f
<1>2. ASSUME NEW i \in A PROVE i = f
  <2>1. f \in A
    <3> HIDE DEF A
    <3>1. PickedFrom(f, A, ByName(list, row), {})
      BY <1>1, <1>2 DEF Found
    <3>2. QED
      BY <1>2, <3>1 DEF PickedFrom, LeastOf
  <2>2. /\ i \in LiveOf(list) /\ f \in LiveOf(list) /\ row.phone # 0
        /\ list[i].phone = row.phone /\ list[f].phone = row.phone
    BY <1>2, <2>1 DEF Matching
  <2>3. QED
    BY <2>2 DEF CustomersFit, Apart
<1>3. QED
  BY <1>2 DEF f

LEMMA CustomersWrittenFit ==
    ASSUME NEW list, CustomersFit(list), NEW new, NEW f, NEW row \in CustomerRow,
           CustomerWritten(list, new, f, row),
           f \in LiveOf(list) \/ (f \notin DOMAIN list /\ Cardinality(LiveOf(list)) < PlanCustomers),
           Matching(list, row, "phone") \subseteq {f}
    PROVE  CustomersFit(new)
<1>1. /\ list \in Seq(Customer) /\ new \in Seq(Customer)
      /\ LiveOf(list) \subseteq DOMAIN list
      /\ IsFiniteSet(LiveOf(list)) /\ Cardinality(LiveOf(list)) \in Nat /\ PlanCustomers \in Nat
  BY ListIndices, FilesAssumption DEF CustomersFit, CustomerWritten
<1>2. LiveOf(new) = LiveOf(list) \cup {f}
  BY CustomersWritten
<1>3. Cardinality(LiveOf(new)) <= PlanCustomers
  <2>1. CASE f \in LiveOf(list)
    <3>1. LiveOf(new) = LiveOf(list)
      BY <1>2, <2>1
    <3>2. QED
      BY <3>1 DEF CustomersFit
  <2>2. CASE f \notin DOMAIN list /\ Cardinality(LiveOf(list)) < PlanCustomers
    <3>1. Cardinality(LiveOf(new)) = Cardinality(LiveOf(list)) + 1
      BY <1>1, <1>2, <2>2, FS_AddElement
    <3>2. QED
      BY <1>1, <2>2, <3>1
  <2>3. QED
    BY <2>1, <2>2
<1>4. Apart(new, "phone")
  <2> SUFFICES ASSUME NEW i \in LiveOf(new), NEW j \in LiveOf(new), new[i].phone = new[j].phone,
                      new[i].phone # 0
               PROVE  i = j
    BY DEF Apart
  <2>1. \A k \in LiveOf(list), m \in LiveOf(list) : list[k].phone = list[m].phone => k = m \/ list[k].phone = 0
    BY DEF CustomersFit, Apart
  <2>2. ASSUME NEW k \in LiveOf(new), k # f, new[k].phone = new[f].phone, new[k].phone # 0 PROVE FALSE
    <3>1. k \in LiveOf(list) /\ new[k] = list[k]
      BY <1>1, <1>2, <2>2 DEF CustomerWritten
    <3>2. new[f].phone = row.phone
      BY DEF CustomerWritten
    <3>3. QED
      BY <2>2, <3>1, <3>2 DEF Matching
  <2>3. CASE i # f /\ j # f
    <3>1. i \in LiveOf(list) /\ j \in LiveOf(list) /\ new[i] = list[i] /\ new[j] = list[j]
      BY <1>1, <1>2, <2>3 DEF CustomerWritten
    <3>2. QED
      BY <2>1, <3>1
  <2>4. QED
    BY <2>2, <2>3
<1>5. QED
  BY <1>1, <1>3, <1>4 DEF CustomersFit

\* A row written fits, is found there, and lets the others of the backup stay.
LEMMA UpsertCustomerDoes ==
    ASSUME NEW list, CustomersFit(list), NEW row \in CustomerRow
    PROVE  LET new == UpsertCustomer(list, row)
           IN  /\ CustomersFit(new) /\ Len(list) <= Len(new)
               /\ CustomerDone(new, row)
               /\ CustomerDone(list, row) => new = list
               /\ \A r \in CustomerRow :
                     ApartOn(r, row, "name") /\ ApartOn(r, row, "phone") /\ CustomerDone(list, r)
                     => CustomerDone(new, r)
<1> DEFINE found == FindCustomer(list, row)
           new == UpsertCustomer(list, row)
<1>1. /\ list \in Seq(Customer) /\ Len(list) \in Nat /\ DOMAIN list = 1..Len(list)
      /\ LiveOf(list) \subseteq DOMAIN list /\ DOMAIN list \subseteq Nat \ {0}
      /\ Cardinality(LiveOf(list)) \in Nat /\ PlanCustomers \in Nat
      /\ \A i \in DOMAIN list : list[i] \in Customer
  BY ListIndices, FilesAssumption DEF CustomersFit
<1>2. \/ /\ found = 0 /\ Cardinality(LiveOf(list)) >= PlanCustomers /\ new = list
      \/ /\ found \in LiveOf(list) /\ Len(new) = Len(list)
         /\ CustomerWritten(list, new, found, row)
      \/ /\ found = 0 /\ Cardinality(LiveOf(list)) < PlanCustomers /\ Len(new) = Len(list) + 1
         /\ CustomerWritten(list, new, Len(list) + 1, row)
  BY UpsertCustomerWrites
<1>3. /\ Found(found, Matching(list, row, "phone"), ByName(list, row), {})
      /\ Matching(list, row, "phone") \subseteq {found}
      /\ Matching(list, row, "phone") \subseteq DOMAIN list
  BY <1>1, CustomerFound, NoOtherPhone DEF Matching
<1> HIDE DEF found, new
<1>4. CASE found = 0 /\ Cardinality(LiveOf(list)) >= PlanCustomers /\ new = list
  <2>1. CustomerDone(list, row)
    BY <1>4 DEF CustomerDone, found
  <2>2. QED
    BY <1>1, <1>4, <2>1 DEF new
<1>5. ASSUME NEW f \in Nat \ {0}, CustomerWritten(list, new, f, row),
             \/ found = f /\ f \in LiveOf(list)
             \/ found = 0 /\ f \notin DOMAIN list /\ Cardinality(LiveOf(list)) < PlanCustomers
      PROVE  /\ CustomersFit(new) /\ Len(list) <= Len(new)
             /\ CustomerDone(new, row)
             /\ \A r \in CustomerRow :
                   ApartOn(r, row, "name") /\ ApartOn(r, row, "phone") /\ CustomerDone(list, r)
                   => CustomerDone(new, r)
  <2>1. Matching(list, row, "phone") \subseteq {f}
    BY <1>1, <1>3, <1>5
  <2>2. CustomersFit(new)
    BY <1>5, <2>1, CustomersWrittenFit
  <2>3. new \in Seq(Customer) /\ new[f].name = row.name /\ new[f].phone = row.phone
    BY <1>5 DEF CustomerWritten
  <2>4. CustomerDone(new, row)
    <3> DEFINE A == Matching(list, row, "phone")
               B == ByName(list, row)
               NewA == Matching(new, row, "phone")
               NewB == ByName(new, row)
    <3>1. /\ \A i : i # f => (i \in NewA <=> i \in A)
          /\ \A i : i # f => (i \in NewB <=> i \in B)
          /\ f \in NewA <=> row.phone # 0 /\ row.phone = row.phone
          /\ f \in NewB <=> row.name = row.name /\ (row.phone = 0 \/ row.phone = 0)
      BY <1>5, CustomersWritten
    <3>2. row.phone = 0 => A = {}
      BY DEF Matching
    <3>3. Found(found, A, B, {}) /\ Found(FindCustomer(new, row), NewA, NewB, {}) /\ A \subseteq {f}
      BY <1>3, <2>1, <2>3, CustomerFound
    <3> HIDE DEF A, B, NewA, NewB
    <3>4. PickedFrom(f, NewA, NewB, {})
      <4>1. f <= f
        BY <1>5
      <4>2. CASE row.phone # 0
        <5>1. NewA = {f}
          BY <3>1, <3>3, <4>2
        <5>2. QED
          BY <4>1, <5>1 DEF PickedFrom, LeastOf
      <4>3. CASE row.phone = 0
        <5>1. NewA = {} /\ NewB = B \cup {f}
          BY <3>1, <3>2, <4>3
        <5>2. CASE found = 0
          <6>1. NewB = {f}
            BY <3>3, <5>1, <5>2 DEF Found
          <6>2. QED
            BY <4>1, <5>1, <6>1 DEF PickedFrom, LeastOf
        <5>3. CASE found = f
          <6>1. f # 0
            OBVIOUS
          <6>2. PickedFrom(f, A, B, {})
            BY <3>3, <5>3, <6>1 DEF Found
          <6>3. LeastOf(f, B)
            BY <3>2, <4>3, <6>2 DEF PickedFrom, LeastOf
          <6>4. NewB = B
            BY <5>1, <6>3 DEF LeastOf
          <6>5. QED
            BY <5>1, <6>3, <6>4 DEF PickedFrom
        <5>4. QED
          BY <1>5, <5>2, <5>3
      <4>4. QED
        BY <4>2, <4>3
    <3>5. FindCustomer(new, row) = f
      BY <3>3, <3>4 DEF Found
    <3>6. QED
      BY <2>3, <3>5 DEF CustomerDone
  <2>5. ASSUME NEW r \in CustomerRow, ApartOn(r, row, "name"), ApartOn(r, row, "phone"), CustomerDone(list, r)
        PROVE  CustomerDone(new, r)
    <3> DEFINE A == Matching(list, r, "phone")
               B == ByName(list, r)
               e == FindCustomer(list, r)
    <3>1. r.name # 0 /\ r.name # row.name /\ (r.phone = 0 \/ r.phone # row.phone)
      BY <2>5 DEF ApartOn, CustomerRow
    <3>2. Matching(new, r, "phone") = A \ {f} /\ ByName(new, r) = B \ {f}
      <4>1. /\ \A i : i # f => (i \in Matching(new, r, "phone") <=> i \in A)
            /\ \A i : i # f => (i \in ByName(new, r) <=> i \in B)
            /\ f \in Matching(new, r, "phone") <=> r.phone # 0 /\ row.phone = r.phone
            /\ f \in ByName(new, r) <=> row.name = r.name /\ (row.phone = 0 \/ r.phone = 0)
        BY <1>5, CustomersWritten
      <4> HIDE DEF A, B
      <4>2. QED
        BY <3>1, <4>1
    <3>3. Found(e, A, B, {}) /\ Found(FindCustomer(new, r), A \ {f}, B \ {f}, {})
      <4>1. Found(FindCustomer(new, r), Matching(new, r, "phone"), ByName(new, r), {})
        BY <2>3, CustomerFound
      <4>2. QED
        BY <1>1, <3>2, <4>1, CustomerFound
    <3>4. A \subseteq LiveOf(list) /\ B \subseteq LiveOf(list)
      BY DEF Matching, ByName
    <3>5. /\ e = 0 => Cardinality(LiveOf(list)) >= PlanCustomers
          /\ e # 0 => list[e].name = r.name /\ list[e].phone = r.phone
      BY <2>5 DEF CustomerDone
    <3> HIDE DEF A, B, e
    <3>6. CASE e = 0
      <4>1. f \in LiveOf(list) /\ A = {} /\ B = {}
        BY <1>1, <1>5, <3>3, <3>5, <3>6 DEF Found
      <4>2. FindCustomer(new, r) = 0
        BY <3>3, <4>1 DEF Found
      <4>3. LiveOf(new) = LiveOf(list)
        BY <1>5, <4>1, CustomersWritten, SMTT(30)
      <4>4. Cardinality(LiveOf(new)) >= PlanCustomers
        BY <3>5, <3>6, <4>3
      <4>5. QED
        BY <4>2, <4>4 DEF CustomerDone
    <3>7. CASE e # 0
      <4>1. PickedFrom(e, A, B, {})
        BY <3>3, <3>7 DEF Found
      <4>2. e \in DOMAIN list
        BY <1>1, <3>4, <4>1 DEF PickedFrom, LeastOf
      <4>3. e # f
        <5> SUFFICES ASSUME e = f PROVE FALSE
          OBVIOUS
        <5>1. found = f /\ f # 0
          BY <1>5, <4>2
        <5>2. PickedFrom(f, Matching(list, row, "phone"), ByName(list, row), {})
          BY <1>3, <5>1 DEF Found
        <5>3. CASE f \in Matching(list, row, "phone")
          <6>1. row.phone # 0 /\ list[f].phone = row.phone
            BY <5>3 DEF Matching
          <6>2. QED
            BY <3>1, <3>5, <3>7, <6>1
        <5>4. CASE f \in ByName(list, row)
          <6>1. list[f].name = row.name
            BY <5>4 DEF ByName
          <6>2. QED
            BY <3>1, <3>5, <3>7, <6>1
        <5>5. QED
          BY <5>2, <5>3, <5>4 DEF PickedFrom, LeastOf
      <4>4. PickedFrom(e, A \ {f}, B \ {f}, {})
        <5>1. PickedFrom(e, A \ {f}, B \ {f}, {} \ {f})
          BY <4>1, <4>3, PickStays
        <5>2. {} \ {f} = {}
          OBVIOUS
        <5>3. QED
          BY <5>1, <5>2
      <4>5. FindCustomer(new, r) = e
        BY <3>3, <4>4 DEF Found
      <4>6. new[e] = list[e]
        BY <1>5, <4>2, <4>3 DEF CustomerWritten
      <4>7. QED
        BY <3>5, <3>7, <4>5, <4>6 DEF CustomerDone
    <3>8. QED
      BY <3>6, <3>7
  <2>6. Len(list) <= Len(new)
    BY <1>5 DEF CustomerWritten
  <2>7. QED
    BY <2>2, <2>4, <2>5, <2>6
<1>6. CASE /\ found \in LiveOf(list) /\ Len(new) = Len(list)
           /\ CustomerWritten(list, new, found, row)
  <2>1. found \in Nat \ {0} /\ found \in DOMAIN list
    BY <1>1, <1>6
  <2>2. ASSUME CustomerDone(list, row) PROVE new = list
    <3>1. list[found].name = row.name /\ list[found].phone = row.phone
      BY <2>1, <2>2 DEF CustomerDone, found
    <3>2. list[found] = [name |-> row.name, phone |-> row.phone, live |-> TRUE]
      BY <1>1, <1>6, <2>1, <3>1 DEF LiveOf, Customer
    <3>3. \A i \in DOMAIN list : new[i] = list[i]
      BY <1>6, <3>2 DEF CustomerWritten
    <3>4. new \in Seq(Customer) /\ DOMAIN new = DOMAIN list
      BY <1>1, <1>6 DEF CustomerWritten
    <3>5. new = [i \in DOMAIN list |-> new[i]] /\ list = [i \in DOMAIN list |-> list[i]]
      BY <1>1, <3>4
    <3>6. QED
      BY <3>3, <3>5
  <2>3. QED
    BY <1>5, <1>6, <2>1, <2>2 DEF new
<1>7. CASE /\ found = 0 /\ Cardinality(LiveOf(list)) < PlanCustomers /\ Len(new) = Len(list) + 1
           /\ CustomerWritten(list, new, Len(list) + 1, row)
  <2>1. Len(list) + 1 \in Nat \ {0} /\ Len(list) + 1 \notin DOMAIN list
    BY <1>1
  <2>2. ~CustomerDone(list, row)
    BY <1>1, <1>7 DEF CustomerDone, found
  <2>3. QED
    BY <1>5, <1>7, <2>1, <2>2 DEF new
<1>8. QED
  BY <1>2, <1>4, <1>6, <1>7

LEMMA CustomersReadIn ==
    ASSUME NEW file \in Seq(CustomerRow), CustomersFit(customers),
           NEW h, OneByOne(h, "customers", customers, file, Len(file))
    PROVE  /\ \A n \in 0..Len(file) : CustomersFit(h[n]) /\ Len(customers) <= Len(h[n])
           /\ h[0] = customers
           /\ \A n \in 1..Len(file) : h[n] = UpsertCustomer(h[n - 1], file[n])
<1> DEFINE Good(n) == CustomersFit(h[n]) /\ Len(customers) <= Len(h[n])
           P == {n \in Nat : n <= Len(file) => Good(n)}
<1>1. /\ h[0] = customers
      /\ \A n \in 1..Len(file) : h[n] = UpsertCustomer(h[n - 1], file[n])
  BY DEF OneByOne, OneTurn
<1>2. Len(file) \in Nat /\ \A n \in 1..Len(file) : file[n] \in CustomerRow
  OBVIOUS
<1>3. 0 \in P
  <2>1. Len(customers) \in Nat
    BY ListIndices DEF CustomersFit
  <2>2. CustomersFit(h[0]) /\ Len(customers) <= Len(h[0])
    BY <1>1, <2>1
  <2>3. QED
    BY <2>2
<1>4. ASSUME NEW n \in Nat, n \in P PROVE n + 1 \in P
  <2> SUFFICES ASSUME n + 1 <= Len(file) PROVE Good(n + 1)
    OBVIOUS
  <2>1. n + 1 \in 1..Len(file) /\ (n + 1) - 1 = n /\ n <= Len(file)
    BY <1>2
  <2>2. Good(n)
    BY <1>4, <2>1
  <2>3. h[n + 1] = UpsertCustomer(h[n], file[n + 1]) /\ file[n + 1] \in CustomerRow
    BY <1>1, <1>2, <2>1
  <2>4. CustomersFit(h[n + 1]) /\ Len(h[n]) <= Len(h[n + 1])
    BY <2>2, <2>3, UpsertCustomerDoes
  <2>5. Len(customers) \in Nat /\ Len(h[n]) \in Nat /\ Len(h[n + 1]) \in Nat
    BY <2>2, <2>4, ListIndices DEF CustomersFit
  <2>6. QED
    BY <2>2, <2>4, <2>5
<1> HIDE DEF P
<1>5. Nat \subseteq P
  BY <1>3, <1>4, NatSetInduction
<1>6. \A n \in 0..Len(file) : Good(n)
  BY <1>2, <1>5 DEF P
<1>7. QED
  BY <1>1, <1>6

LEMMA ListedCustomers ==
    ASSUME NEW file \in Seq(CustomerRow), CustomersFit(customers)
    PROVE  CustomersFit(UpsertCustomers(file)) /\ Len(customers) <= Len(UpsertCustomers(file))
<1>1. Len(file) \in Nat /\ DOMAIN file = 1..Len(file) /\ Len(file) \in 0..Len(file)
  OBVIOUS
<1>2. Reached(UpsertCustomers(file), "customers", customers, file, Len(file))
  BY <1>1, CustomersOneByOne
<1>3. PICK h : OneByOne(h, "customers", customers, file, Len(file)) /\ h[Len(file)] = UpsertCustomers(file)
  BY <1>2 DEF Reached
<1>4. CustomersFit(h[Len(file)]) /\ Len(customers) <= Len(h[Len(file)])
  BY <1>1, <1>3, CustomersReadIn
<1>5. QED
  BY <1>3, <1>4

\* The backup's customers: each is there afterwards, and nothing changes when
\* they all were before.
LEMMA BackupCustomers ==
    ASSUME CustomersFit(customers)
    PROVE  /\ RowsAreTwoThings => CustomersDone(UpsertCustomers(CustomerFile))
           /\ CustomersDone(customers) => UpsertCustomers(CustomerFile) = customers
<1> DEFINE N == Len(CustomerFile)
<1>1. /\ CustomerFile \in Seq(CustomerRow) /\ N \in Nat /\ DOMAIN CustomerFile = 1..N
      /\ \A n \in 1..N : CustomerFile[n] \in CustomerRow
  BY FilesAssumption
<1>2. Reached(UpsertCustomers(CustomerFile), "customers", customers, CustomerFile, N)
  BY <1>1, CustomersOneByOne
<1>3. PICK h : OneByOne(h, "customers", customers, CustomerFile, N) /\ h[N] = UpsertCustomers(CustomerFile)
  BY <1>2 DEF Reached
<1>4. /\ \A n \in 0..N : CustomersFit(h[n])
      /\ h[0] = customers
      /\ \A n \in 1..N : h[n] = UpsertCustomer(h[n - 1], CustomerFile[n])
  BY <1>1, <1>3, CustomersReadIn
<1> HIDE DEF N
<1>5. ASSUME RowsAreTwoThings, NEW m \in 1..N, NEW n \in 1..N, m # n
      PROVE  ApartOn(CustomerFile[m], CustomerFile[n], "name") /\ ApartOn(CustomerFile[m], CustomerFile[n], "phone")
  BY <1>1, <1>5 DEF RowsAreTwoThings, RowsApart, ApartOn
<1>6. ASSUME NEW n \in Nat, n + 1 <= N
      PROVE  /\ n + 1 \in 1..N /\ n \in 0..N
             /\ CustomersFit(h[n]) /\ h[n + 1] = UpsertCustomer(h[n], CustomerFile[n + 1])
  <2>1. n + 1 \in 1..N /\ (n + 1) - 1 = n /\ n \in 0..N
    BY <1>1, <1>6
  <2>2. QED
    BY <1>4, <2>1
<1> DEFINE Done(n) == RowsAreTwoThings => \A m \in 1..n : CustomerDone(h[n], CustomerFile[m])
           P == {n \in Nat : n <= N => Done(n)}
<1>7. 0 \in P
  OBVIOUS
<1>8. ASSUME NEW n \in Nat, n \in P PROVE n + 1 \in P
  <2> SUFFICES ASSUME RowsAreTwoThings, n + 1 <= N, NEW m \in 1..(n + 1)
               PROVE  CustomerDone(h[n + 1], CustomerFile[m])
    OBVIOUS
  <2>1. /\ n + 1 \in 1..N /\ n \in 0..N /\ m \in 1..N
        /\ CustomersFit(h[n]) /\ h[n + 1] = UpsertCustomer(h[n], CustomerFile[n + 1])
    BY <1>1, <1>6
  <2>2. CASE m = n + 1
    BY <1>1, <2>1, <2>2, UpsertCustomerDoes
  <2>3. CASE m # n + 1
    <3>1. CustomerDone(h[n], CustomerFile[m])
      BY <1>1, <1>8, <2>1, <2>3
    <3>2. ApartOn(CustomerFile[m], CustomerFile[n + 1], "name") /\ ApartOn(CustomerFile[m], CustomerFile[n + 1], "phone")
      BY <1>5, <2>1, <2>3
    <3>3. QED
      BY <1>1, <2>1, <3>1, <3>2, UpsertCustomerDoes
  <2>4. QED
    BY <2>2, <2>3
<1> HIDE DEF P
<1>9. Nat \subseteq P
  BY <1>7, <1>8, NatSetInduction
<1>10. RowsAreTwoThings => CustomersDone(h[N])
  BY <1>1, <1>9 DEF P, CustomersDone
<1>11. ASSUME CustomersDone(customers) PROVE h[N] = customers
  <2> DEFINE Q == {n \in Nat : n <= N => h[n] = customers}
  <2>1. 0 \in Q
    BY <1>4
  <2>2. ASSUME NEW n \in Nat, n \in Q PROVE n + 1 \in Q
    <3> SUFFICES ASSUME n + 1 <= N PROVE h[n + 1] = customers
      OBVIOUS
    <3>1. /\ n + 1 \in 1..N /\ CustomersFit(h[n]) /\ h[n + 1] = UpsertCustomer(h[n], CustomerFile[n + 1])
          /\ h[n] = customers
      BY <1>1, <1>6, <2>2
    <3>2. CustomerDone(customers, CustomerFile[n + 1])
      BY <1>1, <1>11, <3>1 DEF CustomersDone
    <3>3. UpsertCustomer(customers, CustomerFile[n + 1]) = customers
      BY <1>1, <3>1, <3>2, UpsertCustomerDoes
    <3>4. QED
      BY <3>1, <3>3
  <2> HIDE DEF Q
  <2>3. Nat \subseteq Q
    BY <2>1, <2>2, NatSetInduction
  <2>4. QED
    BY <1>1, <2>3 DEF Q
<1>12. QED
  BY <1>3, <1>10, <1>11

----------------------------------------------------------------------------
(***************************************************************************)
(* Suppliers and the books.                                                *)
(***************************************************************************)
\* What importFreePosBooks works on is a record of these.
AtWork(acc) == acc = [suppliers |-> acc.suppliers, history |-> acc.history, ids |-> acc.ids,
                      byName |-> acc.byName, at |-> acc.at]

Extends(list, new) == Len(list) <= Len(new) /\ \A i \in DOMAIN list : new[i] = list[i]

LEMMA ExtendsFinds ==
    ASSUME NEW list \in Seq(Supplier), NEW new \in Seq(Supplier), Extends(list, new)
    PROVE  /\ \A s : FindSupplier(list, s) # 0 => FindSupplier(new, s) # 0
           /\ \A name : NameFound(list, name) => NameFound(new, name)
<1>1. /\ DOMAIN list \subseteq DOMAIN new /\ LiveOf(list) \subseteq DOMAIN list
      /\ \A i \in DOMAIN list : new[i] = list[i]
  <2>1. /\ DOMAIN list = 1..Len(list) /\ DOMAIN new = 1..Len(new)
        /\ Len(list) \in Nat /\ Len(new) \in Nat
    OBVIOUS
  <2>2. QED
    BY <2>1 DEF Extends, LiveOf
<1>2. LiveOf(list) \subseteq LiveOf(new) /\ \A i \in LiveOf(list) : new[i] = list[i]
  BY <1>1 DEF LiveOf
<1>3. ASSUME NEW s, FindSupplier(list, s) # 0 PROVE FindSupplier(new, s) # 0
  <2>1. /\ Found(FindSupplier(list, s), Matching(list, s, "gstin"), Matching(list, s, "phone"), Matching(list, s, "name"))
        /\ Found(FindSupplier(new, s), Matching(new, s, "gstin"), Matching(new, s, "phone"), Matching(new, s, "name"))
    BY SupplierFound
  <2>2. \A key : Matching(list, s, key) \subseteq Matching(new, s, key)
    BY <1>2 DEF Matching
  <2>3. ~(Matching(list, s, "gstin") = {} /\ Matching(list, s, "phone") = {} /\ Matching(list, s, "name") = {})
    BY <1>3, <2>1 DEF Found
  <2>4. ~(Matching(new, s, "gstin") = {} /\ Matching(new, s, "phone") = {} /\ Matching(new, s, "name") = {})
    BY <2>2, <2>3
  <2>5. QED
    BY <2>1, <2>4 DEF Found
<1>4. ASSUME NEW name, NameFound(list, name) PROVE NameFound(new, name)
  BY <1>2, <1>4 DEF NameFound
<1>5. QED
  BY <1>3, <1>4

LEMMA EnsureDoes ==
    ASSUME NEW acc, AtWork(acc), SuppliersFit(acc.suppliers), NEW s \in SupplierRow
    PROVE  LET new == EnsureSupplier(acc, s)
           IN  /\ AtWork(new) /\ new.history = acc.history /\ new.ids = acc.ids
               /\ SuppliersFit(new.suppliers) /\ Extends(acc.suppliers, new.suppliers)
               /\ new.at \in 1..Len(new.suppliers)
               /\ DOMAIN new.byName = DOMAIN acc.byName \cup {s.name}
               /\ \A n \in DOMAIN new.byName : new.byName[n] = IF n = s.name THEN new.at ELSE acc.byName[n]
               /\ FindSupplier(new.suppliers, s) # 0
               /\ FindSupplier(acc.suppliers, s) # 0 => new.suppliers = acc.suppliers
               /\ s.phone = 0 /\ s.gstin = 0 => NameFound(new.suppliers, s.name)
<1> DEFINE list == acc.suppliers
           found == FindSupplier(list, s)
           q == [name |-> s.name, phone |-> s.phone, gstin |-> s.gstin, live |-> TRUE]
           more == IF found # 0 THEN list ELSE Append(list, q)
           at == Else(found, Len(more))
           names == [n \in DOMAIN acc.byName \cup {s.name} |-> IF n = s.name THEN at ELSE acc.byName[n]]
           new == EnsureSupplier(acc, s)
           A == Matching(list, s, "gstin")
           B == Matching(list, s, "phone")
           C == Matching(list, s, "name")
<1>1. new = [acc EXCEPT !.suppliers = more, !.at = at, !.byName = names]
  BY DEF EnsureSupplier
<1>2. /\ list \in Seq(Supplier) /\ Len(list) \in Nat /\ DOMAIN list = 1..Len(list)
      /\ LiveOf(list) \subseteq DOMAIN list /\ Found(found, A, B, C)
  BY ListIndices, SupplierFound DEF SuppliersFit
<1>3. q \in Supplier /\ s.name # 0
  BY DEF Supplier, SupplierRow
<1>4. A \subseteq LiveOf(list) /\ B \subseteq LiveOf(list) /\ C \subseteq LiveOf(list)
  BY DEF Matching
<1>5. C = {i \in LiveOf(list) : list[i].name = s.name}
  BY <1>3 DEF Matching
<1> HIDE DEF list, found, more, at, names, new, q, A, B, C
<1>6. /\ AtWork(new) /\ new.history = acc.history /\ new.ids = acc.ids
      /\ new.suppliers = more /\ new.at = at /\ new.byName = names
  BY <1>1 DEF AtWork
<1>7. /\ DOMAIN names = DOMAIN acc.byName \cup {s.name}
      /\ \A n \in DOMAIN names : names[n] = IF n = s.name THEN at ELSE acc.byName[n]
  BY DEF names
<1>8. CASE found # 0
  <2>1. more = list /\ at = found
    BY <1>8 DEF more, at, Else
  <2>2. PickedFrom(found, A, B, C)
    BY <1>2, <1>8 DEF Found
  <2>3. found \in DOMAIN list
    BY <1>2, <1>4, <2>2 DEF PickedFrom, LeastOf
  <2>4. SuppliersFit(more) /\ Extends(list, more) /\ at \in 1..Len(more)
    BY <1>2, <2>1, <2>3 DEF Extends, list
  <2>5. ASSUME s.phone = 0, s.gstin = 0 PROVE NameFound(more, s.name)
    <3>1. A = {} /\ B = {}
      BY <2>5 DEF A, B, Matching
    <3>2. found \in C
      BY <2>2, <3>1 DEF PickedFrom, LeastOf
    <3>3. QED
      BY <1>5, <2>1, <3>2 DEF NameFound
  <2>6. FindSupplier(more, s) # 0
    BY <1>8, <2>1 DEF found
  <2>7. QED
    BY <1>6, <1>7, <2>1, <2>4, <2>5, <2>6 DEF list, new
<1>9. CASE found = 0
  <2> DEFINE f == Len(list) + 1
  <2>1. more = Append(list, q)
    BY <1>9 DEF more
  <2>2. /\ more \in Seq(Supplier) /\ Len(more) = f /\ DOMAIN more = 1..f
        /\ more[f] = q /\ \A i \in DOMAIN list : more[i] = list[i] /\ i \in DOMAIN more /\ i # f
    BY <1>2, <1>3, <2>1
  <2>3. at = f /\ f \in Nat \ {0}
    BY <1>2, <1>9, <2>2 DEF at, Else
  <2>4. LiveOf(more) = LiveOf(list) \cup {f} /\ more[f].name = s.name
    <3>1. more[f].live = TRUE /\ more[f].name = s.name
      BY <2>2 DEF q
    <3>2. \A i \in DOMAIN more : i = f \/ i \in DOMAIN list
      BY <1>2, <2>2
    <3>3. QED
      BY <2>2, <3>1, <3>2 DEF LiveOf
  <2>5. Apart(more, "name")
    <3>1. C = {}
      BY <1>2, <1>9 DEF Found
    <3>2. \A i \in LiveOf(list) : list[i].name # s.name
      BY <1>5, <3>1
    <3>3. \A i, j \in LiveOf(list) : list[i].name = list[j].name => i = j \/ list[i].name = 0
      BY DEF SuppliersFit, Apart, list
    <3>4. \A i \in LiveOf(list) : more[i] = list[i]
      BY <1>2, <2>2
    <3> HIDE DEF f
    <3>5. QED
      BY <2>4, <3>2, <3>3, <3>4 DEF Apart
  <2>6. SuppliersFit(more) /\ Extends(list, more) /\ at \in 1..Len(more)
    BY <1>2, <2>2, <2>3, <2>5 DEF Extends, SuppliersFit
  <2>7. NameFound(more, s.name)
    BY <2>4 DEF NameFound
  <2>8. FindSupplier(more, s) # 0
    <3>1. Matching(more, s, "name") # {}
      <4>1. f \in Matching(more, s, "name")
        BY <1>3, <2>4 DEF Matching
      <4>2. QED
        BY <4>1
    <3>2. Found(FindSupplier(more, s), Matching(more, s, "gstin"), Matching(more, s, "phone"), Matching(more, s, "name"))
      BY <2>2, SupplierFound
    <3>3. QED
      BY <3>1, <3>2 DEF Found
  <2> HIDE DEF f
  <2>9. QED
    BY <1>6, <1>7, <1>9, <2>6, <2>7, <2>8 DEF list, found, new
<1>10. QED
  BY <1>8, <1>9

\* So much of the file's suppliers is there, by number and by name.
FiledTo(acc, n) ==
    /\ AtWork(acc) /\ SuppliersFit(acc.suppliers) /\ Extends(suppliers, acc.suppliers)
    /\ acc.ids \in Seq(Nat) /\ Len(acc.ids) = n
    /\ \A i \in 1..n : acc.ids[i] <= Len(acc.suppliers)
    /\ \A x \in DOMAIN acc.byName : acc.byName[x] \in Nat /\ acc.byName[x] <= Len(acc.suppliers)

LEMMA ExtendsOn ==
    ASSUME NEW a \in Seq(Supplier), NEW b \in Seq(Supplier), NEW c \in Seq(Supplier),
           Extends(a, b), Extends(b, c)
    PROVE  Extends(a, c)
<1>1. /\ Len(a) \in Nat /\ Len(b) \in Nat /\ Len(c) \in Nat
      /\ DOMAIN a = 1..Len(a) /\ DOMAIN b = 1..Len(b)
  OBVIOUS
<1>2. \A i \in DOMAIN a : i \in DOMAIN b
  BY <1>1 DEF Extends
<1>3. QED
  BY <1>1, <1>2 DEF Extends

LEMMA FileSupplierDoes ==
    ASSUME suppliers \in Seq(Supplier), NEW n \in Nat, NEW acc, FiledTo(acc, n), NEW s \in SupplierRow
    PROVE  LET new == FileSupplier(acc, s)
           IN  /\ FiledTo(new, n + 1) /\ Extends(acc.suppliers, new.suppliers)
               /\ new.history = acc.history
               /\ DOMAIN new.byName = DOMAIN acc.byName \cup {s.name}
               /\ FindSupplier(new.suppliers, s) # 0
               /\ FindSupplier(acc.suppliers, s) # 0 => new.suppliers = acc.suppliers
<1> DEFINE next == EnsureSupplier(acc, s)
           new == FileSupplier(acc, s)
<1>1. AtWork(acc) /\ SuppliersFit(acc.suppliers)
  BY DEF FiledTo
<1>2. /\ AtWork(next) /\ next.history = acc.history /\ next.ids = acc.ids
      /\ SuppliersFit(next.suppliers) /\ Extends(acc.suppliers, next.suppliers)
      /\ next.at \in 1..Len(next.suppliers)
      /\ DOMAIN next.byName = DOMAIN acc.byName \cup {s.name}
      /\ \A x \in DOMAIN next.byName : next.byName[x] = IF x = s.name THEN next.at ELSE acc.byName[x]
      /\ FindSupplier(next.suppliers, s) # 0
      /\ FindSupplier(acc.suppliers, s) # 0 => next.suppliers = acc.suppliers
  BY <1>1, EnsureDoes
<1>3. new = [next EXCEPT !.ids = Append(next.ids, next.at)]
  BY DEF FileSupplier
<1> HIDE DEF next, new
<1>4. /\ AtWork(new) /\ new.suppliers = next.suppliers /\ new.history = next.history
      /\ new.byName = next.byName /\ new.ids = Append(next.ids, next.at)
  BY <1>2, <1>3 DEF AtWork
<1>5. /\ acc.suppliers \in Seq(Supplier) /\ new.suppliers \in Seq(Supplier)
      /\ Len(acc.suppliers) \in Nat /\ Len(new.suppliers) \in Nat
      /\ Len(acc.suppliers) <= Len(new.suppliers)
  BY <1>1, <1>2, <1>4 DEF SuppliersFit, Extends
<1>6. Extends(suppliers, new.suppliers)
  BY <1>2, <1>4, <1>5, ExtendsOn DEF FiledTo
<1>7. new.ids \in Seq(Nat) /\ Len(new.ids) = n + 1 /\ \A i \in 1..(n + 1) : new.ids[i] <= Len(new.suppliers)
  <2>1. acc.ids \in Seq(Nat) /\ Len(acc.ids) = n /\ \A i \in 1..n : acc.ids[i] <= Len(acc.suppliers)
    BY DEF FiledTo
  <2>2. next.at \in Nat /\ next.at <= Len(new.suppliers) /\ new.ids = Append(acc.ids, next.at)
    BY <1>2, <1>4, <1>5
  <2>3. /\ new.ids \in Seq(Nat) /\ Len(new.ids) = n + 1 /\ new.ids[n + 1] = next.at
        /\ \A i \in 1..n : new.ids[i] = acc.ids[i] /\ acc.ids[i] \in Nat
    BY <2>1, <2>2
  <2>4. QED
    BY <1>5, <2>1, <2>2, <2>3, SMTT(30)
<1>8. \A x \in DOMAIN new.byName : new.byName[x] \in Nat /\ new.byName[x] <= Len(new.suppliers)
  <2> TAKE x \in DOMAIN new.byName
  <2>1. CASE x = s.name
    BY <1>2, <1>4, <1>5, <2>1
  <2>2. CASE x # s.name
    <3>1. new.byName[x] = acc.byName[x] /\ x \in DOMAIN acc.byName
      BY <1>2, <1>4, <2>2
    <3>2. acc.byName[x] \in Nat /\ acc.byName[x] <= Len(acc.suppliers)
      BY <3>1 DEF FiledTo
    <3>3. QED
      BY <1>5, <3>1, <3>2
  <2>3. QED
    BY <2>1, <2>2
<1>9. FiledTo(new, n + 1)
  BY <1>2, <1>4, <1>6, <1>7, <1>8 DEF FiledTo
<1>10. QED
  BY <1>2, <1>4, <1>9 DEF new

\* The suppliers of the file are there afterwards, by number and by name, and
\* nothing changes when they all were before.
LEMMA FileSuppliersDoes ==
    ASSUME SuppliersFit(suppliers)
    PROVE  /\ FiledTo(FileSuppliers, Len(SupplierFile))
           /\ FileSuppliers.history = history
           /\ DOMAIN FileSuppliers.byName = FileNames
           /\ SuppliersFound(FileSuppliers.suppliers)
           /\ SuppliersFound(suppliers) => FileSuppliers.suppliers = suppliers
<1> DEFINE N == Len(SupplierFile)
<1>1. /\ SupplierFile \in Seq(SupplierRow) /\ N \in Nat /\ DOMAIN SupplierFile = 1..N
      /\ \A n \in 1..N : SupplierFile[n] \in SupplierRow
  BY FilesAssumption
<1>2. PICK h : /\ OneByOne(h, "suppliers", NoSuppliersYet, SupplierFile, N)
               /\ h[N] = FileSuppliers
  <2>1. Reached(FileSuppliers, "suppliers", NoSuppliersYet, SupplierFile, N)
    BY SuppliersOneByOne
  <2>2. QED
    BY <2>1 DEF Reached
<1>3. h[0] = NoSuppliersYet /\ \A n \in 1..N : h[n] = FileSupplier(h[n - 1], SupplierFile[n])
  BY <1>2 DEF OneByOne, OneTurn
<1>4. suppliers \in Seq(Supplier) /\ Len(suppliers) \in Nat
  BY ListIndices DEF SuppliersFit
<1> HIDE DEF N
<1> DEFINE FirstNames(n) == {SupplierFile[m].name : m \in 1..n}
           Good(n) == /\ FiledTo(h[n], n) /\ h[n].history = history
                      /\ DOMAIN h[n].byName = FirstNames(n)
                      /\ \A m \in 1..n : FindSupplier(h[n].suppliers, SupplierFile[m]) # 0
                      /\ SuppliersFound(suppliers) => h[n].suppliers = suppliers
           P == {n \in Nat : n <= N => Good(n)}
<1>5. 0 \in P
  <2>1. /\ h[0].suppliers = suppliers /\ h[0].history = history /\ h[0].ids = <<>>
        /\ h[0].byName = <<>> /\ AtWork(h[0])
    BY <1>3 DEF NoSuppliersYet, AtWork
  <2>2. Extends(suppliers, suppliers)
    BY <1>4 DEF Extends
  <2>3. FiledTo(h[0], 0)
    <3>1. h[0].ids \in Seq(Nat) /\ Len(h[0].ids) = 0 /\ DOMAIN h[0].byName = {}
      BY <2>1
    <3>2. SuppliersFit(h[0].suppliers) /\ Extends(suppliers, h[0].suppliers)
      BY <2>1, <2>2
    <3>3. QED
      BY <2>1, <3>1, <3>2 DEF FiledTo
  <2>4. DOMAIN h[0].byName = FirstNames(0)
    BY <2>1
  <2>5. QED
    BY <2>1, <2>3, <2>4
<1>6. ASSUME NEW n \in Nat, n \in P PROVE n + 1 \in P
  <2> SUFFICES ASSUME n + 1 <= N PROVE Good(n + 1)
    OBVIOUS
  <2>1. n + 1 \in 1..N /\ (n + 1) - 1 = n /\ n <= N
    BY <1>1
  <2>2. Good(n)
    BY <1>6, <2>1
  <2> DEFINE acc == h[n]
             new == h[n + 1]
             s == SupplierFile[n + 1]
  <2>3. new = FileSupplier(acc, s) /\ s \in SupplierRow
    BY <1>1, <1>3, <2>1
  <2>4. FiledTo(acc, n)
    BY <2>2
  <2> HIDE DEF acc, new, s
  <2>5. /\ FiledTo(new, n + 1) /\ Extends(acc.suppliers, new.suppliers)
        /\ new.history = acc.history
        /\ DOMAIN new.byName = DOMAIN acc.byName \cup {s.name}
        /\ FindSupplier(new.suppliers, s) # 0
        /\ FindSupplier(acc.suppliers, s) # 0 => new.suppliers = acc.suppliers
    BY <1>4, <2>3, <2>4, FileSupplierDoes
  <2>6. new.history = history
    BY <2>2, <2>5 DEF acc
  <2>7. DOMAIN new.byName = FirstNames(n + 1)
    <3>1. FirstNames(n + 1) = FirstNames(n) \cup {s.name}
      BY DEF s
    <3>2. DOMAIN acc.byName = FirstNames(n)
      BY <2>2 DEF acc
    <3>3. QED
      BY <2>5, <3>1, <3>2
  <2>8. ASSUME NEW m \in 1..(n + 1) PROVE FindSupplier(new.suppliers, SupplierFile[m]) # 0
    <3>1. CASE m = n + 1
      BY <2>5, <3>1 DEF s
    <3>2. CASE m # n + 1
      <4>1. FindSupplier(acc.suppliers, SupplierFile[m]) # 0
        BY <2>2, <3>2 DEF acc
      <4>2. acc.suppliers \in Seq(Supplier) /\ new.suppliers \in Seq(Supplier)
        BY <2>4, <2>5 DEF FiledTo, SuppliersFit
      <4>3. QED
        BY <2>5, <4>1, <4>2, ExtendsFinds
    <3>3. QED
      BY <3>1, <3>2
  <2>9. ASSUME SuppliersFound(suppliers) PROVE new.suppliers = suppliers
    <3>1. acc.suppliers = suppliers
      BY <2>2, <2>9 DEF acc
    <3>2. FindSupplier(suppliers, s) # 0
      BY <1>1, <2>1, <2>9 DEF SuppliersFound, s
    <3>3. QED
      BY <2>5, <3>1, <3>2
  <2>10. QED
    BY <2>5, <2>6, <2>7, <2>8, <2>9 DEF new
<1> HIDE DEF P
<1>7. Nat \subseteq P
  BY <1>5, <1>6, NatSetInduction
<1>8. Good(N)
  BY <1>1, <1>7 DEF P
<1>9. FirstNames(N) = FileNames
  BY <1>1 DEF FileNames
<1>10. SuppliersFound(h[N].suppliers)
  BY <1>1, <1>8 DEF SuppliersFound
<1>11. QED
  BY <1>2, <1>8, <1>9, <1>10 DEF N

\* The books so far: who is recorded is there, and who has a name can be found.
BooksAt(acc) ==
    /\ FiledTo(acc, Len(SupplierFile))
    /\ HistoryFits(acc.history, Len(acc.suppliers), Len(customers))
    /\ FileNames \subseteq DOMAIN acc.byName
    /\ \A x \in DOMAIN acc.byName : x \in FileNames \/ NameFound(acc.suppliers, x)

NameSettled(r, list) == Named(r) => HistoryFile[r].name \in FileNames \/ NameFound(list, HistoryFile[r].name)

LEMMA HistoryRows ==
    ASSUME NEW r \in DOMAIN HistoryFile
    PROVE  /\ HistoryRow(r) /\ r \in Nat
           /\ HistoryFile[r].store = "purchase_returns" =>
                 /\ HistoryFile[r].of \in DOMAIN HistoryFile /\ HistoryFile[r].of < r
                 /\ HistoryFile[HistoryFile[r].of].store = "purchases"
<1>1. HistoryRow(r) /\ r \in 1..Len(HistoryFile) /\ Len(HistoryFile) \in Nat
  BY FilesAssumption
<1>2. HistoryFile[r].store = "purchase_returns" =>
         HistoryFile[r].of \in 1..(r - 1) /\ HistoryFile[HistoryFile[r].of].store = "purchases"
  BY <1>1 DEF HistoryRow
<1>3. QED
  BY <1>1, <1>2, FilesAssumption

LEMMA RecordedOnce ==
    ASSUME NEW book \in [DOMAIN HistoryFile -> Recording], NEW r \in DOMAIN HistoryFile, NEW p \in Nat
    PROVE  LET new == [book EXCEPT ![r] = Recorded(@, p)]
           IN  /\ new \in [DOMAIN HistoryFile -> Recording] /\ new[r].status # "none"
               /\ \A q \in DOMAIN HistoryFile : q # r => new[q] = book[q]
               /\ new[r].party = book[r].party \/ new[r].party = p
               /\ book[r].status # "none" => new = book
<1>1. book[r] \in Recording
  OBVIOUS
<1>2. /\ Recorded(book[r], p) \in Recording /\ Recorded(book[r], p).status # "none"
      /\ Recorded(book[r], p).party = book[r].party \/ Recorded(book[r], p).party = p
      /\ book[r].status # "none" => Recorded(book[r], p) = book[r]
  BY <1>1 DEF Recorded, Recording
<1>3. QED
  BY <1>2

\* Recording a party that there is.
LEMMA RecordedFits ==
    ASSUME NEW r \in DOMAIN HistoryFile, NEW nSuppliers \in Nat, NEW nCustomers \in Nat,
           NEW book, HistoryFits(book, nSuppliers, nCustomers), NEW p \in Nat,
           HistoryFile[r].store \notin {"ledger", "cashbook"} => p <= nSuppliers,
           HistoryFile[r].store = "ledger" => p <= nCustomers
    PROVE  HistoryFits([book EXCEPT ![r] = Recorded(@, p)], nSuppliers, nCustomers)
<1> DEFINE new == [book EXCEPT ![r] = Recorded(@, p)]
<1>1. book \in [DOMAIN HistoryFile -> Recording]
  BY DEF HistoryFits
<1>2. /\ new \in [DOMAIN HistoryFile -> Recording]
      /\ \A q \in DOMAIN HistoryFile : q # r => new[q] = book[q]
      /\ new[r].party = book[r].party \/ new[r].party = p
  BY <1>1, RecordedOnce
<1> HIDE DEF new
<1>3. \A q \in DOMAIN HistoryFile :
         /\ HistoryFile[q].store \notin {"ledger", "cashbook"} => book[q].party <= nSuppliers
         /\ HistoryFile[q].store = "ledger" => book[q].party <= nCustomers
  BY DEF HistoryFits
<1>4. \A q \in DOMAIN HistoryFile :
         /\ HistoryFile[q].store \notin {"ledger", "cashbook"} => new[q].party <= nSuppliers
         /\ HistoryFile[q].store = "ledger" => new[q].party <= nCustomers
  BY <1>2, <1>3
<1>5. QED
  BY <1>2, <1>4 DEF HistoryFits, new

LEMMA MoreSuppliersFit ==
    ASSUME NEW m \in Nat, NEW n \in Nat, m <= n, NEW k, NEW book, HistoryFits(book, m, k)
    PROVE  HistoryFits(book, n, k)
<1>1. book \in [DOMAIN HistoryFile -> Recording] /\ \A r \in DOMAIN HistoryFile : book[r].party \in Nat
  BY DEF HistoryFits, Recording
<1>2. \A r \in DOMAIN HistoryFile :
         /\ HistoryFile[r].store \notin {"ledger", "cashbook"} => book[r].party <= m
         /\ HistoryFile[r].store = "ledger" => book[r].party <= k
  BY DEF HistoryFits
<1>3. \A r \in DOMAIN HistoryFile :
         HistoryFile[r].store \notin {"ledger", "cashbook"} => book[r].party <= n
  BY <1>1, <1>2
<1>4. QED
  BY <1>1, <1>2, <1>3 DEF HistoryFits

\* The supplier of a purchase or of an entry of a supplier's ledger.
LEMMA SupplierForDoes ==
    ASSUME suppliers \in Seq(Supplier), customers \in Seq(Customer),
           NEW acc, BooksAt(acc), NEW r \in DOMAIN HistoryFile,
           HistoryFile[r].store \in {"purchases", "supplier_ledger"}
    PROVE  LET new == SupplierFor(acc, HistoryFile[r])
           IN  /\ BooksAt(new) /\ Extends(acc.suppliers, new.suppliers)
               /\ new.history = acc.history
               /\ new.at \in Nat /\ new.at <= Len(new.suppliers)
               /\ NameSettled(r, new.suppliers)
               /\ NameSettled(r, acc.suppliers) => new.suppliers = acc.suppliers
<1> DEFINE row == HistoryFile[r]
           new == SupplierFor(acc, row)
<1>1. /\ row.supplier \in 0..Len(SupplierFile) /\ (row.supplier # 0 \/ row.name \in Nat \ {0})
      /\ Len(SupplierFile) \in Nat /\ row.store \in {"purchases", "supplier_ledger"}
  BY HistoryRows, SupplierRows DEF HistoryRow
<1>2. /\ FiledTo(acc, Len(SupplierFile)) /\ AtWork(acc) /\ SuppliersFit(acc.suppliers)
      /\ acc.suppliers \in Seq(Supplier) /\ Len(acc.suppliers) \in Nat
      /\ Extends(acc.suppliers, acc.suppliers)
      /\ acc.ids \in Seq(Nat) /\ Len(acc.ids) = Len(SupplierFile)
      /\ \A i \in 1..Len(SupplierFile) : acc.ids[i] <= Len(acc.suppliers)
      /\ \A x \in DOMAIN acc.byName : acc.byName[x] \in Nat /\ acc.byName[x] <= Len(acc.suppliers)
      /\ \A x \in DOMAIN acc.byName : x \in FileNames \/ NameFound(acc.suppliers, x)
  <2> HIDE DEF row, new
  <2>1. FiledTo(acc, Len(SupplierFile)) /\ \A x \in DOMAIN acc.byName : x \in FileNames \/ NameFound(acc.suppliers, x)
    BY DEF BooksAt
  <2>2. /\ AtWork(acc) /\ SuppliersFit(acc.suppliers)
        /\ acc.ids \in Seq(Nat) /\ Len(acc.ids) = Len(SupplierFile)
        /\ \A i \in 1..Len(SupplierFile) : acc.ids[i] <= Len(acc.suppliers)
        /\ \A x \in DOMAIN acc.byName : acc.byName[x] \in Nat /\ acc.byName[x] <= Len(acc.suppliers)
    BY <2>1 DEF FiledTo
  <2>3. acc.suppliers \in Seq(Supplier) /\ Len(acc.suppliers) \in Nat
    BY <2>2 DEF SuppliersFit
  <2>4. Extends(acc.suppliers, acc.suppliers)
    BY <2>3 DEF Extends
  <2>5. QED
    BY <2>1, <2>2, <2>3, <2>4
<1>3. Named(r) <=> row.supplier = 0
  BY <1>1 DEF Named
<1>4. ASSUME NEW at \in Nat, at <= Len(acc.suppliers), new = [acc EXCEPT !.at = at],
             Named(r) => row.name \in DOMAIN acc.byName
      PROVE  /\ BooksAt(new) /\ Extends(acc.suppliers, new.suppliers)
             /\ new.history = acc.history
             /\ new.at \in Nat /\ new.at <= Len(new.suppliers)
             /\ NameSettled(r, new.suppliers) /\ new.suppliers = acc.suppliers
  <2> HIDE DEF new
  <2>1. /\ AtWork(new) /\ new.suppliers = acc.suppliers /\ new.history = acc.history
        /\ new.ids = acc.ids /\ new.byName = acc.byName /\ new.at = at
    BY <1>2, <1>4 DEF AtWork
  <2>2. BooksAt(new)
    <3>1. FiledTo(new, Len(SupplierFile))
      BY <1>2, <2>1 DEF FiledTo
    <3>2. HistoryFits(new.history, Len(new.suppliers), Len(customers))
      BY <2>1 DEF BooksAt
    <3>3. /\ FileNames \subseteq DOMAIN new.byName
          /\ \A x \in DOMAIN new.byName : x \in FileNames \/ NameFound(new.suppliers, x)
      BY <2>1 DEF BooksAt
    <3>4. QED
      BY <3>1, <3>2, <3>3 DEF BooksAt
  <2>3. NameSettled(r, acc.suppliers)
    BY <1>2, <1>4 DEF NameSettled
  <2>4. QED
    BY <1>2, <1>4, <2>1, <2>2, <2>3
<1>5. CASE row.supplier # 0
  <2>1. new = [acc EXCEPT !.at = acc.ids[row.supplier]]
    BY <1>5 DEF SupplierFor
  <2>2. row.supplier \in 1..Len(SupplierFile)
    BY <1>1, <1>5
  <2>3. acc.ids[row.supplier] \in Nat /\ acc.ids[row.supplier] <= Len(acc.suppliers)
    BY <1>2, <2>2
  <2>4. QED
    BY <1>3, <1>4, <1>5, <2>1, <2>3
<1>6. CASE row.supplier = 0 /\ row.name \in DOMAIN acc.byName
  <2>1. new = [acc EXCEPT !.at = acc.byName[row.name]]
    BY <1>6 DEF SupplierFor
  <2>2. QED
    BY <1>2, <1>4, <1>6, <2>1
<1>7. CASE row.supplier = 0 /\ row.name \notin DOMAIN acc.byName
  <2> DEFINE s == [name |-> row.name, phone |-> 0, gstin |-> 0]
  <2>1. s \in SupplierRow /\ s.name = row.name /\ s.phone = 0 /\ s.gstin = 0
    BY <1>1, <1>7 DEF SupplierRow
  <2>2. new = EnsureSupplier(acc, s)
    BY <1>7 DEF SupplierFor
  <2> HIDE DEF s, new, row
  <2>3. /\ AtWork(new) /\ new.history = acc.history /\ new.ids = acc.ids
        /\ SuppliersFit(new.suppliers) /\ Extends(acc.suppliers, new.suppliers)
        /\ new.at \in 1..Len(new.suppliers)
        /\ DOMAIN new.byName = DOMAIN acc.byName \cup {s.name}
        /\ \A n \in DOMAIN new.byName : new.byName[n] = IF n = s.name THEN new.at ELSE acc.byName[n]
        /\ FindSupplier(acc.suppliers, s) # 0 => new.suppliers = acc.suppliers
        /\ NameFound(new.suppliers, s.name)
    BY <1>2, <2>1, <2>2, EnsureDoes
  <2>4. /\ new.suppliers \in Seq(Supplier) /\ Len(new.suppliers) \in Nat
        /\ Len(acc.suppliers) <= Len(new.suppliers)
    BY <2>3 DEF SuppliersFit, Extends
  <2>5. FiledTo(new, Len(SupplierFile))
    <3>1. Extends(suppliers, new.suppliers)
      BY <1>2, <2>3, <2>4, ExtendsOn DEF FiledTo
    <3>2. \A i \in 1..Len(SupplierFile) : new.ids[i] <= Len(new.suppliers)
      <4> TAKE i \in 1..Len(SupplierFile)
      <4>1. acc.ids \in Seq(Nat) /\ i \in 1..Len(acc.ids) /\ acc.ids[i] <= Len(acc.suppliers)
        BY <1>2
      <4>2. acc.ids[i] \in Nat
        BY <4>1
      <4>3. new.ids[i] = acc.ids[i] /\ Len(acc.suppliers) \in Nat
        BY <1>2, <2>3
      <4>4. QED
        BY <2>4, <4>1, <4>2, <4>3, SMTT(30)
    <3>3. ASSUME NEW x \in DOMAIN new.byName
          PROVE  new.byName[x] \in Nat /\ new.byName[x] <= Len(new.suppliers)
      <4>1. CASE x = s.name
        BY <2>3, <2>4, <4>1
      <4>2. CASE x # s.name
        <5>1. new.byName[x] = acc.byName[x] /\ x \in DOMAIN acc.byName
          BY <2>3, <4>2
        <5>2. QED
          BY <1>2, <2>4, <5>1
      <4>3. QED
        BY <4>1, <4>2
    <3>4. new.ids \in Seq(Nat) /\ Len(new.ids) = Len(SupplierFile)
      BY <1>2, <2>3
    <3>5. QED
      BY <2>3, <3>1, <3>2, <3>3, <3>4 DEF FiledTo
  <2>6. HistoryFits(new.history, Len(new.suppliers), Len(customers))
    BY <1>2, <2>3, <2>4, MoreSuppliersFit DEF BooksAt
  <2>7. \A x \in DOMAIN new.byName : x \in FileNames \/ NameFound(new.suppliers, x)
    <3> TAKE x \in DOMAIN new.byName
    <3>1. NameFound(acc.suppliers, x) => NameFound(new.suppliers, x)
      BY <1>2, <2>3, <2>4, ExtendsFinds
    <3>2. QED
      BY <1>2, <2>3, <3>1
  <2>8. BooksAt(new)
    BY <2>3, <2>5, <2>6, <2>7 DEF BooksAt
  <2>9. NameSettled(r, new.suppliers)
    BY <2>1, <2>3 DEF NameSettled, row
  <2>10. ASSUME NameSettled(r, acc.suppliers) PROVE new.suppliers = acc.suppliers
    <3>1. row.name \notin FileNames
      BY <1>7 DEF BooksAt
    <3>2. NameFound(acc.suppliers, s.name)
      BY <1>3, <1>7, <2>1, <2>10, <3>1 DEF NameSettled, row
    <3>3. PICK i \in LiveOf(acc.suppliers) : acc.suppliers[i].name = s.name
      BY <3>2 DEF NameFound
    <3>4. s.name # 0
      BY <2>1 DEF SupplierRow
    <3>5. Matching(acc.suppliers, s, "name") # {}
      <4>1. i \in Matching(acc.suppliers, s, "name")
        BY <3>3, <3>4 DEF Matching
      <4>2. QED
        BY <4>1
    <3>6. FindSupplier(acc.suppliers, s) # 0
      <4>1. Found(FindSupplier(acc.suppliers, s), Matching(acc.suppliers, s, "gstin"),
                  Matching(acc.suppliers, s, "phone"), Matching(acc.suppliers, s, "name"))
        BY <1>2, SupplierFound
      <4>2. QED
        BY <3>5, <4>1 DEF Found
    <3>7. QED
      BY <2>3, <3>6
  <2>11. new.at \in Nat /\ new.at <= Len(new.suppliers)
    BY <2>3, <2>4
  <2>12. QED
    BY <2>3, <2>8, <2>9, <2>10, <2>11 DEF new, row
<1>8. QED
  BY <1>4, <1>5, <1>6, <1>7

\* One row of the books.
RowImported(acc, new, r) ==
    /\ BooksAt(new) /\ Extends(acc.suppliers, new.suppliers)
    /\ \A q \in DOMAIN HistoryFile : q # r => new.history[q] = acc.history[q]
    /\ RowDone(new.history, r) /\ NameSettled(r, new.suppliers)
    /\ RowDone(acc.history, r) /\ NameSettled(r, acc.suppliers) =>
          new.suppliers = acc.suppliers /\ new.history = acc.history

\* ... that is recorded, with a party that there is.
WithRecord(acc, new, r, p) == new = [acc EXCEPT !.history = [acc.history EXCEPT ![r] = Recorded(@, p)]]

LEMMA RecordingDoes ==
    ASSUME suppliers \in Seq(Supplier), customers \in Seq(Customer),
           NEW acc, BooksAt(acc), NEW r \in DOMAIN HistoryFile, NEW p \in Nat,
           HistoryFile[r].store \notin {"ledger", "cashbook"} => p <= Len(acc.suppliers),
           HistoryFile[r].store = "ledger" => p <= Len(customers),
           NEW new, WithRecord(acc, new, r, p)
    PROVE  /\ BooksAt(new) /\ new.suppliers = acc.suppliers
           /\ new.history[r].status # "none"
           /\ \A q \in DOMAIN HistoryFile : q # r => new.history[q] = acc.history[q]
           /\ acc.history[r].status # "none" => new.history = acc.history
<1> DEFINE book == [acc.history EXCEPT ![r] = Recorded(@, p)]
<1>1. AtWork(acc)
  BY DEF BooksAt, FiledTo
<1>2. /\ AtWork(new) /\ new.suppliers = acc.suppliers /\ new.history = book
      /\ new.ids = acc.ids /\ new.byName = acc.byName
  <2>1. new = [acc EXCEPT !.history = book]
    BY DEF WithRecord
  <2> HIDE DEF book
  <2>2. QED
    BY <1>1, <2>1 DEF AtWork
<1>3. /\ acc.history \in [DOMAIN HistoryFile -> Recording]
      /\ HistoryFits(acc.history, Len(acc.suppliers), Len(customers))
      /\ Len(acc.suppliers) \in Nat /\ Len(customers) \in Nat
  BY DEF BooksAt, HistoryFits, FiledTo, SuppliersFit
<1>4. /\ book[r].status # "none"
      /\ \A q \in DOMAIN HistoryFile : q # r => book[q] = acc.history[q]
      /\ acc.history[r].status # "none" => book = acc.history
  BY <1>3, RecordedOnce
<1>5. HistoryFits(book, Len(acc.suppliers), Len(customers))
  BY <1>3, RecordedFits
<1> HIDE DEF book
<1>6. BooksAt(new)
  <2>1. FiledTo(new, Len(SupplierFile))
    BY <1>2 DEF BooksAt, FiledTo
  <2>2. /\ FileNames \subseteq DOMAIN new.byName
        /\ \A x \in DOMAIN new.byName : x \in FileNames \/ NameFound(new.suppliers, x)
    BY <1>2 DEF BooksAt
  <2>3. QED
    BY <1>2, <1>5, <2>1, <2>2 DEF BooksAt
<1>7. QED
  BY <1>2, <1>4, <1>6

LEMMA RecordedIn ==
    ASSUME NEW acc, NEW r, NEW p, NEW new, new = [acc EXCEPT !.history[r] = Recorded(@, p)]
    PROVE  WithRecord(acc, new, r, p)
  BY DEF WithRecord

\* The customer of an entry of the ledger.
LEMMA CustomerForIs ==
    ASSUME customers \in Seq(Customer), NEW row
    PROVE  CustomerFor(row) \in Nat /\ CustomerFor(row) <= Len(customers)
<1> DEFINE c == CustomerFile[row.customer]
           A == {i \in LiveOf(customers) : c.phone # 0 /\ customers[i].phone = c.phone}
           B == {i \in LiveOf(customers) : customers[i].name = c.name}
<1>1. CustomerFor(row) = Else(First(A), First(B))
  BY DEF CustomerFor
<1>2. A \subseteq LiveOf(customers) /\ B \subseteq LiveOf(customers)
  OBVIOUS
<1> HIDE DEF A, B
<1>3. LiveOf(customers) \subseteq 1..Len(customers) /\ Len(customers) \in Nat
  BY ListIndices
<1>4. A \subseteq Nat /\ B \subseteq Nat
  BY <1>2, <1>3
<1>5. First(A) = 0 \/ First(A) \in A
  BY <1>4, FirstIs
<1>6. First(B) = 0 \/ First(B) \in B
  BY <1>4, FirstIs
<1>7. /\ First(A) \in Nat /\ First(A) <= Len(customers)
      /\ First(B) \in Nat /\ First(B) <= Len(customers)
  BY <1>2, <1>3, <1>5, <1>6
<1>8. QED
  BY <1>1, <1>7 DEF Else

LEMMA ImportRowDoes ==
    ASSUME suppliers \in Seq(Supplier), customers \in Seq(Customer),
           NEW acc, BooksAt(acc), NEW r \in DOMAIN HistoryFile
    PROVE  RowImported(acc, ImportRow(acc, r), r)
<1> DEFINE row == HistoryFile[r]
<1> SUFFICES ASSUME NEW new, new = ImportRow(acc, r)
             PROVE  RowImported(acc, new, r)
  OBVIOUS
<1>1. /\ row.store \in Stores /\ row.supplier \in 0..Len(SupplierFile)
      /\ Len(SupplierFile) \in Nat
  BY HistoryRows, SupplierRows DEF HistoryRow
<1>2. /\ acc.history \in [DOMAIN HistoryFile -> Recording]
      /\ acc.suppliers \in Seq(Supplier) /\ Len(acc.suppliers) \in Nat
      /\ HistoryFits(acc.history, Len(acc.suppliers), Len(customers))
      /\ acc.ids \in Seq(Nat) /\ Len(acc.ids) = Len(SupplierFile)
      /\ \A i \in 1..Len(SupplierFile) : acc.ids[i] <= Len(acc.suppliers)
  BY DEF BooksAt, HistoryFits, FiledTo, SuppliersFit
<1>3. ASSUME NEW a \in Seq(Supplier) PROVE Extends(a, a)
  BY DEF Extends
<1>4. ASSUME row.store \notin {"purchases", "supplier_ledger"}, new = acc, RowDone(acc.history, r)
      PROVE  RowImported(acc, new, r)
  <2>1. \A list : NameSettled(r, list)
    BY <1>4 DEF NameSettled, Named
  <2>2. QED
    BY <1>2, <1>3, <1>4, <2>1 DEF RowImported
<1>5. ASSUME NEW p \in Nat, row.store \notin {"purchases", "supplier_ledger"},
             new = [acc EXCEPT !.history[r] = Recorded(@, p)],
             row.store \notin {"ledger", "cashbook"} => p <= Len(acc.suppliers),
             row.store = "ledger" => p <= Len(customers),
             RowDone(acc.history, r) => acc.history[r].status # "none"
      PROVE  RowImported(acc, new, r)
  <2>1. WithRecord(acc, new, r, p)
    BY <1>5, RecordedIn
  <2>3. /\ BooksAt(new) /\ new.suppliers = acc.suppliers
        /\ new.history[r].status # "none"
        /\ \A q \in DOMAIN HistoryFile : q # r => new.history[q] = acc.history[q]
        /\ acc.history[r].status # "none" => new.history = acc.history
    <3>1. /\ HistoryFile[r].store \notin {"ledger", "cashbook"} => p <= Len(acc.suppliers)
          /\ HistoryFile[r].store = "ledger" => p <= Len(customers)
      BY <1>5
    <3> HIDE DEF row
    <3>2. QED
      BY <2>1, <3>1, RecordingDoes
  <2>4. \A list : NameSettled(r, list)
    BY <1>5 DEF NameSettled, Named
  <2>5. RowDone(new.history, r)
    BY <2>3 DEF RowDone
  <2>6. QED
    BY <1>2, <1>3, <1>5, <2>3, <2>4, <2>5 DEF RowImported
<1>6. CASE row.store \in {"purchases", "supplier_ledger"}
  <2> DEFINE with == SupplierFor(acc, row)
  <2>1. /\ BooksAt(with) /\ Extends(acc.suppliers, with.suppliers)
        /\ with.history = acc.history
        /\ with.at \in Nat /\ with.at <= Len(with.suppliers)
        /\ NameSettled(r, with.suppliers)
        /\ NameSettled(r, acc.suppliers) => with.suppliers = acc.suppliers
    BY <1>6, SupplierForDoes
  <2>2. new = [with EXCEPT !.history[r] = Recorded(@, with.at)]
    BY <1>6 DEF ImportRow
  <2> HIDE DEF with
  <2>3. WithRecord(with, new, r, with.at)
    BY <2>2, RecordedIn
  <2>5. /\ BooksAt(new) /\ new.suppliers = with.suppliers
        /\ new.history[r].status # "none"
        /\ \A q \in DOMAIN HistoryFile : q # r => new.history[q] = with.history[q]
        /\ with.history[r].status # "none" => new.history = with.history
    <3>1. /\ HistoryFile[r].store \notin {"ledger", "cashbook"} => with.at <= Len(with.suppliers)
          /\ HistoryFile[r].store = "ledger" => with.at <= Len(customers)
      BY <1>6, <2>1
    <3>2. BooksAt(with) /\ with.at \in Nat
      BY <2>1
    <3> HIDE DEF row
    <3>3. QED
      BY <2>3, <3>1, <3>2, RecordingDoes
  <2>6. RowDone(new.history, r)
    BY <2>5 DEF RowDone
  <2>7. RowDone(acc.history, r) => acc.history[r].status # "none"
    BY <1>6 DEF RowDone
  <2>8. QED
    BY <2>1, <2>5, <2>6, <2>7 DEF RowImported
<1>7. CASE row.store = "purchase_returns" /\ acc.history[row.of].status = "none"
  <2>1. new = acc
    BY <1>7 DEF ImportRow
  <2>2. RowDone(acc.history, r)
    BY <1>7 DEF RowDone
  <2>3. QED
    BY <1>4, <1>7, <2>1, <2>2
<1>8. CASE row.store = "purchase_returns" /\ acc.history[row.of].status # "none"
  <2> DEFINE p == acc.history[row.of].party
  <2>1. new = [acc EXCEPT !.history[r] = Recorded(@, p)]
    BY <1>8 DEF ImportRow
  <2>2. row.of \in DOMAIN HistoryFile /\ HistoryFile[row.of].store = "purchases"
    BY <1>8, HistoryRows
  <2>3. p \in Nat /\ p <= Len(acc.suppliers)
    BY <1>2, <2>2 DEF HistoryFits, Recording
  <2>4. RowDone(acc.history, r) => acc.history[r].status # "none"
    BY <1>8 DEF RowDone
  <2> HIDE DEF p
  <2>5. row.store \notin {"purchases", "supplier_ledger"} /\ row.store # "ledger"
    BY <1>8
  <2>6. QED
    BY <1>5, <2>1, <2>3, <2>4, <2>5
<1>9. CASE row.store = "expenses" /\ IsMirror(r)
  <2>1. new = acc
    BY <1>9 DEF ImportRow
  <2>2. RowDone(acc.history, r)
    BY <1>9 DEF RowDone
  <2>3. QED
    BY <1>4, <1>9, <2>1, <2>2
<1>10. CASE row.store = "expenses" /\ ~IsMirror(r)
  <2> DEFINE p == IF row.supplier = 0 THEN 0 ELSE acc.ids[row.supplier]
  <2>1. new = [acc EXCEPT !.history[r] = Recorded(@, p)]
    BY <1>10 DEF ImportRow
  <2>2. p \in Nat /\ p <= Len(acc.suppliers)
    <3>1. CASE row.supplier = 0
      BY <1>1, <1>2, <3>1
    <3>2. CASE row.supplier # 0
      <4>1. row.supplier \in 1..Len(SupplierFile)
        BY <1>1, <3>2
      <4>2. acc.ids[row.supplier] \in Nat /\ acc.ids[row.supplier] <= Len(acc.suppliers)
        BY <1>1, <1>2, <4>1
      <4>3. QED
        BY <3>2, <4>2
    <3>3. QED
      BY <3>1, <3>2
  <2>3. RowDone(acc.history, r) => acc.history[r].status # "none"
    BY <1>10 DEF RowDone
  <2> HIDE DEF p
  <2>4. row.store \notin {"purchases", "supplier_ledger"} /\ row.store # "ledger"
    BY <1>10
  <2>5. QED
    BY <1>5, <2>1, <2>2, <2>3, <2>4
<1>11. CASE row.store = "cashbook"
  <2>1. new = [acc EXCEPT !.history[r] = Recorded(@, 0)]
    BY <1>11 DEF ImportRow
  <2>2. RowDone(acc.history, r) => acc.history[r].status # "none"
    BY <1>11 DEF RowDone
  <2>3. QED
    BY <1>5, <1>11, <2>1, <2>2
<1>12. CASE row.store = "ledger" /\ CustomerFor(row) = 0
  <2>1. new = acc
    BY <1>12 DEF ImportRow
  <2>2. RowDone(acc.history, r)
    BY <1>12 DEF RowDone
  <2>3. QED
    BY <1>4, <1>12, <2>1, <2>2
<1>13. CASE row.store = "ledger" /\ CustomerFor(row) # 0
  <2> DEFINE p == CustomerFor(row)
  <2>1. new = [acc EXCEPT !.history[r] = Recorded(@, p)]
    BY <1>13 DEF ImportRow
  <2>2. p \in Nat /\ p <= Len(customers)
    BY CustomerForIs
  <2>3. RowDone(acc.history, r) => acc.history[r].status # "none"
    BY <1>13 DEF RowDone
  <2> HIDE DEF p
  <2>4. row.store \notin {"purchases", "supplier_ledger"}
    BY <1>13
  <2>5. QED
    BY <1>5, <1>13, <2>1, <2>2, <2>3, <2>4
<1>14. QED
  BY <1>1, <1>6, <1>7, <1>8, <1>9, <1>10, <1>11, <1>12, <1>13 DEF Stores

\* The books: every row is recorded or could not be, and nothing changes when
\* they all were before.
LEMMA BooksDone ==
    ASSUME SuppliersFit(suppliers), customers \in Seq(Customer),
           HistoryFits(history, Len(suppliers), Len(customers))
    PROVE  /\ SuppliersFit(ImportBooks.suppliers) /\ Len(suppliers) <= Len(ImportBooks.suppliers)
           /\ HistoryFits(ImportBooks.history, Len(ImportBooks.suppliers), Len(customers))
           /\ SuppliersDone(ImportBooks.suppliers) /\ HistoryDone(ImportBooks.history)
           /\ SuppliersDone(suppliers) /\ HistoryDone(history) =>
                 ImportBooks.suppliers = suppliers /\ ImportBooks.history = history
<1> DEFINE N == Len(HistoryFile)
           K == Len(SupplierFile)
<1>1. /\ N \in Nat /\ DOMAIN HistoryFile = 1..N
      /\ \A n \in 1..N : RowNumbers[n] = n
  BY FilesAssumption DEF RowNumbers
<1> HIDE DEF N
<1>2. PICK h : OneByOne(h, "books", FileSuppliers, RowNumbers, N) /\ h[N] = ImportBooks
  BY BooksOneByOne DEF Reached, N
<1>3. /\ h[0] = FileSuppliers
      /\ \A n \in 1..N : h[n] = ImportRow(h[n - 1], n)
  BY <1>1, <1>2 DEF OneByOne, OneTurn
<1>4. /\ suppliers \in Seq(Supplier) /\ Len(suppliers) \in Nat
      /\ FiledTo(FileSuppliers, K) /\ FileSuppliers.history = history
      /\ DOMAIN FileSuppliers.byName = FileNames
      /\ SuppliersFound(FileSuppliers.suppliers)
      /\ SuppliersFound(suppliers) => FileSuppliers.suppliers = suppliers
  BY FileSuppliersDoes DEF SuppliersFit
<1> DEFINE All == SuppliersDone(suppliers) /\ HistoryDone(history)
           Good(n) == /\ BooksAt(h[n]) /\ Extends(FileSuppliers.suppliers, h[n].suppliers)
                      /\ \A q \in 1..n : RowDone(h[n].history, q) /\ NameSettled(q, h[n].suppliers)
                      /\ All => h[n].suppliers = suppliers /\ h[n].history = history
           P == {n \in Nat : n <= N => Good(n)}
<1>5. 0 \in P
  <2> DEFINE acc == FileSuppliers
  <2>1. /\ acc.suppliers \in Seq(Supplier) /\ Len(acc.suppliers) \in Nat
        /\ Len(suppliers) <= Len(acc.suppliers)
    BY <1>4 DEF FiledTo, SuppliersFit, Extends
  <2>2. HistoryFits(acc.history, Len(acc.suppliers), Len(customers))
    BY <1>4, <2>1, MoreSuppliersFit
  <2> HIDE DEF acc
  <2>3. BooksAt(acc)
    BY <1>4, <2>2 DEF BooksAt, acc
  <2>4. Extends(acc.suppliers, acc.suppliers)
    BY <2>1 DEF Extends
  <2>5. All => acc.suppliers = suppliers /\ acc.history = history
    BY <1>4 DEF SuppliersDone, acc
  <2>6. h[0] = acc
    BY <1>3 DEF acc
  <2>7. Good(0)
    BY <2>3, <2>4, <2>5, <2>6 DEF acc
  <2>8. QED
    BY <2>7
<1>6. ASSUME NEW n \in Nat, n \in P PROVE n + 1 \in P
  <2> SUFFICES ASSUME n + 1 <= N PROVE Good(n + 1)
    OBVIOUS
  <2>1. n \in 0..N /\ n + 1 \in 1..N /\ (n + 1) - 1 = n /\ n + 1 \in DOMAIN HistoryFile
    BY <1>1
  <2>2. Good(n)
    BY <1>6, <2>1
  <2> DEFINE acc == h[n]
             new == h[n + 1]
             r == n + 1
  <2>3. new = ImportRow(acc, r)
    BY <1>3, <2>1
  <2>4. BooksAt(acc)
    BY <2>2
  <2>5. RowImported(acc, new, r)
    BY <1>4, <2>1, <2>3, <2>4, ImportRowDoes
  <2> HIDE DEF acc, new
  <2>6. /\ BooksAt(new) /\ Extends(acc.suppliers, new.suppliers)
        /\ \A q \in DOMAIN HistoryFile : q # r => new.history[q] = acc.history[q]
        /\ RowDone(new.history, r) /\ NameSettled(r, new.suppliers)
        /\ RowDone(acc.history, r) /\ NameSettled(r, acc.suppliers) =>
              new.suppliers = acc.suppliers /\ new.history = acc.history
    BY <2>5 DEF RowImported
  <2>7. /\ FileSuppliers.suppliers \in Seq(Supplier) /\ acc.suppliers \in Seq(Supplier)
        /\ new.suppliers \in Seq(Supplier)
    BY <1>4, <2>4, <2>6 DEF BooksAt, FiledTo, SuppliersFit
  <2>8. Extends(FileSuppliers.suppliers, new.suppliers)
    <3>1. Extends(FileSuppliers.suppliers, acc.suppliers)
      BY <2>2 DEF acc
    <3>2. QED
      BY <2>6, <2>7, <3>1, ExtendsOn
  <2>9. ASSUME NEW q \in 1..n PROVE RowDone(new.history, q) /\ NameSettled(q, new.suppliers)
    <3>1. RowDone(acc.history, q) /\ NameSettled(q, acc.suppliers)
      BY <2>2 DEF acc
    <3>2. q \in DOMAIN HistoryFile /\ q < r /\ q \in Nat
      BY <1>1, <2>1
    <3>3. new.history[q] = acc.history[q]
      BY <2>6, <3>2
    <3>4. HistoryFile[q].store = "purchase_returns" =>
             new.history[HistoryFile[q].of] = acc.history[HistoryFile[q].of]
      <4>1. HistoryFile[q].store = "purchase_returns" =>
               /\ HistoryFile[q].of \in DOMAIN HistoryFile /\ HistoryFile[q].of < q
               /\ HistoryFile[q].of \in Nat
        BY <1>1, <3>2, HistoryRows
      <4>2. HistoryFile[q].store = "purchase_returns" => HistoryFile[q].of # r
        BY <3>2, <4>1
      <4>3. QED
        BY <2>6, <4>1, <4>2
    <3>5. RowDone(new.history, q)
      BY <3>1, <3>3, <3>4 DEF RowDone
    <3>6. NameSettled(q, new.suppliers)
      <4>1. NameFound(acc.suppliers, HistoryFile[q].name) => NameFound(new.suppliers, HistoryFile[q].name)
        BY <2>6, <2>7, ExtendsFinds
      <4>2. QED
        BY <3>1, <4>1 DEF NameSettled
    <3>7. QED
      BY <3>5, <3>6
  <2>10. ASSUME All PROVE new.suppliers = suppliers /\ new.history = history
    <3>1. acc.suppliers = suppliers /\ acc.history = history
      BY <2>2, <2>10 DEF acc
    <3>2. RowDone(history, r) /\ NameSettled(r, suppliers)
      BY <2>1, <2>10 DEF SuppliersDone, HistoryDone, NameSettled
    <3>3. QED
      BY <2>6, <3>1, <3>2
  <2>11. \A q \in 1..(n + 1) : RowDone(new.history, q) /\ NameSettled(q, new.suppliers)
    BY <2>6, <2>9
  <2>12. QED
    BY <2>6, <2>8, <2>10, <2>11 DEF new
<1> HIDE DEF P, Good
<1>7. Nat \subseteq P
  BY <1>5, <1>6, NatSetInduction
<1>8. Good(N)
  BY <1>1, <1>7 DEF P
<1> DEFINE done == ImportBooks
<1>9. /\ BooksAt(done) /\ Extends(FileSuppliers.suppliers, done.suppliers)
      /\ \A q \in 1..N : RowDone(done.history, q) /\ NameSettled(q, done.suppliers)
      /\ All => done.suppliers = suppliers /\ done.history = history
  BY <1>2, <1>8 DEF Good
<1> HIDE DEF done
<1>10. /\ SuppliersFit(done.suppliers) /\ done.suppliers \in Seq(Supplier)
       /\ HistoryFits(done.history, Len(done.suppliers), Len(customers))
       /\ Len(suppliers) <= Len(done.suppliers)
  BY <1>9 DEF BooksAt, FiledTo, Extends, SuppliersFit
<1>11. HistoryDone(done.history)
  BY <1>1, <1>9 DEF HistoryDone
<1>12. SuppliersDone(done.suppliers)
  <2>1. FileSuppliers.suppliers \in Seq(Supplier)
    BY <1>4 DEF FiledTo, SuppliersFit
  <2>2. SuppliersFound(done.suppliers)
    BY <1>4, <1>9, <1>10, <2>1, ExtendsFinds DEF SuppliersFound
  <2>3. QED
    BY <1>1, <1>9, <2>2 DEF SuppliersDone, NameSettled
<1>13. QED
  BY <1>9, <1>10, <1>11, <1>12 DEF done

----------------------------------------------------------------------------
(***************************************************************************)
(* The batches of the backup, sales and archiving.                         *)
(***************************************************************************)
\* Selected lists elements of the sequence.
LEMMA SelectedIs ==
    ASSUME NEW X, NEW seq \in Seq(X), NEW some, some \subseteq DOMAIN seq
    PROVE  /\ Selected(seq, some) \in Seq(X)
           /\ \A n \in DOMAIN Selected(seq, some) : \E i \in some : Selected(seq, some)[n] = seq[i]
<1> DEFINE N == Cardinality(some)
           Right(o) == o \in [1..N -> some] /\ \A m, n \in DOMAIN o : m < n => o[m] < o[n]
           order == CHOOSE o : Right(o)
           days == [i \in some |-> [expiry |-> 0]]
<1>1. /\ some \subseteq Int /\ IsFiniteSet(some) /\ N \in Nat
      /\ \A i \in some : seq[i] \in X
  <2>1. /\ DOMAIN seq = 1..Len(seq) /\ Len(seq) \in Nat
        /\ \A i \in DOMAIN seq : seq[i] \in X
    OBVIOUS
  <2>2. IsFiniteSet(DOMAIN seq)
    BY <2>1, FS_Interval
  <2>3. IsFiniteSet(some) /\ N \in Nat
    BY <2>2, FS_Subset, FS_CardinalityType
  <2>4. QED
    BY <2>1, <2>3
<1>2. Selected(seq, some) = [n \in DOMAIN order |-> seq[order[n]]]
  BY DEF Selected
<1>3. \E o : Right(o)
  <2>1. \A i \in some : days[i].expiry \in Int
    OBVIOUS
  <2>2. \A i, j \in some : Before(days, i, j) => i < j
    BY DEF Before
  <2> HIDE DEF days
  <2>3. PICK e : Lists(e, some) /\ \A m, n \in DOMAIN e : m < n => Before(days, e[m], e[n])
    BY <1>1, <2>1, Enumeration
  <2>4. Right(e)
    BY <2>2, <2>3 DEF Lists
  <2>5. QED
    BY <2>4
<1> HIDE DEF N
<1>4. order \in [1..N -> some]
  BY <1>3
<1> HIDE DEF order
<1>5. DOMAIN order = 1..N /\ \A n \in 1..N : order[n] \in some
  BY <1>4
<1>6. Selected(seq, some) = [n \in 1..N |-> seq[order[n]]]
  BY <1>2, <1>5
<1>7. QED
  BY <1>1, <1>5, <1>6

LEMMA SelectedShelf ==
    ASSUME NEW held, Shelf(held), NEW some, some \subseteq DOMAIN held
    PROVE  Shelf(Selected(held, some))
<1>1. /\ Selected(held, some) \in Seq(Batch)
      /\ \A n \in DOMAIN Selected(held, some) : \E i \in some : Selected(held, some)[n] = held[i]
  BY SelectedIs DEF Shelf
<1>2. QED
  BY <1>1 DEF Shelf

\* Trimmed batches hold the stock.
LEMMA TrimmedFits ==
    ASSUME NEW held, Shelf(held), NEW level \in Int
    PROVE  Shelf(Trimmed(held, level)) /\ Total(Trimmed(held, level)) = Most(0, level)
<1> DEFINE named == Selected(held, DOMAIN held \ Opening(held))
           units == Most(0, level)
<1>1. Shelf(named) /\ Never \in Nat \ {0} /\ units \in Nat /\ Most(0, units) = units
  BY SelectedShelf, FilesAssumption DEF Most
<1>2. Trimmed(held, level) = IF units > Total(named) THEN AddToOpening(named, units - Total(named))
                             ELSE Reconcile(named, units)
  BY DEF Trimmed
<1> HIDE DEF named, units
<1>3. Total(named) \in Int
  BY <1>1, AddToOpeningAdds
<1>4. CASE units > Total(named)
  <2> DEFINE more == units - Total(named)
  <2>1. more \in Int /\ Most(0, more) = units - Total(named)
    BY <1>1, <1>3, <1>4 DEF Most
  <2> HIDE DEF more
  <2>2. /\ Shelf(AddToOpening(named, more))
        /\ Total(AddToOpening(named, more)) = Total(named) + Most(0, more)
    BY <1>1, <2>1, AddToOpeningAdds
  <2>3. Trimmed(held, level) = AddToOpening(named, more)
    BY <1>2, <1>4 DEF more
  <2>4. Total(named) + Most(0, more) = units
    BY <1>1, <1>3, <2>1
  <2>5. QED
    BY <2>2, <2>3, <2>4 DEF units
<1>5. CASE ~(units > Total(named))
  <2>1. Shelf(Reconcile(named, units)) /\ Total(Reconcile(named, units)) = Most(0, units)
    BY <1>1, ReconcileEvens
  <2>2. QED
    BY <1>1, <1>2, <1>5, <2>1 DEF units
<1>6. QED
  BY <1>4, <1>5

\* What the file has of a product are batches.
LEMMA BatchesForFit ==
    ASSUME NEW p, NEW map
    PROVE  Shelf(BatchesFor(p, map))
<1> DEFINE some == {b \in DOMAIN BatchFile : map[BatchFile[b].product] = p}
           BatchRow == [product : DOMAIN ProductFile, qty : Nat, expiry : 1..Never]
           mine == Selected(BatchFile, some)
<1>1. BatchFile \in Seq(BatchRow) /\ some \subseteq DOMAIN BatchFile
  BY FilesAssumption
<1>2. BatchesFor(p, map)
      = [i \in DOMAIN mine |-> [qty |-> mine[i].qty, expiry |-> mine[i].expiry, opening |-> FALSE]]
  BY DEF BatchesFor
<1> HIDE DEF some
<1>3. mine \in Seq(BatchRow)
  <2> HIDE DEF BatchRow
  <2>1. QED
    BY <1>1, SelectedIs
<1> HIDE DEF mine
<1>4. Len(mine) \in Nat /\ DOMAIN mine = 1..Len(mine) /\ \A i \in DOMAIN mine : mine[i] \in BatchRow
  <2> HIDE DEF BatchRow
  <2>1. QED
    BY <1>3
<1>5. \A i \in DOMAIN mine : [qty |-> mine[i].qty, expiry |-> mine[i].expiry, opening |-> FALSE] \in Batch
  BY <1>4 DEF Batch
<1>6. \A i \in DOMAIN mine : mine[i].qty >= 0
  BY <1>4
<1>7. QED
  BY <1>2, <1>4, <1>5, <1>6 DEF Shelf

LEMMA ShelvesJoined ==
    ASSUME NEW a, Shelf(a), NEW b, Shelf(b)
    PROVE  Shelf(a \o b)
<1>1. a \in Seq(Batch) /\ b \in Seq(Batch)
  BY DEF Shelf
<1>2. /\ a \o b \in Seq(Batch) /\ Len(a) \in Nat /\ Len(b) \in Nat
      /\ DOMAIN (a \o b) = 1..(Len(a) + Len(b))
      /\ \A i \in DOMAIN (a \o b) : (a \o b)[i] = IF i <= Len(a) THEN a[i] ELSE b[i - Len(a)]
  BY <1>1
<1>3. ASSUME NEW i \in DOMAIN (a \o b) PROVE (a \o b)[i].qty >= 0
  <2>1. CASE i <= Len(a)
    <3>1. i \in DOMAIN a
      BY <1>1, <1>2, <2>1
    <3>2. QED
      BY <1>2, <2>1, <3>1 DEF Shelf
  <2>2. CASE ~(i <= Len(a))
    <3>1. i - Len(a) \in DOMAIN b
      BY <1>1, <1>2, <2>2
    <3>2. QED
      BY <1>2, <2>2, <3>1 DEF Shelf
  <2>3. QED
    BY <2>1, <2>2
<1>4. QED
  BY <1>2, <1>3 DEF Shelf

\* The same things with other stock and batches fit as well.
LEMMA SameKeysFit ==
    ASSUME NEW list, ProductsFit(list), NEW new \in Seq(Product), SameKeys(list, new),
           \A p \in DOMAIN list : BatchesAreStock(new[p])
    PROVE  ProductsFit(new)
<1>1. list \in Seq(Product)
  BY DEF ProductsFit
<1>2. LiveOf(new) = LiveOf(list) /\ LiveOf(list) \subseteq DOMAIN list
  BY <1>1, SameKeysFindSame, ListIndices
<1>3. \A i \in DOMAIN list : new[i].sku = list[i].sku
  BY DEF SameKeys
<1>4. Apart(new, "sku")
  BY <1>2, <1>3 DEF ProductsFit, Apart
<1>5. DOMAIN new = DOMAIN list
  <2>1. DOMAIN new = 1..Len(new) /\ DOMAIN list = 1..Len(list)
    BY <1>1
  <2>2. QED
    BY <2>1 DEF SameKeys
<1>6. QED
  BY <1>2, <1>4, <1>5 DEF ProductsFit

\* A product whose batches hold its stock is one of a list that fits.
LEMMA ProductParts ==
    ASSUME NEW list, ProductsFit(list), NEW p \in DOMAIN list
    PROVE  /\ list[p] \in Product /\ list[p].stock \in Int /\ Shelf(list[p].batches)
           /\ BatchesAreStock(list[p]) /\ Total(list[p].batches) = Most(0, list[p].stock)
<1>1. list[p] \in Product /\ BatchesAreStock(list[p])
  BY DEF ProductsFit
<1>2. QED
  BY <1>1 DEF Product, BatchesAreStock, Shelf

WithBatches(p, level, held) == [p EXCEPT !.stock = level, !.batches = held]

LEMMA RestockedFits ==
    ASSUME NEW p \in Product, NEW level \in Int, NEW held, Shelf(held), Total(held) = Most(0, level),
           NEW q, q = WithBatches(p, level, held)
    PROVE  /\ q \in Product /\ BatchesAreStock(q)
           /\ q.live = p.live /\ q.name = p.name /\ q.sku = p.sku /\ q.barcode = p.barcode
<1>1. /\ q.live = p.live /\ q.name = p.name /\ q.sku = p.sku /\ q.barcode = p.barcode
      /\ q.stock = level /\ q.batches = held
  BY DEF Product, WithBatches
<1>2. q \in Product
  BY DEF Product, Shelf, WithBatches
<1>3. BatchesAreStock(q)
  BY <1>1 DEF BatchesAreStock, Shelf
<1>4. QED
  BY <1>1, <1>2, <1>3

LEMMA SameStock ==
    ASSUME NEW p \in Product, NEW held
    PROVE  [p EXCEPT !.batches = held] = WithBatches(p, p.stock, held)
<1>1. p = [name |-> p.name, sku |-> p.sku, barcode |-> p.barcode, live |-> p.live, stock |-> p.stock,
           batches |-> p.batches]
  BY DEF Product
<1>2. QED
  BY <1>1 DEF WithBatches

\* The products with the batches of the backup added.
LEMMA BatchesAdded ==
    ASSUME ProductsFit(products), NEW map,
           NEW new, new = [p \in DOMAIN products |->
                              IF \A i \in DOMAIN map : map[i] # p THEN products[p]
                              ELSE [products[p] EXCEPT !.batches = Trimmed(@ \o BatchesFor(p, map), products[p].stock)]]
    PROVE  ProductsFit(new) /\ SameKeys(products, new) /\ Len(new) = Len(products)
<1>1. products \in Seq(Product) /\ Len(products) \in Nat /\ DOMAIN products = 1..Len(products)
  BY DEF ProductsFit
<1>2. ASSUME NEW p \in DOMAIN products
      PROVE  /\ new[p] \in Product /\ BatchesAreStock(new[p])
             /\ new[p].live = products[p].live /\ new[p].name = products[p].name
             /\ new[p].sku = products[p].sku /\ new[p].barcode = products[p].barcode
  <2>1. /\ products[p] \in Product /\ products[p].stock \in Int /\ Shelf(products[p].batches)
        /\ BatchesAreStock(products[p])
    BY ProductParts
  <2>2. CASE \A i \in DOMAIN map : map[i] # p
    <3>1. new[p] = products[p]
      BY <2>2
    <3>2. QED
      BY <2>1, <3>1
  <2>3. CASE ~(\A i \in DOMAIN map : map[i] # p)
    <3> DEFINE held == Trimmed(products[p].batches \o BatchesFor(p, map), products[p].stock)
    <3>1. new[p] = [products[p] EXCEPT !.batches = held]
      BY <2>3
    <3>2. Shelf(held) /\ Total(held) = Most(0, products[p].stock)
      BY <2>1, BatchesForFit, ShelvesJoined, TrimmedFits
    <3> HIDE DEF held
    <3>3. new[p] = WithBatches(products[p], products[p].stock, held)
      <4>1. [products[p] EXCEPT !.batches = held] = WithBatches(products[p], products[p].stock, held)
        BY <2>1, SameStock
      <4>2. QED
        BY <3>1, <4>1
    <3>4. QED
      BY <2>1, <3>2, <3>3, RestockedFits
  <2>4. QED
    BY <2>2, <2>3
<1>3. DOMAIN new = 1..Len(products)
  BY <1>1
<1>4. new \in Seq(Product) /\ Len(new) = Len(products)
  BY <1>1, <1>2, <1>3
<1>5. SameKeys(products, new)
  BY <1>2, <1>4 DEF SameKeys
<1>6. QED
  BY <1>2, <1>4, <1>5, SameKeysFit

LEMMA OneReplaced ==
    ASSUME NEW X, NEW list \in Seq(X), NEW p \in DOMAIN list, NEW q \in X
    PROVE  [list EXCEPT ![p] = q] \in Seq(X) /\ Len([list EXCEPT ![p] = q]) = Len(list)
  OBVIOUS

\* The products after a sale.
LEMMA UnitSold ==
    ASSUME ProductsFit(products), NEW p \in DOMAIN products, products[p].stock > 0,
           NEW new, new = [products EXCEPT ![p].stock = @ - 1,
                                           ![p].batches = Out(@, PlanTake(@, 1, 0).take)]
    PROVE  ProductsFit(new) /\ Len(new) = Len(products)
<1> DEFINE old == products[p]
           take == PlanTake(old.batches, 1, 0).take
           held == Out(old.batches, take)
           level == old.stock - 1
<1>1. products \in Seq(Product) /\ Len(products) \in Nat /\ DOMAIN products = 1..Len(products)
  BY DEF ProductsFit
<1>2. /\ old \in Product /\ old.stock \in Int /\ old.stock > 0 /\ Shelf(old.batches)
      /\ Total(old.batches) = Most(0, old.stock)
  BY ProductParts
<1>3. new = [products EXCEPT ![p] = WithBatches(old, level, held)]
  BY <1>1, <1>2 DEF Product, WithBatches
<1> HIDE DEF old
<1>4. Never \in Nat
  BY FilesAssumption
<1>5. /\ take \in [DOMAIN old.batches -> Nat]
      /\ \A i \in DOMAIN old.batches : take[i] <= old.batches[i].qty
      /\ SumFunction(take) = Least(1, Total(old.batches))
  <2> DEFINE batches == old.batches
  <2>1. Shelf(batches) /\ 1 \in Nat
    BY <1>2
  <2> HIDE DEF batches
  <2>2. LET plan == PlanTake(batches, 1, 0)
        IN  /\ plan.take \in [DOMAIN batches -> Nat]
            /\ \A i \in DOMAIN batches : plan.take[i] <= batches[i].qty
            /\ SumFunction(plan.take) = Least(1, Total(batches))
    BY <1>4, <2>1, PlanTakeTakes
  <2>3. QED
    BY <2>2 DEF batches
<1> HIDE DEF take
<1>6. Shelf(held) /\ Total(held) = Total(old.batches) - SumFunction(take)
  <2> DEFINE batches == old.batches
  <2>1. Shelf(batches) /\ take \in [DOMAIN batches -> Nat] /\ \A i \in DOMAIN batches : take[i] <= batches[i].qty
    BY <1>2, <1>5
  <2> HIDE DEF batches
  <2>2. Shelf(Out(batches, take)) /\ Total(Out(batches, take)) = Total(batches) - SumFunction(take)
    BY <1>4, <2>1, OutTakesOut
  <2>3. QED
    BY <2>2 DEF batches
<1>7. Total(held) = Most(0, level) /\ level \in Int
  BY <1>2, <1>5, <1>6 DEF Most, Least
<1> HIDE DEF held, level
<1> DEFINE q == WithBatches(old, level, held)
<1>8. /\ q \in Product /\ BatchesAreStock(q)
      /\ q.live = old.live /\ q.name = old.name /\ q.sku = old.sku /\ q.barcode = old.barcode
  BY <1>2, <1>6, <1>7, RestockedFits
<1>9. new = [products EXCEPT ![p] = q]
  BY <1>3
<1> HIDE DEF q
<1>10. new \in Seq(Product) /\ Len(new) = Len(products)
  <2>1. q \in Product
    BY <1>8
  <2>2. [products EXCEPT ![p] = q] \in Seq(Product) /\ Len([products EXCEPT ![p] = q]) = Len(products)
    BY <1>1, <2>1, OneReplaced
  <2>3. QED
    BY <1>9, <2>2
<1>11. SameKeys(products, new)
  <2>1. \A x \in DOMAIN products : new[x] = IF x = p THEN q ELSE products[x]
    BY <1>1, <1>9
  <2>2. /\ q.live = products[p].live /\ q.name = products[p].name
        /\ q.sku = products[p].sku /\ q.barcode = products[p].barcode
    BY <1>8 DEF old
  <2>3. QED
    BY <1>10, <2>1, <2>2 DEF SameKeys
<1>12. \A x \in DOMAIN products : BatchesAreStock(new[x])
  BY <1>1, <1>8, <1>9 DEF ProductsFit
<1>13. QED
  BY <1>10, <1>11, <1>12, SameKeysFit

\* What is archived is live no more; the rest is as it was.
LEMMA ArchivedIs ==
    ASSUME NEW X, \A x \in X : [x EXCEPT !.live = FALSE] \in X /\ [x EXCEPT !.live = FALSE].live = FALSE,
           NEW list \in Seq(X), NEW i \in LiveOf(list),
           NEW new, new = Archived(list, i)
    PROVE  /\ new \in Seq(X) /\ Len(new) = Len(list) /\ DOMAIN new = DOMAIN list
           /\ \A j \in DOMAIN list : new[j] = IF j = i THEN [list[i] EXCEPT !.live = FALSE] ELSE list[j]
           /\ Cardinality(LiveOf(new)) \in Nat /\ Cardinality(LiveOf(list)) \in Nat
           /\ Cardinality(LiveOf(new)) <= Cardinality(LiveOf(list))
           /\ \A key : Apart(list, key) => Apart(new, key)
<1> DEFINE q == [list[i] EXCEPT !.live = FALSE]
<1>1. i \in DOMAIN list /\ list[i] \in X
  BY DEF LiveOf
<1>2. q \in X /\ q.live = FALSE
  BY <1>1
<1>3. new = [list EXCEPT ![i] = q]
  BY DEF Archived
<1> HIDE DEF q
<1>4. new \in Seq(X) /\ Len(new) = Len(list)
  BY <1>1, <1>2, <1>3, OneReplaced
<1>5. DOMAIN new = DOMAIN list /\ \A j \in DOMAIN list : new[j] = IF j = i THEN q ELSE list[j]
  BY <1>1, <1>3
<1>6. LiveOf(new) = LiveOf(list) \ {i}
  BY <1>2, <1>5 DEF LiveOf
<1>7. IsFiniteSet(LiveOf(list))
  BY ListIndices
<1>8. /\ Cardinality(LiveOf(new)) \in Nat /\ Cardinality(LiveOf(list)) \in Nat
      /\ Cardinality(LiveOf(new)) <= Cardinality(LiveOf(list))
  BY <1>6, <1>7, FS_Subset, FS_CardinalityType
<1>9. ASSUME NEW key, Apart(list, key) PROVE Apart(new, key)
  <2>1. LiveOf(list) \subseteq DOMAIN list
    BY DEF LiveOf
  <2>2. \A j \in LiveOf(new) : j \in LiveOf(list) /\ new[j] = list[j]
    BY <1>5, <1>6, <2>1
  <2>3. QED
    BY <1>9, <2>2 DEF Apart
<1>10. QED
  BY <1>4, <1>5, <1>8, <1>9 DEF q

LEMMA ArchivedProduct ==
    ASSUME ProductsFit(products), NEW i \in LiveOf(products)
    PROVE  ProductsFit(Archived(products, i)) /\ Len(Archived(products, i)) = Len(products)
<1> DEFINE new == Archived(products, i)
<1>1. /\ products \in Seq(Product) /\ Apart(products, "sku") /\ i \in DOMAIN products
      /\ Cardinality(LiveOf(products)) <= PlanProducts /\ PlanProducts \in Nat
      /\ \A p \in DOMAIN products : products[p] \in Product /\ BatchesAreStock(products[p])
  BY FilesAssumption DEF ProductsFit, LiveOf
<1>2. \A x \in Product : [x EXCEPT !.live = FALSE] \in Product /\ [x EXCEPT !.live = FALSE].live = FALSE
  BY DEF Product
<1> HIDE DEF new
<1>3. new = Archived(products, i)
  BY DEF new
<1>4. /\ new \in Seq(Product) /\ Len(new) = Len(products) /\ DOMAIN new = DOMAIN products
      /\ \A j \in DOMAIN products : new[j] = IF j = i THEN [products[i] EXCEPT !.live = FALSE] ELSE products[j]
      /\ Cardinality(LiveOf(new)) \in Nat /\ Cardinality(LiveOf(products)) \in Nat
      /\ Cardinality(LiveOf(new)) <= Cardinality(LiveOf(products))
      /\ \A key : Apart(products, key) => Apart(new, key)
  BY <1>1, <1>2, <1>3, ArchivedIs
<1>5. ASSUME NEW x \in Product, BatchesAreStock(x) PROVE BatchesAreStock([x EXCEPT !.live = FALSE])
  <2>1. [x EXCEPT !.live = FALSE].stock = x.stock /\ [x EXCEPT !.live = FALSE].batches = x.batches
    BY DEF Product
  <2>2. QED
    BY <1>5, <2>1 DEF BatchesAreStock
<1>6. \A p \in DOMAIN new : BatchesAreStock(new[p])
  BY <1>1, <1>4, <1>5
<1>7. Cardinality(LiveOf(new)) <= PlanProducts
  BY <1>1, <1>4
<1>8. QED
  BY <1>1, <1>4, <1>6, <1>7 DEF ProductsFit, new

LEMMA ArchivedCustomer ==
    ASSUME CustomersFit(customers), NEW i \in LiveOf(customers)
    PROVE  CustomersFit(Archived(customers, i)) /\ Len(Archived(customers, i)) = Len(customers)
<1> DEFINE new == Archived(customers, i)
<1>1. /\ customers \in Seq(Customer) /\ Apart(customers, "phone")
      /\ Cardinality(LiveOf(customers)) <= PlanCustomers /\ PlanCustomers \in Nat
  BY FilesAssumption DEF CustomersFit
<1>2. \A x \in Customer : [x EXCEPT !.live = FALSE] \in Customer /\ [x EXCEPT !.live = FALSE].live = FALSE
  BY DEF Customer
<1> HIDE DEF new
<1>3. new = Archived(customers, i)
  BY DEF new
<1>4. /\ new \in Seq(Customer) /\ Len(new) = Len(customers)
      /\ Cardinality(LiveOf(new)) \in Nat /\ Cardinality(LiveOf(customers)) \in Nat
      /\ Cardinality(LiveOf(new)) <= Cardinality(LiveOf(customers))
      /\ \A key : Apart(customers, key) => Apart(new, key)
  BY <1>1, <1>2, <1>3, ArchivedIs
<1>5. Cardinality(LiveOf(new)) <= PlanCustomers
  BY <1>1, <1>4
<1>6. QED
  BY <1>1, <1>4, <1>5 DEF CustomersFit, new

LEMMA ArchivedSupplier ==
    ASSUME SuppliersFit(suppliers), NEW i \in LiveOf(suppliers)
    PROVE  SuppliersFit(Archived(suppliers, i)) /\ Len(Archived(suppliers, i)) = Len(suppliers)
<1> DEFINE new == Archived(suppliers, i)
<1>1. suppliers \in Seq(Supplier) /\ Apart(suppliers, "name")
  BY DEF SuppliersFit
<1>2. \A x \in Supplier : [x EXCEPT !.live = FALSE] \in Supplier /\ [x EXCEPT !.live = FALSE].live = FALSE
  BY DEF Supplier
<1> HIDE DEF new
<1>3. new = Archived(suppliers, i)
  BY DEF new
<1>4. /\ new \in Seq(Supplier) /\ Len(new) = Len(suppliers)
      /\ \A key : Apart(suppliers, key) => Apart(new, key)
  BY <1>1, <1>2, <1>3, ArchivedIs
<1>5. QED
  BY <1>1, <1>4 DEF SuppliersFit, new

----------------------------------------------------------------------------
(***************************************************************************)
(* The steps.                                                              *)
(***************************************************************************)
LEMMA Jobs ==
    ASSUME job \in {NoImport} \cup BatchesJob \cup CustomersJob \cup MethodsJob
    PROVE  /\ job # NoImport => job.since \in Nat
           /\ job.step = "batches" => job \in BatchesJob
           /\ job.step = "customers" => job \in CustomersJob
           /\ job.step = "methods" => job \in MethodsJob
           /\ job.step # "none" => job # NoImport
           /\ job.step \in {"none", "batches", "customers", "methods"}
  BY SMTT(30) DEF NoImport, BatchesJob, CustomersJob, MethodsJob

\* Steps of other handlers: no promise outlives them.
LEMMA OtherHandlersKeep ==
    ASSUME ImportInv, others < MaxOthers, others' = others + 1, UNCHANGED <<job, imports, made, doubled>>,
           ProductsFit(products'), Len(products) <= Len(products'),
           CustomersFit(customers'), SuppliersFit(suppliers'),
           HistoryFits(history', Len(suppliers'), Len(customers')),
           methods' = methods
    PROVE  ImportInv'
<1>1. /\ others \in 0..MaxOthers /\ imports \in 0..MaxImports /\ MaxOthers \in Nat
      /\ job \in {NoImport} \cup BatchesJob \cup CustomersJob \cup MethodsJob
      /\ methods \in Seq(Nat) /\ IsInjective(methods)
      /\ products \in Seq(Product) /\ products' \in Seq(Product)
      /\ Len(products) \in Nat /\ Len(products') \in Nat
  BY FilesAssumption DEF ImportInv, ImportFits, ProductsFit
<1>2. job \in BatchesJob => job' \in BatchesJob'
  <2>1. 0..Len(products) \subseteq 0..Len(products')
    BY <1>1
  <2>2. [DOMAIN ProductFile -> 0..Len(products)] \subseteq [DOMAIN ProductFile -> 0..Len(products')]
    BY <2>1
  <2>3. ASSUME job \in BatchesJob PROVE job' \in BatchesJob'
    <3>1. job = [step |-> "batches", since |-> job.since, map |-> job.map]
          /\ job.since \in Nat /\ job.map \in [DOMAIN ProductFile -> 0..Len(products)]
      BY <2>3 DEF BatchesJob
    <3>2. job' = job /\ job.map \in [DOMAIN ProductFile -> 0..Len(products')]
      BY <2>2, <3>1
    <3>3. QED
      BY <3>1, <3>2 DEF BatchesJob
  <2>4. QED
    BY <2>3
<1>3. job' \in ({NoImport} \cup BatchesJob \cup CustomersJob \cup MethodsJob)'
  BY <1>1, <1>2 DEF NoImport, CustomersJob, MethodsJob
<1>4. ImportFits'
  <2>1. doubled' \in BOOLEAN
    BY DEF ImportInv, ImportFits
  <2>2. QED
    BY <1>1, <1>3, <2>1 DEF ImportFits
<1>5. job # NoImport => job.since \in Nat
  BY <1>1, Jobs
<1>6. ImportProgress'
  <2> SUFFICES ASSUME job # NoImport
               PROVE  made.others <= job.since /\ job.since <= others + 1 /\ job.since # others + 1
    BY DEF ImportProgress
  <2>1. made.others <= job.since /\ job.since <= others
    BY DEF ImportInv, ImportProgress
  <2>2. QED
    BY <1>1, <1>5, <2>1
<1>7. NothingLeft'
  <2>1. made.others \in Int /\ made.others <= others
    BY DEF ImportInv, NothingLeft
  <2>2. made.others <= others + 1 /\ made.others # others + 1
    BY <1>1, <2>1
  <2>3. QED
    BY <2>1, <2>2 DEF NothingLeft
<1>8. QED
  BY <1>4, <1>6, <1>7 DEF ImportInv

\* Steps of an import: after an import that nothing disturbed they add nothing.
LEMMA NothingAdded ==
    ASSUME ImportInv, UNCHANGED <<others, made>>,
           RowsAreTwoThings /\ made.others = others =>
              /\ ProductsDone(products') /\ Cardinality(LiveOf(products')) = Cardinality(LiveOf(products))
              /\ UNCHANGED <<customers, suppliers, methods, history>>
    PROVE  NothingLeft'
<1>1. made.others \in Int /\ made.others <= others
  BY DEF ImportInv, NothingLeft
<1>2. ASSUME RowsAreTwoThings, made.others = others
      PROVE  /\ ProductsDone(products') /\ CustomersDone(customers)'
             /\ MethodsDone(methods, Len(MethodFile))'
             /\ SuppliersDone(suppliers)' /\ HistoryDone(history)'
             /\ made = Amounts'
  <2>1. /\ CustomersDone(customers) /\ MethodsDone(methods, Len(MethodFile))
        /\ SuppliersDone(suppliers) /\ HistoryDone(history) /\ made = Amounts
    BY <1>2 DEF ImportInv, NothingLeft
  <2>2. CustomersDone(customers') /\ MethodsDone(methods', Len(MethodFile)) /\ SuppliersDone(suppliers')
    BY <1>2, <2>1
  <2>3. HistoryDone(history)'
    BY <1>2, <2>1 DEF HistoryDone, RowDone, CustomerFor, LiveOf
  <2>4. Amounts' = Amounts
    BY <1>2 DEF Amounts
  <2>5. QED
    BY <1>2, <2>1, <2>2, <2>3, <2>4
<1>3. QED
  BY <1>1, <1>2 DEF NothingLeft

LEMMA StartImportKeeps ==
    ASSUME ImportInv, StartImport
    PROVE  ImportInv'
<1> DEFINE done == UpsertProducts(ProductFile, TRUE)
<1>1. /\ ProductsFit(products) /\ products \in Seq(Product)
      /\ imports \in 0..MaxImports /\ others \in 0..MaxOthers /\ MaxImports \in Nat
      /\ made.others \in Int /\ made.others <= others
  BY FilesAssumption DEF ImportInv, ImportFits, ProductsFit, NothingLeft
<1>2. /\ ProductsFit(done.list) /\ (RowsAreTwoThings => ProductsDone(done.list))
      /\ done.map \in [DOMAIN ProductFile -> 0..Len(done.list)]
      /\ ProductsDone(products) => SameKeys(products, done.list)
  BY <1>1, BackupProducts
<1> HIDE DEF done
<1>3. /\ job = NoImport /\ imports < MaxImports /\ imports' = imports + 1
      /\ products' = done.list
      /\ job' = [step |-> "batches", since |-> others, map |-> done.map]
      /\ UNCHANGED <<customers, suppliers, methods, history, others, made, doubled>>
  BY DEF StartImport, done
<1>4. job' \in BatchesJob'
  BY <1>1, <1>2, <1>3 DEF BatchesJob
<1>5. ImportFits'
  <2>1. ProductsFit(products')
    BY <1>2, <1>3
  <2>2. CustomersFit(customers') /\ SuppliersFit(suppliers') /\ HistoryFits(history', Len(suppliers'), Len(customers'))
    BY <1>3 DEF ImportInv, ImportFits
  <2>3. /\ methods' \in Seq(Nat) /\ IsInjective(methods') /\ imports' \in 0..MaxImports /\ others' \in 0..MaxOthers
        /\ doubled' \in BOOLEAN
    BY <1>1, <1>3 DEF ImportInv, ImportFits
  <2>4. QED
    BY <1>4, <2>1, <2>2, <2>3 DEF ImportFits
<1>6. ImportProgress'
  <2>1. /\ job'.since = others /\ job'.step = "batches" /\ others' = others /\ made' = made
        /\ RowsAreTwoThings => ProductsDone(products')
    BY <1>2, <1>3
  <2>2. QED
    BY <1>1, <2>1 DEF ImportProgress
<1>7. NothingLeft'
  <2>1. ASSUME RowsAreTwoThings, made.others = others
        PROVE  ProductsDone(products') /\ Cardinality(LiveOf(products')) = Cardinality(LiveOf(products))
    <3>1. ProductsDone(products)
      BY <2>1 DEF ImportInv, NothingLeft
    <3>2. SameKeys(products, done.list) /\ done.list \in Seq(Product)
      BY <1>2, <3>1 DEF ProductsFit
    <3>3. LiveOf(done.list) = LiveOf(products)
      BY <1>1, <3>2, SameKeysFindSame
    <3>4. QED
      BY <1>2, <1>3, <2>1, <3>3
  <2>2. QED
    BY <1>3, <2>1, NothingAdded
<1>8. QED
  BY <1>3, <1>5, <1>6, <1>7 DEF ImportInv

LEMMA AddBatchesKeeps ==
    ASSUME ImportInv, AddBatches
    PROVE  ImportInv'
<1>1. /\ ProductsFit(products) /\ products \in Seq(Product) /\ Len(products) \in Nat
      /\ job \in {NoImport} \cup BatchesJob \cup CustomersJob \cup MethodsJob
  BY DEF ImportInv, ImportFits, ProductsFit
<1>2. /\ job.step = "batches" /\ job' = [step |-> "customers", since |-> job.since]
      /\ UNCHANGED <<customers, suppliers, methods, history, imports, others, made, doubled>>
  BY DEF AddBatches
<1>3. job # NoImport /\ job.since \in Nat
  BY <1>1, <1>2, Jobs
<1>4. ProductsFit(products') /\ SameKeys(products, products') /\ Len(products') = Len(products)
  <2>1. CASE BatchFile = <<>>
    <3>1. products' = products
      BY <2>1 DEF AddBatches
    <3>2. SameKeys(products, products)
      BY DEF SameKeys
    <3>3. QED
      BY <1>1, <3>1, <3>2
  <2>2. CASE BatchFile # <<>>
    <3> DEFINE map == job.map
    <3>1. products' = [p \in DOMAIN products |->
                          IF \A i \in DOMAIN map : map[i] # p THEN products[p]
                          ELSE [products[p] EXCEPT !.batches = Trimmed(@ \o BatchesFor(p, map), products[p].stock)]]
      BY <2>2 DEF AddBatches
    <3> HIDE DEF map
    <3>2. QED
      BY <1>1, <3>1, BatchesAdded
  <2>3. QED
    BY <2>1, <2>2
<1>5. /\ LiveOf(products') = LiveOf(products)
      /\ ProductsDone(products) => ProductsDone(products')
  <2>1. products' \in Seq(Product)
    BY <1>4 DEF ProductsFit
  <2>2. /\ LiveOf(products') = LiveOf(products)
        /\ \A row : ProductDone(products, row) => ProductDone(products', row)
    BY <1>1, <1>4, <2>1, SameKeysFindSame
  <2>3. QED
    BY <2>2 DEF ProductsDone
<1>6. job' \in CustomersJob
  BY <1>2, <1>3 DEF CustomersJob
<1>7. ImportFits'
  <2>1. CustomersFit(customers') /\ SuppliersFit(suppliers') /\ HistoryFits(history', Len(suppliers'), Len(customers'))
    BY <1>2 DEF ImportInv, ImportFits
  <2>2. /\ methods' \in Seq(Nat) /\ IsInjective(methods') /\ imports' \in 0..MaxImports /\ others' \in 0..MaxOthers
        /\ doubled' \in BOOLEAN
    BY <1>2 DEF ImportInv, ImportFits
  <2>3. job' \in CustomersJob'
    BY <1>6 DEF CustomersJob
  <2>4. QED
    BY <1>4, <2>1, <2>2, <2>3 DEF ImportFits
<1>8. ImportProgress'
  <2>1. /\ job'.since = job.since /\ job'.step = "customers" /\ others' = others /\ made' = made
    BY <1>2
  <2>2. /\ made.others <= job.since /\ job.since <= others
        /\ RowsAreTwoThings /\ job.since = others => ProductsDone(products)
    BY <1>3 DEF ImportInv, ImportProgress
  <2>3. QED
    BY <1>5, <2>1, <2>2 DEF ImportProgress
<1>9. NothingLeft'
  <2>1. RowsAreTwoThings /\ made.others = others => ProductsDone(products)
    BY DEF ImportInv, NothingLeft
  <2>2. QED
    BY <1>2, <1>5, <2>1, NothingAdded
<1>10. QED
  BY <1>2, <1>7, <1>8, <1>9 DEF ImportInv

LEMMA AddCustomersKeeps ==
    ASSUME ImportInv, AddCustomers
    PROVE  ImportInv'
<1>1. /\ CustomersFit(customers) /\ CustomerFile \in Seq(CustomerRow)
      /\ customers \in Seq(Customer) /\ Len(customers) \in Nat /\ Len(MethodFile) \in Nat
      /\ job \in {NoImport} \cup BatchesJob \cup CustomersJob \cup MethodsJob
  BY FilesAssumption DEF ImportInv, ImportFits, CustomersFit
<1>2. /\ job.step = "customers" /\ job' = [step |-> "methods", since |-> job.since, next |-> 1]
      /\ customers' = UpsertCustomers(CustomerFile)
      /\ UNCHANGED <<products, suppliers, methods, history, imports, others, made, doubled>>
  BY DEF AddCustomers
<1>3. job # NoImport /\ job.since \in Nat
  BY <1>1, <1>2, Jobs
<1>4. /\ CustomersFit(customers') /\ Len(customers) <= Len(customers')
      /\ RowsAreTwoThings => CustomersDone(customers')
      /\ CustomersDone(customers) => customers' = customers
  BY <1>1, <1>2, ListedCustomers, BackupCustomers
<1>5. job' \in MethodsJob
  BY <1>1, <1>2, <1>3 DEF MethodsJob
<1>6. ImportFits'
  <2>1. ProductsFit(products') /\ SuppliersFit(suppliers')
    BY <1>2 DEF ImportInv, ImportFits
  <2>2. HistoryFits(history', Len(suppliers'), Len(customers'))
    <3>1. history \in [DOMAIN HistoryFile -> Recording]
      BY DEF ImportInv, ImportFits, HistoryFits
    <3>2. \A r \in DOMAIN HistoryFile :
             /\ HistoryFile[r].store \notin {"ledger", "cashbook"} => history[r].party <= Len(suppliers)
             /\ HistoryFile[r].store = "ledger" => history[r].party <= Len(customers)
      BY DEF ImportInv, ImportFits, HistoryFits
    <3>3. \A r \in DOMAIN HistoryFile : history[r].party \in Nat
      BY <3>1 DEF Recording
    <3>4. Len(customers') \in Nat
      BY <1>4 DEF CustomersFit
    <3>5. \A r \in DOMAIN HistoryFile :
             HistoryFile[r].store = "ledger" => history[r].party <= Len(customers')
      BY <1>1, <1>4, <3>2, <3>3, <3>4
    <3>6. QED
      BY <1>2, <3>1, <3>2, <3>5 DEF HistoryFits
  <2>3. /\ methods' \in Seq(Nat) /\ IsInjective(methods') /\ imports' \in 0..MaxImports /\ others' \in 0..MaxOthers
        /\ doubled' \in BOOLEAN
    BY <1>2 DEF ImportInv, ImportFits
  <2>4. job' \in MethodsJob'
    BY <1>5 DEF MethodsJob
  <2>5. QED
    BY <1>4, <2>1, <2>2, <2>3, <2>4 DEF ImportFits
<1>7. ImportProgress'
  <2>1. /\ job'.since = job.since /\ job'.step = "methods" /\ job'.next = 1
        /\ others' = others /\ made' = made /\ products' = products
    BY <1>2
  <2>2. /\ made.others <= job.since /\ job.since <= others
        /\ RowsAreTwoThings /\ job.since = others => ProductsDone(products)
    BY <1>3 DEF ImportInv, ImportProgress
  <2>3. MethodsDone(methods', job'.next - 1)
    BY <2>1 DEF MethodsDone
  <2>4. QED
    BY <1>4, <2>1, <2>2, <2>3 DEF ImportProgress
<1>8. NothingLeft'
  <2>1. RowsAreTwoThings /\ made.others = others => ProductsDone(products) /\ CustomersDone(customers)
    BY DEF ImportInv, NothingLeft
  <2>2. QED
    BY <1>2, <1>4, <2>1, NothingAdded
<1>9. QED
  BY <1>2, <1>6, <1>7, <1>8 DEF ImportInv

\* A payment method that is there already is not added.
WithMethod(x) == IF Contains(methods, x) THEN methods ELSE Append(methods, x)

LEMMA MethodAdded ==
    ASSUME methods \in Seq(Nat), IsInjective(methods), NEW x \in Nat,
           NEW new, new = WithMethod(x)
    PROVE  /\ new \in Seq(Nat) /\ IsInjective(new)
           /\ \A i \in DOMAIN methods : i \in DOMAIN new /\ new[i] = methods[i]
           /\ \E i \in DOMAIN new : new[i] = x
           /\ (\E i \in DOMAIN methods : methods[i] = x) => new = methods
<1>1. /\ Len(methods) \in Nat /\ DOMAIN methods = 1..Len(methods)
      /\ \A i, j \in DOMAIN methods : methods[i] = methods[j] => i = j
  BY DEF IsInjective
<1>2. Contains(methods, x) <=> \E i \in DOMAIN methods : methods[i] = x
  BY <1>1 DEF Contains
<1>3. CASE Contains(methods, x)
  BY <1>2, <1>3 DEF WithMethod
<1>4. CASE ~Contains(methods, x)
  <2>1. new = Append(methods, x)
    BY <1>4 DEF WithMethod
  <2>2. /\ new \in Seq(Nat) /\ DOMAIN new = 1..(Len(methods) + 1)
        /\ \A i \in DOMAIN methods : i \in DOMAIN new /\ new[i] = methods[i]
        /\ Len(methods) + 1 \in DOMAIN new /\ new[Len(methods) + 1] = x
        /\ \A i \in DOMAIN new : i \in DOMAIN methods \/ i = Len(methods) + 1
    BY <1>1, <2>1
  <2>3. \A i, j \in DOMAIN new : new[i] = new[j] => i = j
    BY <1>1, <1>2, <1>4, <2>2, SMTT(30)
  <2>4. IsInjective(new)
    BY <2>3 DEF IsInjective
  <2>5. QED
    BY <1>2, <1>4, <2>2, <2>4
<1>5. QED
  BY <1>3, <1>4

LEMMA AddMethodKeeps ==
    ASSUME ImportInv, AddMethod
    PROVE  ImportInv'
<1> DEFINE x == MethodFile[job.next]
<1>1. /\ methods \in Seq(Nat) /\ IsInjective(methods) /\ MethodFile \in Seq(Nat) /\ Len(MethodFile) \in Nat
      /\ job \in {NoImport} \cup BatchesJob \cup CustomersJob \cup MethodsJob
  BY FilesAssumption DEF ImportInv, ImportFits
<1>2. /\ job.step = "methods" /\ job.next <= Len(MethodFile) /\ job' = [job EXCEPT !.next = @ + 1]
      /\ methods' = WithMethod(x)
      /\ UNCHANGED <<products, customers, suppliers, history, imports, others, made, doubled>>
  BY DEF AddMethod, WithMethod
<1>3. job # NoImport /\ job \in MethodsJob
  BY <1>1, <1>2, Jobs
<1>4. job.since \in Nat /\ job.next \in 1..Len(MethodFile)
  <2>1. job.since \in Nat /\ job.next \in 1..(Len(MethodFile) + 1)
    BY <1>3 DEF MethodsJob
  <2>2. QED
    BY <1>1, <1>2, <2>1
<1>5. x \in Nat
  BY <1>1, <1>4
<1> HIDE DEF x
<1>6. /\ methods' \in Seq(Nat) /\ IsInjective(methods')
      /\ \A i \in DOMAIN methods : i \in DOMAIN methods' /\ methods'[i] = methods[i]
      /\ \E i \in DOMAIN methods' : methods'[i] = x
      /\ (\E i \in DOMAIN methods : methods[i] = x) => methods' = methods
  BY <1>1, <1>2, <1>5, MethodAdded
<1>7. /\ job' \in MethodsJob /\ job'.since = job.since /\ job'.next = job.next + 1
      /\ job'.step = "methods"
  <2>1. job = [step |-> "methods", since |-> job.since, next |-> job.next]
    BY <1>3 DEF MethodsJob
  <2>2. job' = [step |-> "methods", since |-> job.since, next |-> job.next + 1]
    BY <1>2, <2>1
  <2>3. job.next + 1 \in 1..(Len(MethodFile) + 1)
    BY <1>1, <1>4
  <2>4. QED
    BY <1>4, <2>2, <2>3 DEF MethodsJob
<1>8. ImportFits'
  <2>1. /\ ProductsFit(products') /\ CustomersFit(customers') /\ SuppliersFit(suppliers')
        /\ HistoryFits(history', Len(suppliers'), Len(customers'))
        /\ imports' \in 0..MaxImports /\ others' \in 0..MaxOthers
        /\ doubled' \in BOOLEAN
    BY <1>2 DEF ImportInv, ImportFits
  <2>2. job' \in MethodsJob'
    BY <1>7 DEF MethodsJob
  <2>3. QED
    BY <1>6, <2>1, <2>2 DEF ImportFits
<1>9. ImportProgress'
  <2>1. /\ made.others <= job.since /\ job.since <= others
        /\ RowsAreTwoThings /\ job.since = others =>
              /\ ProductsDone(products) /\ CustomersDone(customers)
              /\ MethodsDone(methods, job.next - 1)
    BY <1>2, <1>3 DEF ImportInv, ImportProgress
  <2>2. ASSUME MethodsDone(methods, job.next - 1) PROVE MethodsDone(methods', job.next)
    <3> SUFFICES ASSUME NEW m \in 1..job.next
                 PROVE  \E i \in DOMAIN methods' : methods'[i] = MethodFile[m]
      BY DEF MethodsDone
    <3>1. CASE m = job.next
      BY <1>6, <3>1 DEF x
    <3>2. CASE m # job.next
      <4>1. m \in 1..(job.next - 1)
        BY <1>4, <3>2
      <4>2. \E i \in DOMAIN methods : methods[i] = MethodFile[m]
        BY <2>2, <4>1 DEF MethodsDone
      <4>3. QED
        BY <1>6, <4>2
    <3>3. QED
      BY <3>1, <3>2
  <2>3. job'.next - 1 = job.next
    BY <1>4, <1>7
  <2>4. /\ others' = others /\ made' = made /\ products' = products /\ customers' = customers
    BY <1>2
  <2>5. QED
    BY <1>7, <2>1, <2>2, <2>3, <2>4 DEF ImportProgress
<1>10. NothingLeft'
  <2>1. RowsAreTwoThings /\ made.others = others => ProductsDone(products) /\ MethodsDone(methods, Len(MethodFile))
    BY DEF ImportInv, NothingLeft
  <2>2. MethodsDone(methods, Len(MethodFile)) => methods' = methods
    BY <1>4, <1>6 DEF MethodsDone, x
  <2>3. QED
    BY <1>2, <2>1, <2>2, NothingAdded
<1>11. QED
  BY <1>2, <1>8, <1>9, <1>10 DEF ImportInv

LEMMA AddBooksKeeps ==
    ASSUME ImportInv, AddBooks
    PROVE  ImportInv'
<1> DEFINE done == ImportBooks
<1>1. /\ SuppliersFit(suppliers) /\ customers \in Seq(Customer)
      /\ HistoryFits(history, Len(suppliers), Len(customers))
      /\ others \in 0..MaxOthers /\ MaxOthers \in Nat /\ Len(MethodFile) \in Nat
      /\ job \in {NoImport} \cup BatchesJob \cup CustomersJob \cup MethodsJob
      /\ RowsAreTwoThings => doubled = FALSE
  BY FilesAssumption DEF ImportInv, ImportFits, CustomersFit
<1>2. /\ job.step = "methods" /\ job.next > Len(MethodFile) /\ job' = NoImport
      /\ suppliers' = done.suppliers /\ history' = done.history
      /\ UNCHANGED <<products, categories, customers, methods, imports, others>>
      /\ made' = IF job.since = others THEN Amounts' ELSE Unknown
      /\ doubled' = (doubled \/ (made.others = others /\ made' # made))
  BY DEF AddBooks
<1>3. job # NoImport /\ job \in MethodsJob
  BY <1>1, <1>2, Jobs
<1>4. job.since \in Nat /\ job.next - 1 = Len(MethodFile)
  <2>1. job.since \in Nat /\ job.next \in 1..(Len(MethodFile) + 1)
    BY <1>3 DEF MethodsJob
  <2>2. QED
    BY <1>1, <1>2, <2>1
<1>5. /\ SuppliersFit(done.suppliers) /\ Len(suppliers) <= Len(done.suppliers)
      /\ HistoryFits(done.history, Len(done.suppliers), Len(customers))
      /\ SuppliersDone(done.suppliers) /\ HistoryDone(done.history)
      /\ SuppliersDone(suppliers) /\ HistoryDone(history) =>
            done.suppliers = suppliers /\ done.history = history
  BY <1>1, BooksDone
<1> HIDE DEF done
<1>6. /\ made.others \in Int /\ made.others <= job.since /\ job.since <= others
      /\ RowsAreTwoThings /\ job.since = others =>
            /\ ProductsDone(products) /\ CustomersDone(customers)
            /\ MethodsDone(methods, Len(MethodFile))
  BY <1>2, <1>3, <1>4 DEF ImportInv, ImportProgress, NothingLeft
<1>7. ImportFits'
  <2>1. /\ ProductsFit(products') /\ CustomersFit(customers')
        /\ methods' \in Seq(Nat) /\ IsInjective(methods')
        /\ imports' \in 0..MaxImports /\ others' \in 0..MaxOthers
        /\ doubled' \in BOOLEAN
    BY <1>2 DEF ImportInv, ImportFits
  <2>2. SuppliersFit(suppliers') /\ HistoryFits(history', Len(suppliers'), Len(customers'))
    BY <1>2, <1>5
  <2>3. QED
    BY <1>2, <2>1, <2>2 DEF ImportFits, NoImport
<1>8. ImportProgress'
  BY <1>2 DEF ImportProgress, NoImport
<1>9. CASE job.since = others
  <2>1. made' = Amounts' /\ made'.others = others /\ others' = others
    BY <1>2, <1>9 DEF Amounts
  <2>2. /\ RowsAreTwoThings =>
              /\ ProductsDone(products') /\ CustomersDone(customers') /\ MethodsDone(methods', Len(MethodFile))
        /\ SuppliersDone(suppliers')
    BY <1>2, <1>5, <1>6, <1>9
  <2>3. HistoryDone(history)'
    BY <1>2, <1>5 DEF HistoryDone, RowDone, CustomerFor, LiveOf
  <2>4. NothingLeft'
    BY <1>1, <2>1, <2>2, <2>3 DEF NothingLeft
  <2>5. ASSUME RowsAreTwoThings, made.others = others PROVE made' = made
    <3>1. /\ SuppliersDone(suppliers) /\ HistoryDone(history) /\ made = Amounts
      BY <2>5 DEF ImportInv, NothingLeft
    <3>2. suppliers' = suppliers /\ history' = history
      BY <1>2, <1>5, <3>1
    <3>3. Amounts' = Amounts
      BY <1>2, <3>2 DEF Amounts
    <3>4. QED
      BY <2>1, <3>1, <3>3
  <2>6. RowsAreTwoThings => doubled' = FALSE
    BY <1>1, <1>2, <2>5
  <2>7. QED
    BY <1>7, <1>8, <2>4, <2>6 DEF ImportInv
<1>10. CASE job.since # others
  <2>1. made' = Unknown /\ made'.others = -1 /\ others' = others
    BY <1>2, <1>10 DEF Unknown
  <2>2. NothingLeft'
    <3>1. -1 \in Int /\ -1 <= others /\ -1 # others
      BY <1>1
    <3>2. QED
      BY <2>1, <3>1 DEF NothingLeft
  <2>3. made.others # others
    BY <1>1, <1>4, <1>6, <1>10
  <2>4. RowsAreTwoThings => doubled' = FALSE
    BY <1>1, <1>2, <2>3
  <2>5. QED
    BY <1>7, <1>8, <2>2, <2>4 DEF ImportInv
<1>11. QED
  BY <1>9, <1>10

LEMMA DieKeeps ==
    ASSUME ImportInv, Die
    PROVE  ImportInv'
<1>1. /\ job' = NoImport
      /\ UNCHANGED <<products, categories, customers, suppliers, methods, history, imports, others, made, doubled>>
  BY DEF Die
<1>2. ImportFits'
  BY <1>1 DEF ImportInv, ImportFits, NoImport
<1>3. ImportProgress'
  BY <1>1 DEF ImportProgress, NoImport
<1>4. NothingLeft'
  <2>1. RowsAreTwoThings /\ made.others = others => ProductsDone(products)
    BY DEF ImportInv, NothingLeft
  <2>2. QED
    BY <1>1, <2>1, NothingAdded
<1>5. QED
  BY <1>1, <1>2, <1>3, <1>4 DEF ImportInv

LEMMA ImportProductsKeeps ==
    ASSUME ImportInv, ImportProducts
    PROVE  ImportInv'
<1>1. ProductsFit(products)
  BY DEF ImportInv, ImportFits
<1>2. ProductsFit(products') /\ Len(products) <= Len(products')
  BY <1>1, ListedProducts DEF ImportProducts
<1>3. /\ others < MaxOthers /\ others' = others + 1
      /\ UNCHANGED <<customers, suppliers, methods, history, job, imports, made, doubled>>
  BY DEF ImportProducts
<1>4. CustomersFit(customers') /\ SuppliersFit(suppliers') /\ HistoryFits(history', Len(suppliers'), Len(customers'))
  BY <1>3 DEF ImportInv, ImportFits
<1>5. QED
  BY <1>2, <1>3, <1>4, OtherHandlersKeep

LEMMA ImportCustomersKeeps ==
    ASSUME ImportInv, ImportCustomers
    PROVE  ImportInv'
<1>1. CustomersFit(customers) /\ CustomerList \in Seq(CustomerRow)
  BY FilesAssumption DEF ImportInv, ImportFits
<1>2. /\ others < MaxOthers /\ others' = others + 1 /\ customers' = UpsertCustomers(CustomerList)
      /\ UNCHANGED <<products, suppliers, methods, history, job, imports, made, doubled>>
  BY DEF ImportCustomers
<1>3. CustomersFit(customers') /\ Len(customers) <= Len(customers')
  BY <1>1, <1>2, ListedCustomers
<1>4. HistoryFits(history', Len(suppliers'), Len(customers'))
  <2>1. history \in [DOMAIN HistoryFile -> Recording]
    BY DEF ImportInv, ImportFits, HistoryFits
  <2>2. \A r \in DOMAIN HistoryFile :
           /\ HistoryFile[r].store \notin {"ledger", "cashbook"} => history[r].party <= Len(suppliers)
           /\ HistoryFile[r].store = "ledger" => history[r].party <= Len(customers)
    BY DEF ImportInv, ImportFits, HistoryFits
  <2>3. \A r \in DOMAIN HistoryFile : history[r].party \in Nat
    BY <2>1 DEF Recording
  <2>4. Len(customers') \in Nat /\ Len(customers) \in Nat
    BY <1>1, <1>3 DEF CustomersFit
  <2>5. \A r \in DOMAIN HistoryFile :
           HistoryFile[r].store = "ledger" => history[r].party <= Len(customers')
    BY <1>3, <2>2, <2>3, <2>4
  <2>6. QED
    BY <1>2, <2>1, <2>2, <2>5 DEF HistoryFits
<1>5. ProductsFit(products') /\ Len(products) <= Len(products') /\ SuppliersFit(suppliers')
  <2>1. Len(products) \in Nat
    BY DEF ImportInv, ImportFits, ProductsFit
  <2>2. QED
    BY <1>2, <2>1 DEF ImportInv, ImportFits
<1>6. QED
  BY <1>2, <1>3, <1>4, <1>5, OtherHandlersKeep

LEMMA SellUnitKeeps ==
    ASSUME ImportInv, NEW p \in DOMAIN products, SellUnit(p)
    PROVE  ImportInv'
<1>1. ProductsFit(products) /\ Len(products) \in Nat
  BY DEF ImportInv, ImportFits, ProductsFit
<1>2. /\ others < MaxOthers /\ others' = others + 1 /\ products[p].stock > 0
      /\ products' = [products EXCEPT ![p].stock = @ - 1, ![p].batches = Out(@, PlanTake(@, 1, 0).take)]
      /\ UNCHANGED <<customers, suppliers, methods, history, job, imports, made, doubled>>
  BY DEF SellUnit
<1>3. ProductsFit(products') /\ Len(products') = Len(products)
  BY <1>1, <1>2, UnitSold
<1>4. CustomersFit(customers') /\ SuppliersFit(suppliers') /\ HistoryFits(history', Len(suppliers'), Len(customers'))
  BY <1>2 DEF ImportInv, ImportFits
<1>5. Len(products) <= Len(products')
  BY <1>1, <1>3
<1>6. QED
  BY <1>2, <1>3, <1>4, <1>5, OtherHandlersKeep

LEMMA ArchiveKeeps ==
    ASSUME ImportInv, Archive
    PROVE  ImportInv'
<1>1. /\ ProductsFit(products) /\ CustomersFit(customers) /\ SuppliersFit(suppliers)
      /\ HistoryFits(history, Len(suppliers), Len(customers)) /\ Len(products) \in Nat
  BY DEF ImportInv, ImportFits, ProductsFit
<1>2. /\ others < MaxOthers /\ others' = others + 1
      /\ UNCHANGED <<methods, history, job, imports, made, doubled>>
  BY DEF Archive
<1>3. CASE (\E i \in LiveOf(products) : products' = Archived(products, i)) /\ UNCHANGED <<customers, suppliers>>
  <2>1. ProductsFit(products') /\ Len(products') = Len(products)
    BY <1>1, <1>3, ArchivedProduct
  <2>2. Len(products) <= Len(products')
    BY <1>1, <2>1
  <2>3. CustomersFit(customers') /\ SuppliersFit(suppliers') /\ HistoryFits(history', Len(suppliers'), Len(customers'))
    BY <1>1, <1>2, <1>3
  <2>4. QED
    BY <1>2, <2>1, <2>2, <2>3, OtherHandlersKeep
<1>4. CASE (\E i \in LiveOf(customers) : customers' = Archived(customers, i)) /\ UNCHANGED <<products, suppliers>>
  <2>1. CustomersFit(customers') /\ Len(customers') = Len(customers)
    BY <1>1, <1>4, ArchivedCustomer
  <2>2. ProductsFit(products') /\ Len(products) <= Len(products') /\ SuppliersFit(suppliers')
    BY <1>1, <1>4
  <2>3. HistoryFits(history', Len(suppliers'), Len(customers'))
    BY <1>1, <1>2, <1>4, <2>1
  <2>4. QED
    BY <1>2, <2>1, <2>2, <2>3, OtherHandlersKeep
<1>5. CASE (\E i \in LiveOf(suppliers) : suppliers' = Archived(suppliers, i)) /\ UNCHANGED <<products, customers>>
  <2>1. SuppliersFit(suppliers') /\ Len(suppliers') = Len(suppliers)
    BY <1>1, <1>5, ArchivedSupplier
  <2>2. ProductsFit(products') /\ Len(products) <= Len(products') /\ CustomersFit(customers')
    BY <1>1, <1>5
  <2>3. HistoryFits(history', Len(suppliers'), Len(customers'))
    BY <1>1, <1>2, <1>5, <2>1
  <2>4. QED
    BY <1>2, <2>1, <2>2, <2>3, OtherHandlersKeep
<1>6. QED
  BY <1>3, <1>4, <1>5 DEF Archive

LEMMA StrikeOutKeeps ==
    ASSUME ImportInv, NEW r \in DOMAIN history, StrikeOut(r)
    PROVE  ImportInv'
<1>1. /\ ProductsFit(products) /\ CustomersFit(customers) /\ SuppliersFit(suppliers)
      /\ HistoryFits(history, Len(suppliers), Len(customers)) /\ Len(products) \in Nat
  BY DEF ImportInv, ImportFits, ProductsFit
<1>2. /\ others < MaxOthers /\ others' = others + 1 /\ history' = [history EXCEPT ![r].status = "struck"]
      /\ UNCHANGED <<products, customers, suppliers, methods, job, imports, made, doubled>>
  BY DEF StrikeOut
<1>3. HistoryFits(history', Len(suppliers'), Len(customers'))
  <2>1. history \in [DOMAIN HistoryFile -> Recording]
    BY <1>1 DEF HistoryFits
  <2>2. history' \in [DOMAIN HistoryFile -> Recording]
    BY <1>2, <2>1 DEF Recording
  <2>3. \A q \in DOMAIN HistoryFile : history'[q].party = history[q].party
    BY <1>2, <2>1 DEF Recording
  <2>4. QED
    BY <1>1, <1>2, <2>2, <2>3 DEF HistoryFits
<1>4. /\ ProductsFit(products') /\ Len(products) <= Len(products')
      /\ CustomersFit(customers') /\ SuppliersFit(suppliers')
  BY <1>1, <1>2
<1>5. QED
  BY <1>2, <1>3, <1>4, OtherHandlersKeep

\* The invariant of the imports: each list is as it should be, and what an
\* import has done stays done until another handler changes something.
LEMMA ImportsKeepInv == ImportsSpec => []ImportInv
<1>1. ASSUME ImportsInit PROVE ImportInv
  <2>1. /\ products \in InitProducts /\ methods = <<1>>
        /\ customers = InitCustomers /\ suppliers = InitSuppliers
        /\ history = [r \in DOMAIN HistoryFile |-> Unrecorded]
        /\ job = NoImport /\ imports = 0 /\ others = 0
        /\ made = Unknown /\ doubled = FALSE
    BY <1>1 DEF ImportsInit
  <2>2. ProductsFit(products) /\ CustomersFit(customers) /\ SuppliersFit(suppliers)
    BY <2>1, BeforeAssumption DEF ProductsFit, CustomersFit, SuppliersFit
  <2>3. HistoryFits(history, Len(suppliers), Len(customers))
    <3>1. Len(suppliers) \in Nat /\ Len(customers) \in Nat
      BY <2>2 DEF SuppliersFit, CustomersFit
    <3>2. Unrecorded \in Recording /\ Unrecorded.party = 0
      BY DEF Recording, Unrecorded
    <3>3. history \in [DOMAIN HistoryFile -> Recording]
      BY <2>1, <3>2
    <3>4. \A r \in DOMAIN HistoryFile : history[r].party = 0
      BY <2>1, <3>2
    <3>5. QED
      BY <3>1, <3>3, <3>4 DEF HistoryFits
  <2>4. methods \in Seq(Nat) /\ IsInjective(methods)
    BY <2>1 DEF IsInjective
  <2>5. /\ job \in {NoImport} /\ imports \in 0..MaxImports /\ others \in 0..MaxOthers
    BY <2>1, FilesAssumption
  <2>6. doubled \in BOOLEAN
    BY <2>1
  <2>7. ImportFits
    BY <2>2, <2>3, <2>4, <2>5, <2>6 DEF ImportFits
  <2>8. ImportProgress
    BY <2>1 DEF ImportProgress
  <2>9. NothingLeft
    BY <2>1 DEF NothingLeft, Unknown
  <2>10. QED
    BY <2>1, <2>7, <2>8, <2>9 DEF ImportInv
<1>2. ASSUME ImportInv, [ImportsNext]_importVars PROVE ImportInv'
  <2>1. CASE StartImport
    BY <1>2, <2>1, StartImportKeeps
  <2>2. CASE AddBatches
    BY <1>2, <2>2, AddBatchesKeeps
  <2>3. CASE AddCustomers
    BY <1>2, <2>3, AddCustomersKeeps
  <2>4. CASE AddMethod
    BY <1>2, <2>4, AddMethodKeeps
  <2>5. CASE AddBooks
    BY <1>2, <2>5, AddBooksKeeps
  <2>6. CASE Die
    BY <1>2, <2>6, DieKeeps
  <2>7. CASE ImportProducts
    BY <1>2, <2>7, ImportProductsKeeps
  <2>8. CASE ImportCustomers
    BY <1>2, <2>8, ImportCustomersKeeps
  <2>9. CASE \E p \in DOMAIN products : SellUnit(p)
    BY <1>2, <2>9, SellUnitKeeps
  <2>10. CASE Archive
    BY <1>2, <2>10, ArchiveKeeps
  <2>11. CASE \E r \in DOMAIN history : StrikeOut(r)
    BY <1>2, <2>11, StrikeOutKeeps
  <2>12. CASE UNCHANGED importVars
    <3>1. /\ UNCHANGED <<products, customers, suppliers, methods, history>>
          /\ UNCHANGED <<job, imports, others, made, doubled>>
      BY <2>12 DEF importVars
    <3>2. ImportFits'
      BY <1>2, <3>1 DEF ImportInv, ImportFits, BatchesJob, CustomersJob, MethodsJob, NoImport
    <3>3. ImportProgress'
      BY <1>2, <3>1 DEF ImportInv, ImportProgress, NoImport
    <3>4. NothingLeft'
      <4>1. RowsAreTwoThings /\ made.others = others => ProductsDone(products)
        BY <1>2 DEF ImportInv, NothingLeft
      <4>2. QED
        BY <1>2, <3>1, <4>1, NothingAdded
    <3>5. QED
      BY <1>2, <3>1, <3>2, <3>3, <3>4 DEF ImportInv
  <2>13. QED
    BY <1>2, <2>1, <2>2, <2>3, <2>4, <2>5, <2>6, <2>7, <2>8, <2>9, <2>10, <2>11, <2>12 DEF ImportsNext
<1>3. QED
  BY <1>1, <1>2, PTL DEF ImportsSpec

\* Recorded rows name parties that there are, and the import is at one of its
\* steps.
THEOREM ImportsTypes == ImportsSpec => []ImportsTypeOK
<1>1. ASSUME ImportInv PROVE ImportsTypeOK
  <2>1. /\ products \in Seq(Product) /\ customers \in Seq(Customer) /\ suppliers \in Seq(Supplier)
        /\ job.step \in {"none", "batches", "customers", "methods"}
        /\ imports \in 0..MaxImports /\ others \in 0..MaxOthers /\ doubled \in BOOLEAN
    BY <1>1, Jobs DEF ImportInv, ImportFits, ProductsFit, CustomersFit, SuppliersFit
  <2>2. history \in [DOMAIN HistoryFile -> Recording]
    BY <1>1 DEF ImportInv, ImportFits, HistoryFits
  <2>3. \A r \in DOMAIN HistoryFile :
           /\ HistoryFile[r].store \notin {"ledger", "cashbook"} => history[r].party <= Len(suppliers)
           /\ HistoryFile[r].store = "ledger" => history[r].party <= Len(customers)
    BY <1>1 DEF ImportInv, ImportFits, HistoryFits
  <2>4. \A r \in DOMAIN history :
           r \in DOMAIN HistoryFile /\ history[r].party \in Nat /\ history[r].status \in {"none", "live", "struck"}
    BY <2>2 DEF Recording
  <2>5. Len(suppliers) \in Nat /\ Len(customers) \in Nat
    BY <2>1
  <2>6. \A r \in DOMAIN history :
           /\ HistoryFile[r].store \notin {"ledger", "cashbook"} => history[r].party \in 0..Len(suppliers)
           /\ HistoryFile[r].store = "ledger" => history[r].party \in 0..Len(customers)
    BY <2>3, <2>4, <2>5
  <2>7. QED
    BY <2>1, <2>4, <2>6 DEF ImportsTypeOK
<1>2. QED
  BY <1>1, ImportsKeepInv, PTL

\* However often files are imported, and wherever an import breaks off: batches
\* are the stock, limits and keys stand, and a repetition of a backup whose rows are
\* two things each adds nothing.
THEOREM ImportsAlwaysSettle == ImportsSpec => []ImportsSettle
<1>1. ASSUME ImportInv PROVE ImportsSettle
  BY <1>1 DEF ImportInv, ImportFits, ProductsFit, CustomersFit, SuppliersFit, ImportsSettle
<1>2. QED
  BY <1>1, ImportsKeepInv, PTL

----------------------------------------------------------------------------
(***************************************************************************)
(* The shop: each of its steps is a step of one part and no step of the    *)
(* others.                                                                 *)
(***************************************************************************)
LEMMA ShopPlaysBooks == ShopSpec => BooksSpec
<1>1. ShopInit => BooksInit
  BY DEF ShopInit
<1>2. [ShopNext]_<<mix, vars, bookVars, catalogueVars, importVars>> => [BooksNext]_<<vars, bookVars>>
  <2> SUFFICES ASSUME ShopNext PROVE [BooksNext]_<<vars, bookVars>>
    OBVIOUS
  <2>1. CASE Sell(1) /\ UNCHANGED bookVars
    BY <2>1 DEF BooksNext, Next
  <2>2. ASSUME NEW r \in Requests, Handle(r), UNCHANGED bookVars PROVE BooksNext
    BY <2>2 DEF BooksNext, Next
  <2>3. CASE AccountNext \/ CustomerNext \/ SupplierNext \/ DrawerNext
    BY <2>3 DEF BooksNext
  <2>4. ASSUME NEW r \in Requests, RemoveSupplier(r) \/ ResolveDuplicate(r) PROVE BooksNext
    BY <2>4 DEF BooksNext
  <2>5. ASSUME NEW o \in Sales, SaveSale(o) PROVE BooksNext
    BY <2>5 DEF BooksNext, AccountNext
  <2>6. ASSUME NEW e \in Entries, NEW d \in 1..MaxDay, CustomerPayment(e, d) PROVE BooksNext
    BY <2>6 DEF BooksNext, AccountNext
  <2>7. ASSUME NEW c \in Customers, BringCustomer(c, 0) PROVE BooksNext
    BY <2>7 DEF BooksNext, CustomerNext
  <2>8. CASE DayPasses /\ UNCHANGED bookVars
    BY <2>8 DEF BooksNext, Next
  <2>9. CASE UNCHANGED <<vars, bookVars>>
    BY <2>9
  <2>10. CASE GoodsBooksAndEdits
    BY <2>1, <2>2, <2>3, <2>4, <2>5, <2>6, <2>7, <2>8, <2>9, <2>10 DEF GoodsBooksAndEdits
  <2>11. QED
    BY <2>9, <2>10 DEF ShopNext
<1>3. QED
  BY <1>1, <1>2, PTL DEF ShopSpec, BooksSpec

LEMMA ShopPlaysCatalogue == ShopSpec => CatalogueSpec
<1>1. ShopInit => CatalogueInit
  BY DEF ShopInit
<1>2. [ShopNext]_<<mix, vars, bookVars, catalogueVars, importVars>> => [CatalogueNext]_catalogueVars
  BY DEF ShopNext, GoodsBooksAndEdits
<1>3. QED
  BY <1>1, <1>2, PTL DEF ShopSpec, CatalogueSpec

LEMMA ShopPlaysImports == ShopSpec => ImportsSpec
<1>1. ShopInit => ImportsInit
  BY DEF ShopInit
<1>2. [ShopNext]_<<mix, vars, bookVars, catalogueVars, importVars>> => [ImportsNext]_importVars
  BY DEF ShopNext
<1>3. QED
  BY <1>1, <1>2, PTL DEF ShopSpec, ImportsSpec

\* Every variable of the shop keeps its type, whatever moves.
THEOREM ShopTypes == ShopSpec => []ShopTypeOK
<1>1. BooksTypeOK /\ CatalogueTypeOK /\ ImportsTypeOK <=> ShopTypeOK
  BY DEF ShopTypeOK
<1>2. QED
  BY <1>1, BooksTypes, CatalogueTypes, ImportsTypes,
     ShopPlaysBooks, ShopPlaysCatalogue, ShopPlaysImports, PTL
=============================================================================
