------------------------------- MODULE Catalog -------------------------------
(***************************************************************************)
(* The catalog of a reseller (handlers/reseller/catalog.py): operators,    *)
(* their subfolders and the packages in them, the dialogs that make and    *)
(* edit them, the warning about a suspicious price (services/              *)
(* sanity_check.py), and the deletion of whole trees.                      *)
(*                                                                         *)
(* There is one dialog: a state and the data that the handlers put there,  *)
(* which stays until the state is cleared.  The buttons that begin or go   *)
(* on with a dialog work in every state.  Titles, names and purchase       *)
(* prices of packages are left out, but not what their dialogs do to the   *)
(* data.                                                                   *)
(***************************************************************************)
EXTENDS Integers

CONSTANTS Operators,   \* ids of the rows of categories made as operators
          Subfolders,  \* and of those made as subfolders
          Packages,    \* ids of the rows of packages
          Names,       \* names of operators
          Prices,      \* selling prices that are typed
          Floor,       \* category_price_floors, 0 for a name that has no row
          Unused,      \* an id that was not given yet
          Gone,        \* a row that was deleted
          Root         \* parent_category_id IS NULL

Categories == Operators \cup Subfolders

ASSUME CategoriesAssumption == Operators \cap Subfolders = {}
ASSUME PricesAssumption == Prices \subseteq Nat
ASSUME FloorAssumption == Floor \in [Names -> Nat]
ASSUME MarksAssumption ==
    /\ Unused # Gone /\ Gone # Root /\ Unused # Root
    /\ {Unused, Gone, Root} \cap (Categories \cup Packages \cup Names) = {}

VARIABLES
    parent,         \* categories.parent_category_id
    operator_name,  \* categories.operator_name, which a subfolder copies
    category_id,    \* packages.category_id
    sale_price,     \* packages.sale_price
    sold,           \* packages that orders refer to
    dialog,         \* the FSM state
    data,           \* and its data
    pending_new,    \* _pending_price_confirmations: prices
    pending_edit,   \* _pending_edit_price_confirmations: packages with prices
    warned,         \* the kinds of warnings that were sent, with their buttons
    deleting,       \* the operator that is being deleted,
    subs,           \* and the subfolders of it that were read
    raced           \* history: a subfolder was made in an operator after that

folderVars  == <<parent, operator_name>>
packageVars == <<category_id, sale_price, sold>>
chatVars    == <<dialog, data, pending_new, pending_edit, warned>>
deleteVars  == <<deleting, subs, raced>>
vars == <<folderVars, packageVars, chatVars, deleteVars>>

\* operator_name, category_id, the folder that is to be renamed or to get a
\* subfolder, package_id, sale_price; and whether that price was confirmed, which
\* is history.
Data == [name : Names \cup {Gone}, category : Subfolders \cup {Gone},
         folder : Categories \cup {Gone}, package : Packages \cup {Gone},
         price : Prices \cup {0}, confirmed : BOOLEAN]
Missing == [name |-> Gone, category |-> Gone, folder |-> Gone, package |-> Gone,
            price |-> 0, confirmed |-> FALSE]

DialogState == {"none", "operator_name", "subcategory_title", "price", "cost_price",
                "edit_operator_name", "edit_price", "edit_other", "confirming"}

TypeOK ==
    /\ parent \in [Categories -> Categories \cup {Root, Gone, Unused}]
    /\ operator_name \in [Categories -> Names \cup {Unused}]
    /\ category_id \in [Packages -> Subfolders \cup {Gone, Unused}]
    /\ sale_price \in [Packages -> Prices \cup {0}]
    /\ sold \subseteq Packages
    /\ dialog \in DialogState /\ data \in Data
    /\ pending_new \subseteq Prices
    /\ pending_edit \subseteq Packages \X Prices
    /\ warned \subseteq {"new", "edit"}
    /\ deleting \in Categories \cup {Gone} /\ subs \subseteq Categories
    /\ raced \in BOOLEAN

Init ==
    /\ parent = [c \in Categories |-> Unused]
    /\ operator_name = [c \in Categories |-> Unused]
    /\ category_id = [p \in Packages |-> Unused]
    /\ sale_price = [p \in Packages |-> 0]
    /\ sold = {} /\ dialog = "none" /\ data = Missing
    /\ pending_new = {} /\ pending_edit = {} /\ warned = {}
    /\ deleting = Gone /\ subs = {} /\ raced = FALSE

HasFolder(c) == c \in Categories /\ parent[c] \notin {Gone, Unused}
HasPackage(p) == p \in Packages /\ category_id[p] \notin {Gone, Unused}

Enter(state) == dialog' = state /\ UNCHANGED <<pending_new, pending_edit, warned>>
Clear == dialog' = "none" /\ data' = Missing
End == Clear /\ UNCHANGED <<pending_new, pending_edit, warned>>

-----------------------------------------------------------------------------
(* Operators and subfolders.                                               *)

StartAddOperator ==
    /\ Enter("operator_name")
    /\ UNCHANGED <<folderVars, packageVars, data, deleteVars>>

\* receive_operator_name_and_save.
AddOperator(c, name) ==
    /\ dialog = "operator_name" /\ c \in Operators /\ parent[c] = Unused
    /\ parent' = [parent EXCEPT ![c] = Root]
    /\ operator_name' = [operator_name EXCEPT ![c] = name]
    /\ End
    /\ UNCHANGED <<packageVars, deleteVars>>

\* An operator is a category without a parent.  The button of one that is gone
\* raises.
PickOperatorForSub(c) ==
    /\ parent[c] = Root
    /\ data' = [data EXCEPT !.folder = c, !.name = operator_name[c]]
    /\ Enter("subcategory_title")
    /\ UNCHANGED <<folderVars, packageVars, deleteVars>>

\* receive_subcategory_title_and_save; the foreign key refuses a parent that is
\* gone, and the dialog goes on.
AddSubfolder(c) ==
    /\ dialog = "subcategory_title" /\ c \in Subfolders /\ parent[c] = Unused
    /\ HasFolder(data.folder)
    /\ parent' = [parent EXCEPT ![c] = data.folder]
    /\ operator_name' = [operator_name EXCEPT ![c] = data.name]
    /\ raced' = (raced \/ data.folder = deleting)
    /\ End
    /\ UNCHANGED <<packageVars, deleting, subs>>

StartEditOperatorName(c) ==
    /\ parent[c] \in {Root, Gone}
    /\ data' = [data EXCEPT !.folder = c]
    /\ Enter("edit_operator_name")
    /\ UNCHANGED <<folderVars, packageVars, deleteVars>>

\* The subfolders keep the name that they copied.
SaveOperatorName(name) ==
    /\ dialog = "edit_operator_name"
    /\ operator_name' = IF HasFolder(data.folder)
                        THEN [operator_name EXCEPT ![data.folder] = name] ELSE operator_name
    /\ End
    /\ UNCHANGED <<parent, packageVars, deleteVars>>

-----------------------------------------------------------------------------
(* A new package.                                                          *)

\* pick_category, and the package's name, which the dialog asks for first.
PickCategory(c) ==
    /\ c \in Subfolders /\ HasFolder(c)
    /\ data' = [data EXCEPT !.category = c, !.name = operator_name[c]]
    /\ Enter("price")
    /\ UNCHANGED <<folderVars, packageVars, deleteVars>>

IsPriceSuspicious(name, price) == name \in Names /\ price < Floor[name]

\* The floor is that of the name in the data, which another button may have put
\* there.  (Without a name the handler raises.)
ReceivePrice(price) ==
    /\ dialog = "price" /\ data.name # Gone
    /\ IF IsPriceSuspicious(data.name, price)
       THEN /\ pending_new' = pending_new \cup {price} /\ warned' = warned \cup {"new"}
            /\ dialog' = "confirming" /\ UNCHANGED data
       ELSE /\ data' = [data EXCEPT !.price = price, !.confirmed = FALSE]
            /\ dialog' = "cost_price" /\ UNCHANGED <<pending_new, warned>>
    /\ UNCHANGED <<folderVars, packageVars, pending_edit, deleteVars>>

\* confirm_suspicious_price, for whatever dialog goes on now.
ConfirmNew(price) ==
    /\ price \in pending_new /\ pending_new' = pending_new \ {price}
    /\ data' = [data EXCEPT !.price = price, !.confirmed = TRUE]
    /\ dialog' = "cost_price"
    /\ UNCHANGED <<folderVars, packageVars, pending_edit, warned, deleteVars>>

\* Faulty variant: no handler waits for the state.
EditNew_UnknownState ==
    /\ "new" \in warned
    /\ pending_new' \in {pending_new} \cup {pending_new \ {x} : x \in pending_new}
    /\ dialog' = "sale_price"
    /\ UNCHANGED <<folderVars, packageVars, data, pending_edit, warned, deleteVars>>

\* edit_suspicious_price: the token is dropped, or was before.
EditNew ==
    /\ "new" \in warned
    /\ pending_new' \in {pending_new} \cup {pending_new \ {x} : x \in pending_new}
    /\ dialog' = "price"
    /\ UNCHANGED <<folderVars, packageVars, data, pending_edit, warned, deleteVars>>

\* Faulty variant: nothing keeps a package out of a folder that is gone.
AddPackage_NoForeignKey(p) ==
    /\ dialog = "cost_price" /\ category_id[p] = Unused
    /\ data.price \in Prices /\ data.category # Gone
    /\ category_id' = [category_id EXCEPT ![p] = data.category]
    /\ sale_price' = [sale_price EXCEPT ![p] = data.price]
    /\ End
    /\ UNCHANGED <<folderVars, sold, deleteVars>>

\* receive_cost_price_and_save; the foreign key refuses a category that is gone.
AddPackage(p) ==
    /\ dialog = "cost_price" /\ category_id[p] = Unused
    /\ data.price \in Prices /\ HasFolder(data.category)
    /\ category_id' = [category_id EXCEPT ![p] = data.category]
    /\ sale_price' = [sale_price EXCEPT ![p] = data.price]
    /\ End
    /\ UNCHANGED <<folderVars, sold, deleteVars>>

-----------------------------------------------------------------------------
(* Changing a package.                                                     *)

StartEditPrice(p) ==
    /\ category_id[p] # Unused
    /\ data' = [data EXCEPT !.package = p]
    /\ Enter("edit_price")
    /\ UNCHANGED <<folderVars, packageVars, deleteVars>>

\* The dialogs for a package's name and purchase price.
StartEditOther(p) ==
    /\ category_id[p] # Unused
    /\ data' = [data EXCEPT !.package = p]
    /\ Enter("edit_other")
    /\ UNCHANGED <<folderVars, packageVars, deleteVars>>

SaveOther == dialog = "edit_other" /\ End /\ UNCHANGED <<folderVars, packageVars, deleteVars>>

SetPrice(p, price) ==
    sale_price' = IF HasPackage(p) THEN [sale_price EXCEPT ![p] = price] ELSE sale_price

\* receive_package_price_edit.
ReceivePriceEdit(price) ==
    /\ dialog = "edit_price" /\ data.package # Gone
    /\ LET p == data.package IN
       IF HasPackage(p) /\ IsPriceSuspicious(operator_name[category_id[p]], price)
       THEN /\ pending_edit' = pending_edit \cup {<<p, price>>} /\ warned' = warned \cup {"edit"}
            /\ dialog' = "confirming" /\ UNCHANGED <<sale_price, data>>
       ELSE SetPrice(p, price) /\ Clear /\ UNCHANGED <<pending_edit, warned>>
    /\ UNCHANGED <<folderVars, category_id, sold, pending_new, deleteVars>>

\* Faulty variant: the price goes to the package of the dialog that goes on.
ConfirmEdit_CurrentDialog(p, price) ==
    /\ <<p, price>> \in pending_edit /\ pending_edit' = pending_edit \ {<<p, price>>}
    /\ SetPrice(IF data.package # Gone THEN data.package ELSE p, price)
    /\ Clear
    /\ UNCHANGED <<folderVars, category_id, sold, pending_new, warned, deleteVars>>

\* confirm_edit_suspicious_price.
ConfirmEdit(p, price) ==
    /\ <<p, price>> \in pending_edit /\ pending_edit' = pending_edit \ {<<p, price>>}
    /\ SetPrice(p, price)
    /\ Clear
    /\ UNCHANGED <<folderVars, category_id, sold, pending_new, warned, deleteVars>>

\* edit_again_suspicious_price, for the package in the data.
EditAgain ==
    /\ "edit" \in warned
    /\ pending_edit' \in {pending_edit} \cup {pending_edit \ {e} : e \in pending_edit}
    /\ dialog' = "edit_price"
    /\ UNCHANGED <<folderVars, packageVars, data, pending_new, warned, deleteVars>>

Cancel == dialog # "none" /\ End /\ UNCHANGED <<folderVars, packageVars, deleteVars>>

\* A customer's order; its row keeps the package from being deleted.
Sell(p) ==
    /\ HasPackage(p)
    /\ sold' = sold \cup {p}
    /\ UNCHANGED <<folderVars, category_id, sale_price, chatVars, deleteVars>>

-----------------------------------------------------------------------------
(* Deletion.                                                               *)

In(cs) == {p \in Packages : category_id[p] \in cs}

\* The rows of folders cs are deleted with the packages in them, and what had
\* one of them as its parent has none afterwards (ON DELETE SET NULL).
RemoveRows(cs, ps) ==
    /\ parent' = [c \in Categories |-> CASE c \in cs /\ parent[c] # Unused -> Gone
                                         [] c \notin cs /\ parent[c] \in cs -> Root
                                         [] OTHER -> parent[c]]
    /\ operator_name' = [c \in Categories |-> IF c \in cs THEN Unused ELSE operator_name[c]]
    /\ category_id' = [p \in Packages |-> IF p \in ps THEN Gone ELSE category_id[p]]
    /\ sale_price' = [p \in Packages |-> IF p \in ps THEN 0 ELSE sale_price[p]]

\* Faulty variant: the refusal is caught for each package, the others go.
RemoveFolders_Partly(cs) ==
    /\ RemoveRows(cs, In(cs))
    /\ UNCHANGED sold

\* One package that was sold has all of it rolled back.
RemoveFolders(cs) ==
    /\ In(cs) \cap sold = {}
    /\ RemoveRows(cs, In(cs))
    /\ UNCHANGED sold

\* _delete_package, _delete_subcategory_tree.
DeletePackage(p) ==
    /\ HasPackage(p) /\ p \notin sold
    /\ RemoveRows({}, {p})
    /\ UNCHANGED <<sold, chatVars, deleteVars>>

DeleteSubfolder(c) ==
    /\ c \in Subfolders /\ HasFolder(c)
    /\ RemoveFolders({c})
    /\ UNCHANGED <<chatVars, deleteVars>>

\* _delete_operator_tree reads the subfolders, which locks nothing; what it
\* deletes then is locked until it commits.
ReadSubfolders(c) ==
    /\ deleting = Gone /\ parent[c] = Root
    /\ deleting' = c /\ subs' = {s \in Categories : parent[s] = c}
    /\ UNCHANGED <<folderVars, packageVars, chatVars, raced>>

\* Faulty variant: only the row of the operator is deleted.
DeleteTree_OperatorOnly ==
    /\ deleting # Gone
    /\ RemoveFolders({deleting})
    /\ deleting' = Gone /\ subs' = {}
    /\ UNCHANGED <<chatVars, raced>>

DeleteTree ==
    /\ deleting # Gone
    /\ RemoveFolders(subs \cup {deleting})
    /\ deleting' = Gone /\ subs' = {}
    /\ UNCHANGED <<chatVars, raced>>

DeleteTreeRefused ==
    /\ deleting # Gone /\ In(subs \cup {deleting}) \cap sold # {}
    /\ deleting' = Gone /\ subs' = {}
    /\ UNCHANGED <<folderVars, packageVars, chatVars, raced>>

\* The process starts again: dialogs and tokens are in memory.
Restart ==
    /\ Clear /\ pending_new' = {} /\ pending_edit' = {} /\ deleting' = Gone /\ subs' = {}
    /\ UNCHANGED <<folderVars, packageVars, warned, raced>>

Next ==
    \/ StartAddOperator \/ EditNew \/ SaveOther \/ EditAgain \/ Cancel
    \/ DeleteTree \/ DeleteTreeRefused \/ Restart
    \/ \E c \in Categories :
          \/ PickOperatorForSub(c) \/ AddSubfolder(c) \/ StartEditOperatorName(c)
          \/ PickCategory(c) \/ DeleteSubfolder(c) \/ ReadSubfolders(c)
          \/ \E name \in Names : AddOperator(c, name)
    \/ \E name \in Names : SaveOperatorName(name)
    \/ \E price \in Prices : ReceivePrice(price) \/ ConfirmNew(price) \/ ReceivePriceEdit(price)
    \/ \E p \in Packages :
          \/ AddPackage(p) \/ StartEditPrice(p) \/ StartEditOther(p) \/ Sell(p) \/ DeletePackage(p)
          \/ \E price \in Prices : ConfirmEdit(p, price)

Spec == Init /\ [][Next]_vars

-----------------------------------------------------------------------------
(* A subfolder never shows up as an operator (the comment before the       *)
(* deletions says that it must not), unless one was made in an operator    *)
(* between the two steps of its deletion.                                  *)
OrphanOnlyByRace ==
    (\E c \in Subfolders : parent[c] = Root) => raced

(* Every package is in a folder that exists, whatever is deleted while it  *)
(* is being added or its folder is being filled.                           *)
NoFloatingPackage ==
    \A p \in Packages : HasPackage(p) => HasFolder(category_id[p])

(* A package that was sold stays where it is, for the reports: no deletion *)
(* of it, or of a folder around it, gets through in part.                  *)
SoldStays ==
    [][\A p \in sold : category_id'[p] = category_id[p]]_vars

(* A price under the floor of its operator is saved only if the warning    *)
(* about that price was confirmed, for that package when it is changed.    *)
(* The dialog of a new package may have taken the name from another folder *)
(* in the meantime: the floor is then that of the other one.               *)
LowPriceWasConfirmed ==
    [][\A p \in Packages :
          /\ sale_price'[p] # sale_price[p] /\ category_id'[p] \in Subfolders
          /\ IsPriceSuspicious(operator_name[category_id'[p]], sale_price'[p])
          => IF HasPackage(p)
             THEN <<p, sale_price'[p]>> \in pending_edit
             ELSE data.confirmed \/ data.name # operator_name[category_id'[p]]]_vars
=============================================================================
