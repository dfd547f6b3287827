---------------------------- MODULE CatalogProofs ----------------------------
(***************************************************************************)
(* Theorems about Catalog, for any operators, subfolders and packages.     *)
(***************************************************************************)
EXTENDS Catalog, TLAPS

-----------------------------------------------------------------------------
(* The inductive invariant.                                                *)

\* A folder has a name, and a dialog that is to make a subfolder copied one.
Named ==
    /\ \A c \in Categories : HasFolder(c) => operator_name[c] \in Names
    /\ dialog = "subcategory_title" => data.name \in Names

\* As long as nothing raced: operators are at the root and subfolders in them,
\* and the subfolders of the operator that is being deleted are known.
Tree ==
    ~raced =>
        /\ \A c \in Operators : parent[c] \in {Root, Gone, Unused}
        /\ \A c \in Subfolders : parent[c] \in Operators \cup {Gone, Unused}
        /\ dialog = "subcategory_title" => data.folder \in Operators
        /\ subs \subseteq Subfolders
        /\ deleting # Gone => \A c \in Categories : parent[c] = deleting => c \in subs

SoldIsThere == \A p \in sold : HasPackage(p)

\* The price in the data was confirmed, or is not under the floor of its name.
PriceChecked ==
    dialog = "cost_price" => data.confirmed \/ ~IsPriceSuspicious(data.name, data.price)

CatalogInv ==
    /\ TypeOK
    /\ Named
    /\ Tree
    /\ NoFloatingPackage
    /\ SoldIsThere
    /\ PriceChecked

-----------------------------------------------------------------------------
\* The marks are no ids.
LEMMA Marks ==
    /\ Unused # Gone /\ Gone # Root /\ Unused # Root
    /\ \A x \in {Unused, Gone, Root} : x \notin Categories /\ x \notin Packages /\ x \notin Names
    /\ \A c \in Operators : c \notin Subfolders
BY MarksAssumption, CategoriesAssumption

LEMMA CatalogInit == Init => CatalogInv
<1> SUFFICES ASSUME Init PROVE CatalogInv
  OBVIOUS
<1> USE Marks DEF Init
<1>1. data \in Data
  BY DEF Data, Missing
<1>2. TypeOK
  <2>1. /\ parent \in [Categories -> Categories \cup {Root, Gone, Unused}]
        /\ operator_name \in [Categories -> Names \cup {Unused}]
    OBVIOUS
  <2>2. /\ category_id \in [Packages -> Subfolders \cup {Gone, Unused}]
        /\ sale_price \in [Packages -> Prices \cup {0}]
    OBVIOUS
  <2>3. QED
    BY <1>1, <2>1, <2>2 DEF TypeOK, DialogState
<1>3. Named /\ PriceChecked
  BY DEF Named, PriceChecked, HasFolder
<1>4. Tree
  BY DEF Tree, Categories
<1>5. NoFloatingPackage /\ SoldIsThere
  BY DEF NoFloatingPackage, SoldIsThere, HasPackage
<1>6. QED
  BY <1>2, <1>3, <1>4, <1>5 DEF CatalogInv

-----------------------------------------------------------------------------
(* Every step keeps the types.                                             *)

LEMMA TypeChats ==
    ASSUME TypeOK, NEW state \in DialogState, Enter(state), UNCHANGED <<folderVars, packageVars, deleteVars>>,
           data' \in Data
    PROVE  TypeOK'
BY DEF TypeOK, Enter, folderVars, packageVars, deleteVars

LEMMA TypeEnds ==
    ASSUME TypeOK, Clear, UNCHANGED <<category_id, sold, deleteVars>>,
           parent' \in [Categories -> Categories \cup {Root, Gone, Unused}],
           operator_name' \in [Categories -> Names \cup {Unused}],
           sale_price' \in [Packages -> Prices \cup {0}],
           pending_new' \subseteq pending_new, pending_edit' \subseteq pending_edit,
           UNCHANGED warned
    PROVE  TypeOK'
<1>1. data' \in Data /\ dialog' \in DialogState
  BY DEF Clear, Data, Missing, DialogState
<1>2. QED
  BY <1>1 DEF TypeOK, deleteVars

LEMMA DataFields ==
    ASSUME data \in Data
    PROVE  /\ data.name \in Names \cup {Gone} /\ data.category \in Subfolders \cup {Gone}
           /\ data.folder \in Categories \cup {Gone} /\ data.package \in Packages \cup {Gone}
           /\ data.price \in Prices \cup {0} /\ data.confirmed \in BOOLEAN
           /\ \A c \in Categories : [data EXCEPT !.folder = c] \in Data
           /\ \A p \in Packages : [data EXCEPT !.package = p] \in Data
           /\ \A c \in Categories, n \in Names :
                 [data EXCEPT !.folder = c, !.name = n] \in Data
           /\ \A c \in Subfolders, n \in Names :
                 [data EXCEPT !.category = c, !.name = n] \in Data
           /\ \A x \in Prices, b \in BOOLEAN :
                 [data EXCEPT !.price = x, !.confirmed = b] \in Data
BY DEF Data

LEMMA TypeRemoves ==
    ASSUME TypeOK, NEW cs, NEW ps, RemoveRows(cs, ps), UNCHANGED <<sold, chatVars, raced>>,
           deleting' \in Categories \cup {Gone}, subs' \subseteq Categories
    PROVE  TypeOK'
<1>1. parent' \in [Categories -> Categories \cup {Root, Gone, Unused}]
  BY DEF TypeOK, RemoveRows
<1>2. operator_name' \in [Categories -> Names \cup {Unused}]
  BY DEF TypeOK, RemoveRows
<1>3. /\ category_id' \in [Packages -> Subfolders \cup {Gone, Unused}]
      /\ sale_price' \in [Packages -> Prices \cup {0}]
  BY DEF TypeOK, RemoveRows
<1>4. QED
  BY <1>1, <1>2, <1>3 DEF TypeOK, chatVars

LEMMA TypeFolders ==
    ASSUME TypeOK, Named,
           \/ \E c \in Categories : \/ PickOperatorForSub(c) \/ AddSubfolder(c)
                                    \/ StartEditOperatorName(c) \/ PickCategory(c)
                                    \/ \E name \in Names : AddOperator(c, name)
           \/ StartAddOperator
           \/ \E name \in Names : SaveOperatorName(name)
    PROVE  TypeOK'
<1> USE DEF folderVars, packageVars
<1>0. data \in Data
  BY DEF TypeOK
<1>1. CASE StartAddOperator
  BY <1>0, <1>1, TypeChats DEF StartAddOperator, DialogState
<1>2. ASSUME NEW c \in Categories, PickOperatorForSub(c) PROVE TypeOK'
  <2>1. operator_name[c] \in Names
    BY <1>2, Marks DEF PickOperatorForSub, Named, HasFolder
  <2>2. data' \in Data
    BY <1>0, <1>2, <2>1, DataFields DEF PickOperatorForSub
  <2>3. QED
    BY <1>2, <2>2, TypeChats DEF PickOperatorForSub, DialogState
<1>3. ASSUME NEW c \in Categories, AddSubfolder(c) PROVE TypeOK'
  <2>1. data.name \in Names /\ data.folder \in Categories
    BY <1>3 DEF AddSubfolder, Named, HasFolder
  <2>2. /\ parent' \in [Categories -> Categories \cup {Root, Gone, Unused}]
        /\ operator_name' \in [Categories -> Names \cup {Unused}]
    BY <1>3, <2>1 DEF AddSubfolder, TypeOK
  <2>3. data' \in Data /\ dialog' \in DialogState
    BY <1>3 DEF AddSubfolder, End, Clear, Data, Missing, DialogState
  <2>4. QED
    BY <1>3, <2>2, <2>3 DEF AddSubfolder, End, TypeOK
<1>4. ASSUME NEW c \in Categories, StartEditOperatorName(c) PROVE TypeOK'
  <2>1. data' \in Data
    BY <1>0, <1>4, DataFields DEF StartEditOperatorName
  <2>2. QED
    BY <1>4, <2>1, TypeChats DEF StartEditOperatorName, DialogState
<1>5. ASSUME NEW c \in Categories, PickCategory(c) PROVE TypeOK'
  <2>1. operator_name[c] \in Names
    BY <1>5 DEF PickCategory, Named
  <2>2. data' \in Data
    BY <1>0, <1>5, <2>1, DataFields DEF PickCategory
  <2>3. QED
    BY <1>5, <2>2, TypeChats DEF PickCategory, DialogState
<1>6. ASSUME NEW c \in Categories, NEW name \in Names, AddOperator(c, name) PROVE TypeOK'
  <2>1. /\ parent' \in [Categories -> Categories \cup {Root, Gone, Unused}]
        /\ operator_name' \in [Categories -> Names \cup {Unused}]
    BY <1>6 DEF AddOperator, TypeOK
  <2>2. QED
    BY <1>6, <2>1, TypeEnds DEF AddOperator, End, TypeOK
<1>7. ASSUME NEW name \in Names, SaveOperatorName(name) PROVE TypeOK'
  <2>1. operator_name' \in [Categories -> Names \cup {Unused}]
    BY <1>7 DEF SaveOperatorName, TypeOK
  <2>2. QED
    BY <1>7, <2>1, TypeEnds DEF SaveOperatorName, End, TypeOK
<1>8. QED
  BY <1>1, <1>2, <1>3, <1>4, <1>5, <1>6, <1>7

LEMMA TypePackages ==
    ASSUME TypeOK,
           \/ EditNew \/ SaveOther \/ EditAgain \/ Cancel \/ Restart
           \/ \E price \in Prices : \/ ReceivePrice(price) \/ ConfirmNew(price)
                                    \/ ReceivePriceEdit(price)
           \/ \E p \in Packages : \/ AddPackage(p) \/ StartEditPrice(p) \/ StartEditOther(p)
                                  \/ Sell(p) \/ \E price \in Prices : ConfirmEdit(p, price)
    PROVE  TypeOK'
<1> USE DEF folderVars, packageVars
<1>0. data \in Data
  BY DEF TypeOK
<1>1. CASE EditNew \/ EditAgain
  <2>1. dialog' \in DialogState /\ pending_new' \subseteq Prices
        /\ pending_edit' \subseteq Packages \X Prices
    BY <1>1 DEF EditNew, EditAgain, TypeOK, DialogState
  <2>2. QED
    BY <1>1, <2>1 DEF EditNew, EditAgain, TypeOK, deleteVars
<1>2. CASE SaveOther \/ Cancel
  BY <1>2, TypeEnds DEF SaveOther, Cancel, End, TypeOK
<1>3. CASE Restart
  <2>1. data' \in Data /\ dialog' \in DialogState
    BY <1>3 DEF Restart, Clear, Data, Missing, DialogState
  <2>2. QED
    BY <1>3, <2>1 DEF Restart, TypeOK
<1>4. ASSUME NEW price \in Prices, ReceivePrice(price) PROVE TypeOK'
  <2>1. data' \in Data
    BY <1>0, <1>4, DataFields DEF ReceivePrice
  <2>2. /\ pending_new' \subseteq Prices /\ warned' \subseteq {"new", "edit"}
        /\ dialog' \in DialogState
    BY <1>4 DEF ReceivePrice, TypeOK, DialogState
  <2>3. QED
    BY <1>4, <2>1, <2>2 DEF ReceivePrice, TypeOK, deleteVars
<1>5. ASSUME NEW price \in Prices, ConfirmNew(price) PROVE TypeOK'
  <2>1. data' \in Data
    BY <1>0, <1>5, DataFields DEF ConfirmNew
  <2>2. pending_new' \subseteq Prices /\ dialog' \in DialogState
    BY <1>5 DEF ConfirmNew, TypeOK, DialogState
  <2>3. QED
    BY <1>5, <2>1, <2>2 DEF ConfirmNew, TypeOK, deleteVars
<1>6. ASSUME NEW price \in Prices, ReceivePriceEdit(price) PROVE TypeOK'
  <2>1. data.package \in Packages
    BY <1>0, <1>6, DataFields DEF ReceivePriceEdit
  <2>2. sale_price' \in [Packages -> Prices \cup {0}]
    BY <1>6 DEF ReceivePriceEdit, SetPrice, TypeOK
  <2>3. Missing \in Data
    BY DEF Data, Missing
  <2>4. data' \in Data /\ dialog' \in DialogState
    BY <1>0, <1>6, <2>3 DEF ReceivePriceEdit, Clear, DialogState
  <2>5. warned' \subseteq {"new", "edit"}
    BY <1>6 DEF ReceivePriceEdit, TypeOK
  <2>6. pending_edit' \subseteq Packages \X Prices
    <3>1. <<data.package, price>> \in Packages \X Prices
      BY <2>1
    <3>2. pending_edit' \subseteq pending_edit \cup {<<data.package, price>>}
      BY <1>6 DEF ReceivePriceEdit
    <3>3. QED
      BY <3>1, <3>2 DEF TypeOK
  <2>7. QED
    BY <1>6, <2>2, <2>4, <2>5, <2>6 DEF ReceivePriceEdit, TypeOK, deleteVars
<1>7. ASSUME NEW p \in Packages, AddPackage(p) PROVE TypeOK'
  <2>1. data.category \in Subfolders
    BY <1>0, <1>7, DataFields, Marks DEF AddPackage, HasFolder
  <2>2. /\ category_id' \in [Packages -> Subfolders \cup {Gone, Unused}]
        /\ sale_price' \in [Packages -> Prices \cup {0}]
    BY <1>7, <2>1 DEF AddPackage, TypeOK
  <2>3. data' \in Data /\ dialog' \in DialogState
    BY <1>7 DEF AddPackage, End, Clear, Data, Missing, DialogState
  <2>4. QED
    BY <1>7, <2>2, <2>3 DEF AddPackage, End, TypeOK, deleteVars
<1>8. ASSUME NEW p \in Packages, StartEditPrice(p) \/ StartEditOther(p) PROVE TypeOK'
  <2>1. data' \in Data
    BY <1>0, <1>8, DataFields DEF StartEditPrice, StartEditOther
  <2>2. QED
    BY <1>8, <2>1, TypeChats DEF StartEditPrice, StartEditOther, DialogState
<1>9. ASSUME NEW p \in Packages, Sell(p) PROVE TypeOK'
  BY <1>9 DEF Sell, TypeOK, chatVars, deleteVars
<1>10. ASSUME NEW p \in Packages, NEW price \in Prices, ConfirmEdit(p, price) PROVE TypeOK'
  <2>1. sale_price' \in [Packages -> Prices \cup {0}]
    BY <1>10 DEF ConfirmEdit, SetPrice, TypeOK
  <2>2. QED
    BY <1>10, <2>1, TypeEnds DEF ConfirmEdit, TypeOK
<1>11. QED
  BY <1>1, <1>2, <1>3, <1>4, <1>5, <1>6, <1>7, <1>8, <1>9, <1>10

LEMMA TypeDeletions ==
    ASSUME TypeOK,
           \/ DeleteTree \/ DeleteTreeRefused
           \/ \E c \in Categories : DeleteSubfolder(c) \/ ReadSubfolders(c)
           \/ \E p \in Packages : DeletePackage(p)
    PROVE  TypeOK'
<1>1. CASE DeleteTree
  BY <1>1, TypeRemoves DEF DeleteTree, RemoveFolders
<1>2. CASE DeleteTreeRefused
  BY <1>2 DEF DeleteTreeRefused, TypeOK, folderVars, packageVars, chatVars
<1>3. ASSUME NEW c \in Categories, DeleteSubfolder(c) PROVE TypeOK'
  BY <1>3, TypeRemoves DEF DeleteSubfolder, RemoveFolders, deleteVars, TypeOK
<1>4. ASSUME NEW c \in Categories, ReadSubfolders(c) PROVE TypeOK'
  BY <1>4 DEF ReadSubfolders, TypeOK, folderVars, packageVars, chatVars
<1>5. ASSUME NEW p \in Packages, DeletePackage(p) PROVE TypeOK'
  BY <1>5, TypeRemoves DEF DeletePackage, deleteVars, TypeOK
<1>6. QED
  BY <1>1, <1>2, <1>3, <1>4, <1>5

LEMMA TypeStep == TypeOK /\ Named /\ [Next]_vars => TypeOK'
<1>1. CASE UNCHANGED vars
  BY <1>1 DEF vars, folderVars, packageVars, chatVars, deleteVars, TypeOK
<1>2. QED
  BY <1>1, TypeFolders, TypePackages, TypeDeletions DEF Next

-----------------------------------------------------------------------------
(* Every step keeps the rest of the invariant.                             *)

\* The steps by what they do to the folders.
ChatStep ==
    \/ StartAddOperator \/ EditNew \/ SaveOther \/ EditAgain \/ Cancel \/ Restart
    \/ \E c \in Categories : StartEditOperatorName(c) \/ PickCategory(c)
    \/ \E price \in Prices : ReceivePrice(price) \/ ConfirmNew(price) \/ ReceivePriceEdit(price)
    \/ \E p \in Packages :
          \/ AddPackage(p) \/ StartEditPrice(p) \/ StartEditOther(p)
          \/ \E price \in Prices : ConfirmEdit(p, price)

FolderStep ==
    \/ \E c \in Categories : \/ PickOperatorForSub(c) \/ AddSubfolder(c)
                             \/ \E name \in Names : AddOperator(c, name)
    \/ \E name \in Names : SaveOperatorName(name)

DeleteStep ==
    \/ DeleteTree
    \/ \E c \in Categories : DeleteSubfolder(c)
    \/ \E p \in Packages : DeletePackage(p)

OtherStep ==
    \/ DeleteTreeRefused
    \/ \E c \in Categories : ReadSubfolders(c)
    \/ \E p \in Packages : Sell(p)

LEMMA StepKinds == Next => ChatStep \/ FolderStep \/ DeleteStep \/ OtherStep
BY DEF Next, ChatStep, FolderStep, DeleteStep, OtherStep

LEMMA ChatStepFrame ==
    ChatStep => /\ UNCHANGED <<parent, operator_name, sold, raced>>
                /\ dialog' # "subcategory_title"
                /\ UNCHANGED <<deleting, subs>> \/ (deleting' = Gone /\ subs' = {})
<1> DEFINE Frame == /\ UNCHANGED <<parent, operator_name, sold, raced>>
                    /\ dialog' # "subcategory_title"
                    /\ UNCHANGED <<deleting, subs>> \/ (deleting' = Gone /\ subs' = {})
<1> USE DEF folderVars, packageVars, deleteVars
<1>1. StartAddOperator \/ EditNew \/ SaveOther \/ EditAgain \/ Cancel \/ Restart => Frame
  BY DEF StartAddOperator, EditNew, SaveOther, EditAgain, Cancel, Restart, Enter, End, Clear
<1>2. ASSUME NEW c, StartEditOperatorName(c) \/ PickCategory(c) PROVE Frame
  BY <1>2 DEF StartEditOperatorName, PickCategory, Enter
<1>3. ASSUME NEW price, ReceivePrice(price) \/ ConfirmNew(price) \/ ReceivePriceEdit(price)
      PROVE  Frame
  BY <1>3 DEF ReceivePrice, ConfirmNew, ReceivePriceEdit, Clear
<1>4. ASSUME NEW p, AddPackage(p) \/ StartEditPrice(p) \/ StartEditOther(p) PROVE Frame
  BY <1>4 DEF AddPackage, StartEditPrice, StartEditOther, Enter, End, Clear
<1>5. ASSUME NEW p, NEW price, ConfirmEdit(p, price) PROVE Frame
  BY <1>5 DEF ConfirmEdit, Clear
<1>6. QED
  BY <1>1, <1>2, <1>3, <1>4, <1>5 DEF ChatStep

LEMMA RemovedParent ==
    ASSUME NEW cs, NEW ps, RemoveRows(cs, ps), NEW c \in Categories
    PROVE  /\ c \in cs /\ parent[c] # Unused => parent'[c] = Gone
           /\ c \in cs /\ parent[c] = Unused => parent'[c] = Unused
           /\ c \notin cs /\ parent[c] \in cs => parent'[c] = Root
           /\ c \notin cs /\ parent[c] \notin cs => parent'[c] = parent[c]
BY DEF RemoveRows

\* A deletion removes folders with the packages in them, none of which was sold.
LEMMA DeleteStepFrame ==
    ASSUME TypeOK, DeleteStep
    PROVE  \E cs, ps : /\ RemoveRows(cs, ps) /\ cs \subseteq Categories
                       /\ UNCHANGED <<sold, chatVars>>
                       /\ In(cs) \subseteq ps /\ ps \cap sold = {}
<1>1. CASE DeleteTree
  <2>1. subs \cup {deleting} \subseteq Categories
    BY <1>1 DEF DeleteTree, TypeOK
  <2>2. /\ RemoveRows(subs \cup {deleting}, In(subs \cup {deleting}))
        /\ In(subs \cup {deleting}) \cap sold = {} /\ UNCHANGED <<sold, chatVars>>
    BY <1>1 DEF DeleteTree, RemoveFolders
  <2>3. QED
    BY <2>1, <2>2
<1>2. ASSUME NEW c \in Categories, DeleteSubfolder(c)
      PROVE  \E cs, ps : /\ RemoveRows(cs, ps) /\ cs \subseteq Categories
                         /\ UNCHANGED <<sold, chatVars>>
                         /\ In(cs) \subseteq ps /\ ps \cap sold = {}
  BY <1>2 DEF DeleteSubfolder, RemoveFolders
<1>3. ASSUME NEW p \in Packages, DeletePackage(p)
      PROVE  \E cs, ps : /\ RemoveRows(cs, ps) /\ cs \subseteq Categories
                         /\ UNCHANGED <<sold, chatVars>>
                         /\ In(cs) \subseteq ps /\ ps \cap sold = {}
  <2>1. In({}) = {} /\ RemoveRows({}, {p}) /\ {p} \cap sold = {}
    BY <1>3 DEF DeletePackage, In
  <2>2. QED
    BY <1>3, <2>1 DEF DeletePackage
<1>4. QED
  BY <1>1, <1>2, <1>3 DEF DeleteStep

LEMMA OtherStepFrame ==
    OtherStep => UNCHANGED <<parent, operator_name, category_id, sale_price, chatVars, raced>>
BY DEF OtherStep, DeleteTreeRefused, ReadSubfolders, Sell, folderVars, packageVars, deleteVars

\* The folders that are left were there before.
LEMMA KeptFolders ==
    ASSUME NEW cs, NEW ps, RemoveRows(cs, ps), cs \subseteq Categories,
           NEW c \in Categories, HasFolder(c)'
    PROVE  HasFolder(c) /\ c \notin cs
BY RemovedParent, Marks DEF HasFolder

LEMMA NamedStep == TypeOK /\ Named /\ Next => Named'
<1> SUFFICES ASSUME TypeOK, Named, Next PROVE Named'
  OBVIOUS
<1>1. CASE ChatStep
  BY <1>1, ChatStepFrame DEF Named, HasFolder
<1>2. CASE OtherStep
  BY <1>2, OtherStepFrame DEF Named, HasFolder, chatVars
<1>3. CASE DeleteStep
  <2>1. PICK cs, ps : RemoveRows(cs, ps) /\ UNCHANGED chatVars /\ cs \subseteq Categories
    BY <1>3, DeleteStepFrame
  <2>2. ASSUME NEW c \in Categories, HasFolder(c)' PROVE HasFolder(c) /\ c \notin cs
    BY <2>1, <2>2, KeptFolders
  <2>3. QED
    BY <2>1, <2>2 DEF Named, RemoveRows, chatVars
<1>4. ASSUME NEW c \in Categories, PickOperatorForSub(c) PROVE Named'
  <2>1. operator_name[c] \in Names
    BY <1>4, Marks DEF PickOperatorForSub, Named, HasFolder
  <2>2. data'.name = operator_name[c]
    BY <1>4 DEF PickOperatorForSub, TypeOK, Data
  <2>3. QED
    BY <1>4, <2>1, <2>2 DEF PickOperatorForSub, Named, HasFolder, folderVars
<1>5. ASSUME NEW c \in Categories, AddSubfolder(c) PROVE Named'
  BY <1>5, Marks DEF AddSubfolder, End, Clear, Named, HasFolder, TypeOK
<1>6. ASSUME NEW c \in Categories, NEW name \in Names, AddOperator(c, name) PROVE Named'
  BY <1>6 DEF AddOperator, End, Clear, Named, HasFolder, TypeOK
<1>7. ASSUME NEW name \in Names, SaveOperatorName(name) PROVE Named'
  BY <1>7 DEF SaveOperatorName, End, Clear, Named, HasFolder, TypeOK
<1>8. QED
  BY <1>1, <1>2, <1>3, <1>4, <1>5, <1>6, <1>7, StepKinds DEF FolderStep

LEMMA FoldersGrow ==
    ASSUME TypeOK, ChatStep \/ FolderStep \/ OtherStep, NEW c, HasFolder(c)
    PROVE  HasFolder(c)'
<1>1. CASE ChatStep \/ OtherStep
  BY <1>1, ChatStepFrame, OtherStepFrame DEF HasFolder
<1>2. ASSUME NEW d \in Categories, NEW x, parent[d] = Unused, x \notin {Gone, Unused},
             parent' = [parent EXCEPT ![d] = x]
      PROVE  HasFolder(c)'
  BY <1>2 DEF HasFolder, TypeOK
<1>3. ASSUME NEW d \in Categories,
             AddSubfolder(d) \/ \E name \in Names : AddOperator(d, name)
      PROVE  HasFolder(c)'
  BY <1>2, <1>3, Marks DEF AddSubfolder, AddOperator, HasFolder
<1>4. CASE UNCHANGED parent
  BY <1>4 DEF HasFolder
<1>5. QED
  BY <1>1, <1>3, <1>4 DEF FolderStep, PickOperatorForSub, SaveOperatorName, folderVars

\* Only a new package gets a folder, only a deletion takes one away.
LEMMA PackagesKept ==
    ASSUME TypeOK, ChatStep \/ FolderStep \/ OtherStep, NEW p \in Packages
    PROVE  \/ category_id'[p] = category_id[p]
           \/ /\ category_id[p] = Unused
              /\ AddPackage(p) /\ category_id'[p] = data.category /\ HasFolder(data.category)
<1>1. ASSUME NEW q \in Packages, AddPackage(q)
      PROVE  \/ category_id'[p] = category_id[p]
             \/ /\ category_id[p] = Unused
                /\ AddPackage(p) /\ category_id'[p] = data.category /\ HasFolder(data.category)
  BY <1>1 DEF AddPackage, TypeOK
<1>2. CASE UNCHANGED category_id
  BY <1>2
<1>3. QED
  BY <1>1, <1>2 DEF ChatStep, FolderStep, OtherStep,
       StartAddOperator, EditNew, SaveOther, EditAgain, Cancel, Restart,
       StartEditOperatorName, PickCategory, ReceivePrice, ConfirmNew, ReceivePriceEdit,
       StartEditPrice, StartEditOther, ConfirmEdit, PickOperatorForSub, AddSubfolder,
       AddOperator, SaveOperatorName, DeleteTreeRefused, ReadSubfolders, Sell, packageVars

LEMMA NoFloatingStep == TypeOK /\ NoFloatingPackage /\ Next => NoFloatingPackage'
<1> SUFFICES ASSUME TypeOK, NoFloatingPackage, Next,
                    NEW p \in Packages, HasPackage(p)'
             PROVE  HasFolder(category_id[p])'
  BY DEF NoFloatingPackage
<1>1. CASE ChatStep \/ FolderStep \/ OtherStep
  <2>1. HasFolder(category_id'[p])
    BY <1>1, PackagesKept DEF NoFloatingPackage, HasPackage
  <2>2. QED
    BY <1>1, <2>1, FoldersGrow DEF HasFolder
<1>2. CASE DeleteStep
  <2>1. PICK cs, ps : RemoveRows(cs, ps) /\ In(cs) \subseteq ps
    BY <1>2, DeleteStepFrame
  <2>2. p \notin ps /\ category_id'[p] = category_id[p]
    BY <2>1 DEF RemoveRows, HasPackage
  <2>3. category_id[p] \notin cs /\ HasFolder(category_id[p])
    BY <2>1, <2>2 DEF In, HasPackage, NoFloatingPackage
  <2>4. QED
    BY <2>1, <2>2, <2>3, Marks DEF RemoveRows, HasFolder
<1>3. QED
  BY <1>1, <1>2, StepKinds

LEMMA SoldStep ==
    ASSUME TypeOK, SoldIsThere, Next
    PROVE  SoldIsThere' /\ \A p \in sold : category_id'[p] = category_id[p]
<1>0. sold \subseteq Packages
  BY DEF TypeOK
<1>1. ASSUME NEW p \in sold PROVE category_id'[p] = category_id[p]
  <2>1. CASE ChatStep \/ FolderStep \/ OtherStep
    BY <1>0, <2>1, PackagesKept DEF SoldIsThere, HasPackage
  <2>2. CASE DeleteStep
    <3>1. PICK cs, ps : RemoveRows(cs, ps) /\ ps \cap sold = {}
      BY <2>2, DeleteStepFrame
    <3>2. QED
      BY <1>0, <3>1 DEF RemoveRows
  <2>3. QED
    BY <2>1, <2>2, StepKinds
<1>2. ASSUME NEW p \in sold', p \notin sold PROVE HasPackage(p)'
  <2>1. Sell(p) /\ p \in Packages
    <3>1. ~DeleteStep
      BY <1>2, DeleteStepFrame
    <3>2. ~ChatStep
      BY <1>2, ChatStepFrame
    <3>3. ~FolderStep
      BY <1>2 DEF FolderStep, PickOperatorForSub, AddSubfolder, AddOperator,
                  SaveOperatorName, packageVars
    <3>4. QED
      BY <1>0, <1>2, <3>1, <3>2, <3>3, StepKinds
         DEF OtherStep, DeleteTreeRefused, ReadSubfolders, Sell, packageVars, HasPackage
  <2>2. QED
    BY <2>1 DEF Sell, HasPackage
<1>3. QED
  BY <1>0, <1>1, <1>2 DEF SoldIsThere, HasPackage

LEMMA RacedGrows == Next => (raced => raced')
BY StepKinds, ChatStepFrame, OtherStepFrame
   DEF FolderStep, PickOperatorForSub, AddSubfolder, AddOperator, SaveOperatorName,
       DeleteStep, DeleteTree, DeleteSubfolder, DeletePackage, deleteVars

LEMMA TreeStep == TypeOK /\ Tree /\ Next => Tree'
<1> SUFFICES ASSUME TypeOK, Tree, Next, ~raced' PROVE Tree'
  BY DEF Tree
<1>r. ~raced
  BY RacedGrows
<1>c. Categories = Operators \cup Subfolders /\ \A c \in Operators : c \notin Subfolders
  BY CategoriesAssumption DEF Categories
<1>t. deleting \in Categories \cup {Gone} /\ subs \subseteq Categories
  BY DEF TypeOK
<1>1. CASE ChatStep
  BY <1>1, <1>r, ChatStepFrame DEF Tree
<1>2. ASSUME NEW c \in Categories, PickOperatorForSub(c) PROVE Tree'
  <2>1. c \in Operators
    BY <1>2, <1>r, <1>c, Marks DEF PickOperatorForSub, Tree
  <2>2. data'.folder = c
    BY <1>2 DEF PickOperatorForSub, TypeOK, Data
  <2>3. QED
    BY <1>2, <1>r, <2>1, <2>2 DEF PickOperatorForSub, Tree, folderVars, deleteVars
<1>3. ASSUME NEW c \in Categories, AddSubfolder(c) PROVE Tree'
  <2>1. /\ data.folder \in Operators /\ data.folder # deleting /\ c \in Subfolders
        /\ dialog' = "none" /\ UNCHANGED <<deleting, subs>>
    BY <1>3, <1>r DEF AddSubfolder, End, Clear, Tree
  <2>2. /\ parent'[c] = data.folder
        /\ \A x \in Categories : x # c => parent'[x] = parent[x]
    BY <1>3 DEF AddSubfolder, TypeOK
  <2>3. QED
    BY <1>r, <1>c, <2>1, <2>2 DEF Tree
<1>4. ASSUME NEW c \in Categories, NEW name \in Names, AddOperator(c, name) PROVE Tree'
  <2>1. c \in Operators /\ dialog' = "none" /\ UNCHANGED <<deleting, subs>>
    BY <1>4 DEF AddOperator, End, Clear, deleteVars
  <2>2. /\ parent'[c] = Root
        /\ \A x \in Categories : x # c => parent'[x] = parent[x]
    BY <1>4 DEF AddOperator, TypeOK
  <2>3. QED
    BY <1>r, <1>c, <1>t, <2>1, <2>2, Marks DEF Tree
<1>5. ASSUME NEW name \in Names, SaveOperatorName(name) PROVE Tree'
  BY <1>5, <1>r DEF SaveOperatorName, End, Clear, Tree, deleteVars
<1>6. ASSUME NEW cs, NEW ps, RemoveRows(cs, ps), cs \subseteq Categories, UNCHANGED chatVars,
             \A x \in Subfolders : parent[x] \in cs => x \in cs,
             (deleting' = Gone /\ subs' = {}) \/ UNCHANGED <<deleting, subs>>
      PROVE  Tree'
  <2>1. ASSUME NEW x \in Categories
        PROVE  parent'[x] = parent[x] \/ parent'[x] = Gone
    <3>1. x \in Operators => parent[x] \notin cs
      BY <1>r, <1>6, Marks DEF Tree
    <3>2. x \in cs \/ parent[x] \notin cs
      BY <1>6, <1>c, <3>1
    <3>3. QED
      BY <1>6, <3>2, RemovedParent
  <2>2. subs' \subseteq Subfolders
    BY <1>6, <1>r DEF Tree
  <2>3. deleting' # Gone => \A x \in Categories : parent'[x] = deleting' => x \in subs'
    BY <1>6, <1>r, <2>1, Marks DEF Tree
  <2>4. QED
    BY <1>6, <1>r, <1>c, <2>1, <2>2, <2>3 DEF Tree, chatVars
<1>7. CASE DeleteTree
  <2> DEFINE cs == subs \cup {deleting}
  <2>1. cs \subseteq Categories /\ RemoveRows(cs, In(cs)) /\ UNCHANGED chatVars
    BY <1>7, <1>t DEF DeleteTree, RemoveFolders
  <2>2. \A x \in Subfolders : parent[x] \in cs => x \in cs
    BY <1>7, <1>r, <1>c, <1>t, Marks DEF DeleteTree, Tree
  <2>3. deleting' = Gone /\ subs' = {}
    BY <1>7 DEF DeleteTree
  <2>4. QED
    BY <1>6, <2>1, <2>2, <2>3
<1>8. ASSUME NEW c \in Categories, DeleteSubfolder(c) PROVE Tree'
  <2>1. {c} \subseteq Categories /\ RemoveRows({c}, In({c})) /\ c \in Subfolders
    BY <1>8 DEF DeleteSubfolder, RemoveFolders
  <2>2. UNCHANGED chatVars /\ UNCHANGED <<deleting, subs>>
    BY <1>8 DEF DeleteSubfolder, deleteVars
  <2>3. \A x \in Subfolders : parent[x] \in {c} => x \in {c}
    BY <1>r, <1>c, <2>1, Marks DEF Tree
  <2>4. QED
    BY <1>6, <2>1, <2>2, <2>3
<1>9. ASSUME NEW p \in Packages, DeletePackage(p) PROVE Tree'
  <2>1. RemoveRows({}, {p}) /\ UNCHANGED chatVars /\ UNCHANGED <<deleting, subs>>
    BY <1>9 DEF DeletePackage, deleteVars
  <2>2. QED
    BY <1>6, <2>1
<1>10. ASSUME NEW c \in Categories, ReadSubfolders(c) PROVE Tree'
  <2>1. UNCHANGED <<parent, dialog, data>> /\ deleting' = c
    BY <1>10 DEF ReadSubfolders, folderVars, chatVars
  <2>2. subs' = {x \in Categories : parent[x] = c}
    BY <1>10 DEF ReadSubfolders
  <2>3. subs' \subseteq Subfolders
    BY <1>r, <1>c, <2>2, Marks DEF Tree
  <2>4. QED
    BY <1>r, <2>1, <2>2, <2>3 DEF Tree
<1>11. CASE DeleteTreeRefused
  BY <1>11, <1>r DEF DeleteTreeRefused, folderVars, chatVars, Tree
<1>12. ASSUME NEW p \in Packages, Sell(p) PROVE Tree'
  BY <1>12, <1>r DEF Sell, folderVars, chatVars, deleteVars, Tree
<1>13. QED
  BY <1>1, <1>2, <1>3, <1>4, <1>5, <1>7, <1>8, <1>9, <1>10, <1>11, <1>12, StepKinds
     DEF FolderStep, DeleteStep, OtherStep

LEMMA PriceCheckedStep == TypeOK /\ PriceChecked /\ Next => PriceChecked'
<1> SUFFICES ASSUME TypeOK, PriceChecked, Next, dialog' = "cost_price"
             PROVE  data'.confirmed \/ ~IsPriceSuspicious(data'.name, data'.price)
  BY DEF PriceChecked, IsPriceSuspicious
<1>1. CASE DeleteStep \/ OtherStep
  BY <1>1, DeleteStepFrame, OtherStepFrame DEF PriceChecked, chatVars
<1>2. ~FolderStep
  BY DEF FolderStep, PickOperatorForSub, AddSubfolder, AddOperator, SaveOperatorName,
         Enter, End, Clear
<1>3. ASSUME NEW price \in Prices, ReceivePrice(price)
      PROVE  ~IsPriceSuspicious(data'.name, data'.price)
  BY <1>3 DEF ReceivePrice, TypeOK, Data
<1>4. ASSUME NEW price \in Prices, ConfirmNew(price) PROVE data'.confirmed
  BY <1>4 DEF ConfirmNew, TypeOK, Data
<1>5. CASE ChatStep
  <2>1. ~(StartAddOperator \/ EditNew \/ SaveOther \/ EditAgain \/ Cancel \/ Restart)
    BY DEF StartAddOperator, EditNew, SaveOther, EditAgain, Cancel, Restart, Enter, End, Clear
  <2>2. ASSUME NEW c PROVE ~(StartEditOperatorName(c) \/ PickCategory(c))
    BY DEF StartEditOperatorName, PickCategory, Enter
  <2>3. ASSUME NEW price PROVE ~ReceivePriceEdit(price)
    BY DEF ReceivePriceEdit, Clear
  <2>4. ASSUME NEW p PROVE ~(AddPackage(p) \/ StartEditPrice(p) \/ StartEditOther(p))
    BY DEF AddPackage, StartEditPrice, StartEditOther, Enter, End, Clear
  <2>5. ASSUME NEW p, NEW price PROVE ~ConfirmEdit(p, price)
    BY DEF ConfirmEdit, Clear
  <2>6. QED
    BY <1>3, <1>4, <1>5, <2>1, <2>2, <2>3, <2>4, <2>5 DEF ChatStep
<1>6. QED
  BY <1>1, <1>2, <1>5, StepKinds

LEMMA CatalogStep == CatalogInv /\ [Next]_vars => CatalogInv'
<1> SUFFICES ASSUME CatalogInv, [Next]_vars PROVE CatalogInv'
  OBVIOUS
<1>1. CASE Next
  BY <1>1, TypeStep, NamedStep, TreeStep, NoFloatingStep, SoldStep, PriceCheckedStep
     DEF CatalogInv
<1>2. CASE UNCHANGED vars
  BY <1>2 DEF vars, folderVars, packageVars, chatVars, deleteVars, CatalogInv, TypeOK, Named,
              Tree, NoFloatingPackage, SoldIsThere, PriceChecked, HasFolder, HasPackage,
              IsPriceSuspicious
<1>3. QED
  BY <1>1, <1>2

-----------------------------------------------------------------------------
(* What the steps may not do.                                              *)

Confirmed(p) ==
    IF HasPackage(p) THEN <<p, sale_price'[p]>> \in pending_edit
                     ELSE data.confirmed \/ data.name # operator_name[category_id'[p]]

\* Prices are written by the end of the two dialogs, by a confirmation and, when
\* the package goes, by its deletion.
LEMMA LowPriceStep ==
    ASSUME CatalogInv, Next, NEW p \in Packages,
           sale_price'[p] # sale_price[p], category_id'[p] \in Subfolders,
           IsPriceSuspicious(operator_name[category_id'[p]], sale_price'[p])
    PROVE  Confirmed(p)
<1> USE DEF CatalogInv
<1>1. ASSUME NEW q \in Packages, AddPackage(q) PROVE Confirmed(p)
  <2>1. /\ q = p /\ category_id[p] = Unused
        /\ category_id'[p] = data.category /\ sale_price'[p] = data.price
    BY <1>1 DEF AddPackage, TypeOK
  <2>2. data.confirmed \/ ~IsPriceSuspicious(data.name, data.price)
    BY <1>1 DEF AddPackage, PriceChecked
  <2>3. QED
    BY <2>1, <2>2 DEF Confirmed, HasPackage
<1>2. ASSUME NEW price \in Prices, ReceivePriceEdit(price) PROVE Confirmed(p)
  <2>1. /\ p = data.package /\ HasPackage(p) /\ sale_price'[p] = price
        /\ ~IsPriceSuspicious(operator_name[category_id[p]], price)
        /\ category_id' = category_id
    BY <1>2 DEF ReceivePriceEdit, SetPrice, TypeOK
  <2>2. QED
    BY <2>1
<1>3. ASSUME NEW q \in Packages, NEW price \in Prices, ConfirmEdit(q, price) PROVE Confirmed(p)
  <2>1. p = q /\ HasPackage(p) /\ sale_price'[p] = price /\ <<q, price>> \in pending_edit
    BY <1>3 DEF ConfirmEdit, SetPrice, TypeOK
  <2>2. QED
    BY <2>1 DEF Confirmed
<1>4. ~DeleteStep
  <2>1. ASSUME NEW cs, NEW ps, RemoveRows(cs, ps) PROVE FALSE
    BY <2>1, Marks DEF RemoveRows, Categories
  <2>2. QED
    BY <2>1, DeleteStepFrame
<1>5. ~OtherStep
  BY OtherStepFrame
<1>6. ~FolderStep
  BY DEF FolderStep, PickOperatorForSub, AddSubfolder, AddOperator, SaveOperatorName, packageVars
<1>7. ~(StartAddOperator \/ EditNew \/ SaveOther \/ EditAgain \/ Cancel \/ Restart)
  BY DEF StartAddOperator, EditNew, SaveOther, EditAgain, Cancel, Restart, packageVars
<1>8. ASSUME NEW c PROVE ~(StartEditOperatorName(c) \/ PickCategory(c))
  BY DEF StartEditOperatorName, PickCategory, packageVars
<1>9. ASSUME NEW price PROVE ~(ReceivePrice(price) \/ ConfirmNew(price))
  BY DEF ReceivePrice, ConfirmNew, packageVars
<1>10. ASSUME NEW q PROVE ~(StartEditPrice(q) \/ StartEditOther(q))
  BY DEF StartEditPrice, StartEditOther, packageVars
<1>11. QED
  BY <1>1, <1>2, <1>3, <1>4, <1>5, <1>6, <1>7, <1>8, <1>9, <1>10, StepKinds DEF ChatStep

-----------------------------------------------------------------------------
LEMMA AlwaysCatalogInv == Spec => []CatalogInv
BY CatalogInit, CatalogStep, PTL DEF Spec

(* Rows, dialogs, tokens and the deletion that goes on keep their types.   *)
THEOREM CatalogTypeOK == Spec => []TypeOK
<1>1. CatalogInv => TypeOK
  BY DEF CatalogInv
<1>2. QED
  BY <1>1, AlwaysCatalogInv, PTL

(* _delete_operator_tree leaves a subfolder without its operator only when *)
(* one was added between its SELECT and its DELETEs.                       *)
THEOREM CatalogOrphanOnlyByRace == Spec => []OrphanOnlyByRace
<1>1. CatalogInv => OrphanOnlyByRace
  BY Marks DEF CatalogInv, Tree, OrphanOnlyByRace, Categories
<1>2. QED
  BY <1>1, AlwaysCatalogInv, PTL

(* The foreign key and the deletions of trees together: no package is left *)
(* in a folder that is gone.                                               *)
THEOREM CatalogNoFloatingPackage == Spec => []NoFloatingPackage
<1>1. CatalogInv => NoFloatingPackage
  BY DEF CatalogInv
<1>2. QED
  BY <1>1, AlwaysCatalogInv, PTL

(* A deletion that meets a package with an order does nothing at all.      *)
THEOREM CatalogSoldStays == Spec => SoldStays
<1>1. CatalogInv /\ [Next]_vars => [\A p \in sold : category_id'[p] = category_id[p]]_vars
  BY SoldStep DEF CatalogInv
<1>2. QED
  BY <1>1, AlwaysCatalogInv, PTL DEF Spec, SoldStays

(* receive_price, receive_package_price_edit and the buttons of their      *)
(* warnings save a price under the floor only when it was confirmed.       *)
THEOREM CatalogLowPriceWasConfirmed == Spec => LowPriceWasConfirmed
<1>1. CatalogInv /\ [Next]_vars =>
        [\A p \in Packages :
            /\ sale_price'[p] # sale_price[p] /\ category_id'[p] \in Subfolders
            /\ IsPriceSuspicious(operator_name[category_id'[p]], sale_price'[p])
            => IF HasPackage(p)
               THEN <<p, sale_price'[p]>> \in pending_edit
               ELSE data.confirmed \/ data.name # operator_name[category_id'[p]]]_vars
  BY LowPriceStep DEF Confirmed
<1>2. QED
  BY <1>1, AlwaysCatalogInv, PTL DEF Spec, LowPriceWasConfirmed
=============================================================================
