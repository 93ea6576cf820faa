------------------------------ MODULE Catalogue ------------------------------
(***************************************************************************)
(* The catalogue (internal/modules/products, its back office in            *)
(* internal/http/handlers/admin/products.go), the storage of its pictures  *)
(* (internal/storage) and the wishlist.  Most requests of the back office  *)
(* are one statement.  Three are not, and are errands here: a form that    *)
(* shows a variant and is posted later, a picture that is stored and then  *)
(* entered in the database, and one that is deleted from both.             *)
(***************************************************************************)
EXTENDS Pricing, SequencesExt

CONSTANTS
  Products,
  ProductOf,     \* the product of each variant
  InitialStock,  \* bound: the stock at the start, 0 for a variant to come
  PriceChoices,  \* bound: the prices a variant may have
  Supply,        \* bound: the stock of a new variant, and what a form adds
  Errands,       \* requests of several steps; each also names the file and
                 \* the row of the picture it uploads
  Links,         \* rows of pictures that are entered by their address
  OldImage,      \* a picture uploaded long ago: its file and its row
  NoFile,        \* a picture that is elsewhere on the web
  NoImage, Gone, \* a row that has not been, and one that is no more
  Nothing,
  Scenarios      \* bounds: how a behaviour starts and how much may happen in it

Keys == Errands \cup {OldImage}
Rows == Keys \cup Links

ProductRows == [Products -> [status : {"new", "active", "hidden", "gone"},
                             named : BOOLEAN, born : Nat]]

ASSUME CatalogueAssumption ==
  /\ IsFiniteSet(Products) /\ ProductOf \in [Variants -> Products]
  /\ InitialStock \in [Variants -> Nat] /\ Supply \subseteq Nat
  /\ PriceChoices \in [Variants -> (SUBSET (Nat \ {0})) \ {{}}]
  /\ OldImage \notin Errands /\ Links \cap Keys = {} /\ NoFile \notin Keys
  /\ {NoImage, Gone} \cap [product : Products, file : Keys \cup {NoFile}] = {}
  /\ NoImage # Gone
  /\ Scenarios \subseteq
       [products : ProductRows, wished : Seq(Products), driver : {"local", "s3"},
        requests : Nat, errands : Nat, walks : Nat, lost : Nat, market : Nat, office : Nat]

(* The rows of the start refer to rows that are there, and the wishlist    *)
(* keeps its unique index.                                                 *)
ASSUME ScenarioAssumption ==
  \A s \in Scenarios :
    LET there == {p \in Products : s.products[p].status \in {"active", "hidden"}}
    IN  /\ there # {}
        /\ s.wished \in Seq(there) /\ IsInjective(s.wished)
        /\ \A v \in Variants : InitialStock[v] > 0 => ProductOf[v] \in there

VARIABLES
  product,      \* rows of products: status, whether the name fits the
                \* search text, and the time of creation
  variant,      \* rows of product_variants: status, price, stock
  image,        \* rows of product_images
  files,        \* the keys of the stored files
  wished,       \* the wishlist of the account, the last addition first
  errand,
  due,          \* history: the stock as it should be
  overwritten,  \* history: variants whose stock a stale form has written
  spoiled,      \* history: files that lost one of their halves
  limit,        \* the scenario: STORAGE_DRIVER and the bounds
  used          \* how much of them is used up

officeVars == <<product, variant, image, files, wished, errand,
                due, overwritten, spoiled, limit>>
-----------------------------------------------------------------------------
Listable == {p \in Products : product[p].status \in {"active", "hidden"}}
Sold == {v \in Variants : variant[v].status = "there"}
VariantsOf(p) == {v \in Sold : ProductOf[v] = p}
IsRow(i) == image[i] \notin {NoImage, Gone}
RowsOf(k) == {i \in Rows : IsRow(i) /\ image[i].file = k}

NewErrand == [pc |-> "idle", at |-> Nothing, file |-> NoFile, seen |-> 0]

CatalogueTypeOK ==
  /\ product \in ProductRows
  /\ variant \in [Variants -> [status : {"new", "there", "gone"}, price : Nat, stock : Nat]]
  /\ \A v \in Sold : variant[v].price \in PriceChoices[v] /\ ProductOf[v] \in Listable
  /\ image \in [Rows -> {NoImage, Gone} \cup [product : Listable, file : Keys \cup {NoFile}]]
  /\ files \subseteq Keys
  /\ wished \in Seq(Listable) /\ IsInjective(wished)
  /\ errand \in [Errands ->
       [pc : {"idle", "form", "insert", "undo", "unlink", "drop", "done"},
        at : Products \cup Variants \cup Rows \cup {Nothing},
        file : Keys \cup {NoFile}, seen : Nat]]
  /\ due \in [Variants -> Int]
  /\ overwritten \subseteq Variants /\ spoiled \subseteq Keys
  /\ limit \in Scenarios
  /\ used \in [lost : 0 .. limit.lost, market : 0 .. limit.market, office : 0 .. limit.office]

CatalogueInit ==
  /\ limit \in Scenarios
  /\ product = limit.products
  /\ variant = [v \in Variants |->
       [status |-> IF InitialStock[v] > 0 THEN "there" ELSE "new",
        price  |-> CHOOSE n \in PriceChoices[v] : \A m \in PriceChoices[v] : n <= m,
        stock  |-> InitialStock[v]]]
  /\ image = [i \in Rows |->
       IF i = OldImage THEN [product |-> CHOOSE p \in Listable : TRUE, file |-> OldImage]
       ELSE NoImage]
  /\ files = {OldImage}
  /\ wished = limit.wished
  /\ errand = [e \in Errands |-> NewErrand]
  /\ due = InitialStock
  /\ overwritten = {} /\ spoiled = {}
  /\ used = [lost |-> 0, market |-> 0, office |-> 0]

Spend(what) == used[what] < limit[what] /\ used' = [used EXCEPT ![what] = @ + 1]
-----------------------------------------------------------------------------
(* The statements of products/repo.go.                                     *)
UpdateRow(p, status, named) == [product EXCEPT ![p].status = status, ![p].named = named]
NewVariant(v, price, stock) ==
  [variant EXCEPT ![v] = [status |-> "there", price |-> price, stock |-> stock]]
SetVariant(v, price, stock) == [variant EXCEPT ![v].price = price, ![v].stock = stock]
WithoutVariants(gone) ==
  [v \in Variants |-> IF v \in gone THEN [variant[v] EXCEPT !.status = "gone"] ELSE variant[v]]
NewImage(i, p, file) == [image EXCEPT ![i] = [product |-> p, file |-> file]]
WithoutImages(gone) == [i \in Rows |-> IF i \in gone THEN Gone ELSE image[i]]
-----------------------------------------------------------------------------
(* Requests of one statement.  A duplicate slug or SKU, and a form that    *)
(* does not pass the bindings, change nothing.  Rows of one millisecond    *)
(* have one time of creation.                                              *)
Now == Max({product[p].born : p \in Products})

CreateProduct(p, status, named, time) ==
  /\ product[p].status = "new"
  /\ time \in {Now, Now + 1}
  /\ product' = [product EXCEPT ![p] = [status |-> status, named |-> named, born |-> time]]
  /\ UNCHANGED <<variant, image, files, wished, errand, due, overwritten, spoiled, limit>>

UpdateProduct(p, status, named) ==
  /\ p \in Listable
  /\ product' = UpdateRow(p, status, named)
  /\ UNCHANGED <<variant, image, files, wished, errand, due, overwritten, spoiled, limit>>

(* By the unique index there is at most one row to delete.                 *)
Unwished(p) == IF p \in Range(wished)
               THEN RemoveAt(wished, CHOOSE i \in DOMAIN wished : wished[i] = p)
               ELSE wished

(* The rows of a product go with it, unless a variant is referred to by a  *)
(* cart or an order; the files of its pictures stay.                       *)
DeleteProduct(p, referenced) ==
  /\ p \in Listable
  /\ VariantsOf(p) \cap referenced = {}
  /\ product' = [product EXCEPT ![p].status = "gone"]
  /\ variant' = WithoutVariants(VariantsOf(p))
  /\ image' = WithoutImages({i \in Rows : IsRow(i) /\ image[i].product = p})
  /\ spoiled' = spoiled \cup
       {k \in Keys : \E i \in RowsOf(k) : image[i].product = p}
  /\ wished' = Unwished(p)
  /\ UNCHANGED <<files, errand, due, overwritten, limit>>

(* To the bindings a zero is a missing field.                              *)
AddVariant(v, price, stock) ==
  /\ variant[v].status = "new" /\ ProductOf[v] \in Listable
  /\ price > 0 /\ stock > 0
  /\ variant' = NewVariant(v, price, stock)
  /\ due' = [due EXCEPT ![v] = stock]
  /\ UNCHANGED <<product, image, files, wished, errand, overwritten, spoiled, limit>>

DeleteVariant(v, referenced) ==
  /\ v \in Sold \ referenced
  /\ variant' = WithoutVariants({v})
  /\ UNCHANGED <<product, image, files, wished, errand, due, overwritten, spoiled, limit>>

(* A picture by its address.  On disk the key of a file is the last part   *)
(* of the address, so the address of a picture of the shop makes a second  *)
(* row of its file; in a bucket the address is nobody's key.               *)
AddImage(i, p, file) ==
  /\ i \in Links /\ image[i] = NoImage /\ p \in Listable
  /\ file = NoFile \/ (limit.driver = "local" /\ file \in files /\ RowsOf(file) # {})
  /\ image' = NewImage(i, p, file)
  /\ UNCHANGED <<product, variant, files, wished, errand, due, overwritten, spoiled, limit>>

(* Adding twice meets the unique index, whose error is ignored.            *)
AddWish(p) ==
  /\ p \in Listable
  /\ wished' = IF p \in Range(wished) THEN wished ELSE <<p>> \o wished
  /\ UNCHANGED <<product, variant, image, files, errand, due, overwritten, spoiled, limit>>

RemoveWish(p) ==
  /\ wished' = Unwished(p)
  /\ UNCHANGED <<product, variant, image, files, errand, due, overwritten, spoiled, limit>>
-----------------------------------------------------------------------------
Begin(e, pc, at, file, seen) ==
  /\ errand[e].pc = "idle"
  /\ Cardinality({d \in Errands : errand[d].pc # "idle"}) < limit.errands
  /\ errand' = [errand EXCEPT ![e] = [pc |-> pc, at |-> at, file |-> file, seen |-> seen]]

Go(e, pc) == errand' = [errand EXCEPT ![e] =
  IF pc = "done" THEN [NewErrand EXCEPT !.pc = "done"] ELSE [@ EXCEPT !.pc = pc]]

(* The form shows the stock and the price; what is posted is what it has   *)
(* shown, with n units added, and overwrites the row.                      *)
EditForm(e, v) ==
  /\ v \in Sold
  /\ Begin(e, "form", v, NoFile, variant[v].stock)
  /\ UNCHANGED <<product, variant, image, files, wished, due, overwritten, spoiled, limit, used>>

UpdateVariant(e, price, n) ==
  LET q == errand[e]
      v == q.at
  IN  /\ q.pc = "form"
      /\ Go(e, "done")
      /\ IF v \in Sold /\ q.seen + n > 0
         THEN /\ variant' = SetVariant(v, price, q.seen + n)
              /\ due' = [due EXCEPT ![v] = @ + n]
              /\ overwritten' = IF variant[v].stock = q.seen THEN overwritten
                                ELSE overwritten \cup {v}
         ELSE UNCHANGED <<variant, due, overwritten>>
      /\ UNCHANGED <<product, image, files, wished, spoiled, limit, used>>

(* UploadImage: Store.Put under a new key ...                              *)
PutFile(e, p) ==
  /\ p \in Listable
  /\ Begin(e, "insert", p, e, 0)
  /\ files' = files \cup {e}
  /\ UNCHANGED <<product, variant, image, wished, due, overwritten, spoiled, limit, used>>

(* ... then the row ...                                                    *)
InsertImage(e) ==
  LET q == errand[e]
  IN  /\ q.pc = "insert"
      /\ q.at \in Listable
      /\ image' = NewImage(e, q.at, q.file)
      /\ Go(e, "done")
      /\ UNCHANGED <<product, variant, files, wished, due, overwritten, spoiled, limit, used>>

(* A faulty NoRow: the file of a row that cannot be inserted is left.      *)
NoRowNoUndo(e) ==
  LET q == errand[e]
  IN  /\ q.pc = "insert"
      /\ IF q.at \in Listable THEN Spend("lost") ELSE UNCHANGED used
      /\ Go(e, "done")
      /\ UNCHANGED <<product, variant, image, files, wished, due, overwritten, spoiled, limit>>

(* ... or, if the product is gone or the insert fails, the file is deleted *)
(* again.                                                                  *)
NoRow(e) ==
  LET q == errand[e]
  IN  /\ q.pc = "insert"
      /\ IF q.at \in Listable THEN Spend("lost") ELSE UNCHANGED used
      /\ Go(e, "undo")
      /\ UNCHANGED <<product, variant, image, files, wished, due, overwritten, spoiled, limit>>

UndoPut(e) ==
  /\ errand[e].pc = "undo"
  /\ files' = files \ {errand[e].file}
  /\ Go(e, "done")
  /\ UNCHANGED <<product, variant, image, wished, due, overwritten, spoiled, limit, used>>

(* DeleteImage: the row is read ...                                        *)
GetImage(e, i) ==
  /\ IsRow(i)
  /\ Begin(e, "unlink", i, image[i].file, 0)
  /\ UNCHANGED <<product, variant, image, files, wished, due, overwritten, spoiled, limit, used>>

(* ... the file is deleted, which is an error when it is not there, except *)
(* in a bucket ...                                                         *)
DeleteWorks(file) == file \in files \/ limit.driver = "s3"

DeleteFile(e) ==
  LET q == errand[e]
  IN  /\ q.pc = "unlink"
      /\ Go(e, IF DeleteWorks(q.file) THEN "drop" ELSE "done")
      /\ files' = files \ {q.file}
      /\ spoiled' = IF RowsOf(q.file) \subseteq {q.at} THEN spoiled
                    ELSE spoiled \cup ({q.file} \cap Keys)
      /\ UNCHANGED <<product, variant, image, wished, due, overwritten, limit, used>>

(* ... and then the row.                                                   *)
DeleteImage(e) ==
  LET q == errand[e]
  IN  /\ q.pc = "drop"
      /\ image' = WithoutImages({q.at})
      /\ Go(e, "done")
      /\ UNCHANGED <<product, variant, files, wished, due, overwritten, spoiled, limit, used>>

(* The process stops, or the storage or the database answers with an       *)
(* error: half a file is left by Put, a file that was to be undone stays,  *)
(* a row outlives its file.                                                *)
GiveUp(e) ==
  LET q == errand[e]
  IN  /\ q.pc \in {"insert", "undo", "unlink", "drop"}
      /\ spoiled' = IF q.pc = "unlink" THEN spoiled ELSE spoiled \cup ({q.file} \cap Keys)
      /\ Go(e, "done")
      /\ Spend("lost")
      /\ UNCHANGED <<product, variant, image, files, wished, due, overwritten, limit>>
-----------------------------------------------------------------------------
RunErrand(e) ==
  \/ \E v \in Variants : EditForm(e, v)
  \/ \E v \in Variants, n \in Supply \cup {0} :
       errand[e].at = v /\ \E price \in PriceChoices[v] : UpdateVariant(e, price, n)
  \/ \E p \in Products : PutFile(e, p)
  \/ \E i \in Rows : GetImage(e, i)
  \/ InsertImage(e) \/ NoRow(e) \/ UndoPut(e) \/ DeleteFile(e) \/ DeleteImage(e) \/ GiveUp(e)

Office(referenced) ==
  /\ Spend("office")
  /\ \/ \E p \in Products, status \in {"active", "hidden"}, named \in BOOLEAN :
          \/ UpdateProduct(p, status, named)
          \/ \E time \in {Now, Now + 1} : CreateProduct(p, status, named, time)
     \/ \E p \in Products : DeleteProduct(p, referenced)
     \/ \E v \in Variants, stock \in Supply :
          \E price \in PriceChoices[v] : AddVariant(v, price, stock)
     \/ \E v \in Variants : DeleteVariant(v, referenced)
     \/ \E i \in Links, p \in Products, file \in Keys \cup {NoFile} : AddImage(i, p, file)
-----------------------------------------------------------------------------
Sharing(k) == \E e \in Errands : errand[e].file = k /\ errand[e].pc \in {"insert", "undo", "drop"}

(* A stored file and its row in the database come and go together: once no *)
(* upload and no deletion is half-way, every file has a row and every      *)
(* uploaded picture its file -- unless a step failed or the process        *)
(* stopped between the two, the product was deleted over the heads of its  *)
(* files, or the file had a second row by its address.                     *)
ImagesExplained ==
  \A k \in Keys \ spoiled :
    ~ Sharing(k) => ((k \in files) <=> (RowsOf(k) # {}))
=============================================================================
