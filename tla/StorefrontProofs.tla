--------------------------- MODULE StorefrontProofs ---------------------------
(***************************************************************************)
(* Proofs about the shop that customers see (Storefront): the catalogue    *)
(* and its pictures, the carts and what becomes of their units, what an    *)
(* order charges, and the walks through the lists.                         *)
(***************************************************************************)
EXTENDS Storefront, SumLemmas, SequenceTheorems

Budget == [lost : 0 .. limit.lost, market : 0 .. limit.market, office : 0 .. limit.office]

-----------------------------------------------------------------------------
(* The lists are read only: whoever walks through them changes nothing.    *)
(* Everybody else's step is one of these.                                  *)
LEMMA StepCases ==
  ASSUME [StorefrontNext]_storefrontVars
  PROVE  \/ UNCHANGED <<cartsVars, officeVars, used>>
         \/ UNCHANGED <<cartsVars, officeVars>> /\ Spend("office")
         \/ CartsStep
         \/ UNCHANGED cartsVars /\ \E e \in Errands : RunErrand(e)
         \/ UNCHANGED cartsVars /\ Office(Referenced)
         \/ UNCHANGED cartsVars /\ Wish
<1>1. ASSUME NEW k \in Walks, Browse(k), UNCHANGED cartsVars
      PROVE  UNCHANGED <<cartsVars, officeVars, used>>
  BY <1>1 DEF Browse, FilterForm, StatusForm, Visit, CountRows, FetchOrders, FetchIds,
     LoadRows, LoadPanics, LoadFacets, ReadWishes, ShowWishes, ShowWishPage, Step
<1>2. ASSUME OrdersMove PROVE UNCHANGED officeVars /\ Spend("office")
  BY <1>2 DEF OrdersMove, OrderMoves, OrderArrives
<1>3. ASSUME UNCHANGED storefrontVars PROVE UNCHANGED <<cartsVars, officeVars, used>>
  BY <1>3 DEF storefrontVars
<1>4. QED
  BY <1>1, <1>2, <1>3 DEF StorefrontNext

LEMMA Spent ==
  ASSUME limit \in Scenarios, used \in Budget, limit' = limit,
         \/ UNCHANGED used
         \/ \E what \in {"lost", "market", "office"} : Spend(what)
  PROVE  used' \in Budget'
<1>1. limit.lost \in Nat /\ limit.market \in Nat /\ limit.office \in Nat
  BY CatalogueAssumption
<1>2. CASE UNCHANGED used
  BY <1>2 DEF Budget
<1>3. ASSUME Spend("lost") PROVE used' \in Budget'
  BY <1>1, <1>3 DEF Budget, Spend
<1>4. ASSUME Spend("market") PROVE used' \in Budget'
  BY <1>1, <1>4 DEF Budget, Spend
<1>5. ASSUME Spend("office") PROVE used' \in Budget'
  BY <1>1, <1>5 DEF Budget, Spend
<1>6. QED
  BY <1>2, <1>3, <1>4, <1>5

(* What a step that leaves the rows alone leaves typed.                    *)
LEMMA RowsStay ==
  ASSUME CatalogueTypeOK, UNCHANGED officeVars, used' \in Budget'
  PROVE  CatalogueTypeOK'
  BY DEF CatalogueTypeOK, officeVars, Budget, Sold, Listable, IsRow
-----------------------------------------------------------------------------
(* The wishlist.  Its rows are unique, so that one deletion is all.        *)
LEMMA FrontWish ==
  ASSUME NEW S, NEW s \in Seq(S), IsInjective(s), NEW p \in S, p \notin Range(s)
  PROVE  <<p>> \o s \in Seq(S) /\ IsInjective(<<p>> \o s)
<1>1. <<p>> \in Seq(S) /\ Len(<<p>>) = 1 /\ <<p>>[1] = p
  OBVIOUS
<1> DEFINE t == <<p>> \o s
<1>2. /\ t \in Seq(S) /\ Len(t) = 1 + Len(s)
      /\ \A i \in 1 .. 1 + Len(s) : t[i] = IF i <= 1 THEN <<p>>[i] ELSE s[i - 1]
  BY <1>1, ConcatProperties
<1>3. Len(s) \in Nat /\ DOMAIN s = 1 .. Len(s) /\ DOMAIN t = 1 .. Len(t)
  BY <1>2, LenProperties
<1> HIDE DEF t
<1>4. \A i \in 1 .. Len(s) : s[i] # p
  BY <1>3 DEF Range
<1>5. ASSUME NEW i \in DOMAIN t, NEW j \in DOMAIN t, t[i] = t[j] PROVE i = j
  <2>1. /\ t[1] = p
        /\ \A k \in 2 .. Len(t) : k - 1 \in 1 .. Len(s) /\ t[k] = s[k - 1]
    BY <1>1, <1>2, <1>3
  <2>2. CASE i = 1 \/ j = 1
    BY <1>2, <1>3, <1>4, <1>5, <2>1, <2>2
  <2>3. CASE i # 1 /\ j # 1
    <3>1. i \in 2 .. Len(t) /\ j \in 2 .. Len(t)
      BY <1>2, <1>3, <2>3
    <3>2. i - 1 = j - 1
      BY <1>3, <1>5, <2>1, <3>1 DEF IsInjective
    <3>3. QED
      BY <1>2, <1>3, <3>1, <3>2
  <2>4. QED
    BY <2>2, <2>3
<1>6. t \in Seq(S) /\ IsInjective(t)
  BY <1>2, <1>5 DEF IsInjective
<1>7. QED
  BY <1>6 DEF t

LEMMA WithoutWish ==
  ASSUME NEW S, NEW s \in Seq(S), IsInjective(s), NEW i \in DOMAIN s
  PROVE  RemoveAt(s, i) \in Seq(S \ {s[i]}) /\ IsInjective(RemoveAt(s, i))
<1>1. Len(s) \in Nat /\ DOMAIN s = 1 .. Len(s) /\ \A j \in 1 .. Len(s) : s[j] \in S
  BY LenProperties
<1> DEFINE a == SubSeq(s, 1, i - 1)
           b == SubSeq(s, i + 1, Len(s))
           t == a \o b
<1>2. \A j \in 1 .. Len(s) : j # i => s[j] \in S \ {s[i]}
  BY <1>1 DEF IsInjective
<1>3. /\ a \in Seq(S \ {s[i]}) /\ Len(a) = i - 1
      /\ \A j \in 1 .. i - 1 : a[j] = s[j]
  <2>1. \A j \in 1 .. i - 1 : s[j] \in S \ {s[i]}
    BY <1>1, <1>2
  <2>2. /\ a \in Seq(S \ {s[i]})
        /\ Len(a) = IF 1 <= i - 1 THEN (i - 1) - 1 + 1 ELSE 0
        /\ \A j \in 1 .. (i - 1) - 1 + 1 : a[j] = s[1 + j - 1]
    BY <1>1, <2>1, SubSeqProperties
  <2> HIDE DEF a
  <2>3. QED
    BY <1>1, <2>2
<1>4. /\ b \in Seq(S \ {s[i]}) /\ Len(b) = Len(s) - i
      /\ \A j \in 1 .. Len(s) - i : b[j] = s[i + j]
  <2>1. \A j \in i + 1 .. Len(s) : s[j] \in S \ {s[i]}
    BY <1>1, <1>2
  <2>2. /\ b \in Seq(S \ {s[i]})
        /\ Len(b) = IF i + 1 <= Len(s) THEN Len(s) - (i + 1) + 1 ELSE 0
        /\ \A j \in 1 .. Len(s) - (i + 1) + 1 : b[j] = s[(i + 1) + j - 1]
    BY <1>1, <2>1, SubSeqProperties
  <2> HIDE DEF b
  <2>3. Len(b) = Len(s) - i /\ Len(s) - (i + 1) + 1 = Len(s) - i
    BY <1>1, <2>2
  <2>4. ASSUME NEW j \in 1 .. Len(s) - i PROVE b[j] = s[i + j]
    <3>1. (i + 1) + j - 1 = i + j
      BY <1>1
    <3>2. QED
      BY <2>2, <2>3, <3>1
  <2>5. QED
    BY <2>2, <2>3, <2>4
<1> HIDE DEF a, b
<1>5. /\ t \in Seq(S \ {s[i]}) /\ Len(t) = Len(s) - 1
      /\ \A j \in 1 .. Len(s) - 1 : t[j] = IF j <= i - 1 THEN a[j] ELSE b[j - (i - 1)]
  <2>1. Len(a) + Len(b) = Len(s) - 1
    BY <1>1, <1>3, <1>4
  <2>2. /\ t \in Seq(S \ {s[i]}) /\ Len(t) = Len(a) + Len(b)
        /\ \A j \in 1 .. Len(a) + Len(b) : t[j] = IF j <= Len(a) THEN a[j] ELSE b[j - Len(a)]
    BY <1>3, <1>4, ConcatProperties
  <2> HIDE DEF t
  <2>3. QED
    BY <1>3, <2>1, <2>2
<1> HIDE DEF t
<1>6. ASSUME NEW j \in 1 .. Len(s) - 1
      PROVE  t[j] = s[IF j < i THEN j ELSE j + 1]
  <2>1. CASE j < i
    BY <1>1, <1>3, <1>5, <2>1
  <2>2. CASE ~ (j < i)
    <3>1. j - (i - 1) \in 1 .. Len(s) - i /\ i + (j - (i - 1)) = j + 1
      BY <1>1, <2>2
    <3>2. ~ (j <= i - 1)
      BY <1>1, <2>2
    <3>3. t[j] = b[j - (i - 1)]
      BY <1>5, <3>2
    <3>4. QED
      BY <1>4, <2>2, <3>1, <3>3
  <2>3. QED
    BY <2>1, <2>2
<1>7. DOMAIN t = 1 .. Len(s) - 1
  BY <1>5, LenProperties
<1>8. ASSUME NEW j \in DOMAIN t, NEW k \in DOMAIN t, t[j] = t[k] PROVE j = k
  BY <1>1, <1>6, <1>7, <1>8 DEF IsInjective
<1>9. RemoveAt(s, i) = t
  BY DEF RemoveAt, t, a, b
<1>10. QED
  BY <1>5, <1>8, <1>9 DEF IsInjective
-----------------------------------------------------------------------------
(* The catalogue keeps its types, whatever the back office does.           *)
ErrandType == [pc : {"idle", "form", "insert", "undo", "unlink", "drop", "done"},
               at : Products \cup Variants \cup Rows \cup {Nothing},
               file : Keys \cup {NoFile}, seen : Nat]
ImageType == [product : Listable, file : Keys \cup {NoFile}]

LEMMA GoTyped ==
  ASSUME errand \in [Errands -> ErrandType], NEW e \in Errands,
         NEW pc \in {"undo", "drop", "done"}, Go(e, pc)
  PROVE  errand' \in [Errands -> ErrandType]
<1>1. NewErrand \in ErrandType
  BY DEF NewErrand, ErrandType
<1>2. [NewErrand EXCEPT !.pc = "done"] \in ErrandType
  BY <1>1 DEF ErrandType
<1>3. [errand[e] EXCEPT !.pc = pc] \in ErrandType
  BY DEF ErrandType
<1>4. QED
  BY <1>2, <1>3 DEF Go

LEMMA BeginTyped ==
  ASSUME errand \in [Errands -> ErrandType], NEW e \in Errands,
         NEW pc \in {"form", "insert", "unlink"},
         NEW at \in Products \cup Variants \cup Rows, NEW file \in Keys \cup {NoFile},
         NEW seen \in Nat, Begin(e, pc, at, file, seen)
  PROVE  errand' \in [Errands -> ErrandType]
  BY DEF Begin, ErrandType

(* An errand that writes no row and starts none.                           *)
LEMMA ErrandStays ==
  ASSUME CatalogueTypeOK, UNCHANGED <<product, variant, image, wished, due, overwritten, limit>>,
         files' \subseteq files \cup Keys, spoiled' \subseteq spoiled \cup Keys,
         errand' \in [Errands -> ErrandType], used' \in Budget'
  PROVE  CatalogueTypeOK'
  BY DEF CatalogueTypeOK, Budget, Sold, Listable, ErrandType

LEMMA RunErrandTyped ==
  ASSUME CatalogueTypeOK, NEW e \in Errands, RunErrand(e)
  PROVE  CatalogueTypeOK'
<1> USE DEF Keys
<1>1. /\ errand \in [Errands -> ErrandType] /\ limit \in Scenarios /\ used \in Budget
      /\ variant \in [Variants -> [status : {"new", "there", "gone"}, price : Nat, stock : Nat]]
      /\ image \in [Rows -> {NoImage, Gone} \cup ImageType]
  BY DEF CatalogueTypeOK, ErrandType, Budget, ImageType
<1>2. ASSUME NEW v \in Variants, EditForm(e, v) PROVE CatalogueTypeOK'
  <2>1. variant[v].stock \in Nat
    BY <1>1
  <2>2. errand' \in [Errands -> ErrandType]
    BY <1>1, <1>2, <2>1, BeginTyped DEF EditForm
  <2>3. used' \in Budget'
    BY <1>1, <1>2, Spent DEF EditForm
  <2>4. QED
    BY <1>2, <2>2, <2>3, ErrandStays DEF EditForm
<1>3. ASSUME NEW v \in Variants, NEW n \in Supply \cup {0}, errand[e].at = v,
             NEW price \in PriceChoices[v], UpdateVariant(e, price, n)
      PROVE  CatalogueTypeOK'
  <2>1. errand' \in [Errands -> ErrandType]
    BY <1>1, <1>3, GoTyped DEF UpdateVariant
  <2>2. used' \in Budget' /\ limit' \in Scenarios
    BY <1>1, <1>3, Spent DEF UpdateVariant
  <2>3. n \in Nat /\ errand[e].seen \in Nat /\ price \in Nat
    BY <1>1, CatalogueAssumption DEF ErrandType
  <2>4. /\ variant' \in [Variants -> [status : {"new", "there", "gone"}, price : Nat, stock : Nat]]
        /\ Sold' = Sold /\ \A u \in Sold : variant'[u].price \in PriceChoices[u]
        /\ due' \in [Variants -> Int] /\ overwritten' \subseteq Variants
    <3>1. CASE v \in Sold /\ errand[e].seen + n > 0
      <4>1. /\ variant' = [variant EXCEPT ![v].price = price, ![v].stock = errand[e].seen + n]
            /\ due' = [due EXCEPT ![v] = @ + n] /\ overwritten' \subseteq overwritten \cup {v}
        BY <1>3, <3>1 DEF UpdateVariant, SetVariant
      <4>2. due \in [Variants -> Int] /\ overwritten \subseteq Variants
        BY DEF CatalogueTypeOK
      <4>3. due' \in [Variants -> Int] /\ overwritten' \subseteq Variants
        BY <2>3, <4>1, <4>2
      <4>4. /\ variant' \in [Variants -> [status : {"new", "there", "gone"}, price : Nat, stock : Nat]]
            /\ \A u \in Variants : /\ variant'[u].status = variant[u].status
                                   /\ u # v => variant'[u] = variant[u]
            /\ variant'[v].price = price
        <5> DEFINE level == errand[e].seen + n
                   row == [variant[v] EXCEPT !.price = price, !.stock = level]
        <5>0. /\ level \in Nat /\ price \in Nat
              /\ variant[v] \in [status : {"new", "there", "gone"}, price : Nat, stock : Nat]
          BY <1>1, <2>3
        <5>1. /\ row \in [status : {"new", "there", "gone"}, price : Nat, stock : Nat]
              /\ row.status = variant[v].status /\ row.price = price
          <6> HIDE DEF level
          <6>1. QED
            BY <5>0
        <5>2. variant' = [variant EXCEPT ![v] = row]
          BY <1>1, <4>1
        <5> HIDE DEF row
        <5>3. QED
          BY <1>1, <5>1, <5>2
      <4>5. \A u \in Sold : variant[u].price \in PriceChoices[u]
        BY DEF CatalogueTypeOK
      <4>6. Sold' = Sold
        BY <4>4 DEF Sold
      <4>7. \A u \in Sold : variant'[u].price \in PriceChoices[u]
        BY <4>4, <4>5 DEF Sold
      <4>8. QED
        BY <4>3, <4>4, <4>6, <4>7
    <3>2. CASE ~ (v \in Sold /\ errand[e].seen + n > 0)
      BY <1>1, <1>3, <3>2 DEF UpdateVariant, CatalogueTypeOK, Sold
    <3>3. QED
      BY <3>1, <3>2
  <2>5. UNCHANGED <<product, image, files, wished, spoiled, limit>>
    BY <1>3 DEF UpdateVariant
  <2>6. QED
    BY <2>1, <2>2, <2>4, <2>5 DEF CatalogueTypeOK, ErrandType, Budget, Listable
<1>4. ASSUME NEW p \in Products, PutFile(e, p) PROVE CatalogueTypeOK'
  <2>1. errand' \in [Errands -> ErrandType]
    BY <1>1, <1>4, BeginTyped DEF PutFile
  <2>2. used' \in Budget'
    BY <1>1, <1>4, Spent DEF PutFile
  <2>3. QED
    BY <1>4, <2>1, <2>2, ErrandStays DEF PutFile
<1>5. ASSUME NEW i \in Rows, GetImage(e, i) PROVE CatalogueTypeOK'
  <2>1. image[i].file \in Keys \cup {NoFile}
    BY <1>1, <1>5 DEF GetImage, IsRow, ImageType
  <2>2. errand' \in [Errands -> ErrandType]
    BY <1>1, <1>5, <2>1, BeginTyped DEF GetImage
  <2>3. used' \in Budget'
    BY <1>1, <1>5, Spent DEF GetImage
  <2>4. QED
    BY <1>5, <2>2, <2>3, ErrandStays DEF GetImage
<1>6. CASE InsertImage(e)
  <2>1. errand' \in [Errands -> ErrandType]
    BY <1>1, <1>6, GoTyped DEF InsertImage
  <2>2. used' \in Budget' /\ limit' \in Scenarios
    BY <1>1, <1>6, Spent DEF InsertImage
  <2>3. image' \in [Rows -> {NoImage, Gone} \cup ImageType]
    <3>1. [product |-> errand[e].at, file |-> errand[e].file] \in ImageType
      BY <1>1, <1>6 DEF InsertImage, ErrandType, ImageType
    <3>2. QED
      BY <1>1, <1>6, <3>1 DEF InsertImage, NewImage
  <2>4. UNCHANGED <<product, variant, files, wished, due, overwritten, spoiled, limit>>
    BY <1>6 DEF InsertImage
  <2>5. QED
    BY <2>1, <2>2, <2>3, <2>4
    DEF CatalogueTypeOK, ErrandType, Budget, ImageType, Listable, Sold
<1>7. CASE NoRow(e)
  <2>1. errand' \in [Errands -> ErrandType]
    BY <1>1, <1>7, GoTyped DEF NoRow
  <2>2. used' \in Budget'
    BY <1>1, <1>7, Spent DEF NoRow
  <2>3. QED
    BY <1>7, <2>1, <2>2, ErrandStays DEF NoRow
<1>8. CASE UndoPut(e)
  <2>1. errand' \in [Errands -> ErrandType]
    BY <1>1, <1>8, GoTyped DEF UndoPut
  <2>2. used' \in Budget'
    BY <1>1, <1>8, Spent DEF UndoPut
  <2>3. QED
    BY <1>8, <2>1, <2>2, ErrandStays DEF UndoPut
<1>9. CASE DeleteFile(e)
  <2>1. errand' \in [Errands -> ErrandType]
    BY <1>1, <1>9, GoTyped DEF DeleteFile
  <2>2. used' \in Budget'
    BY <1>1, <1>9, Spent DEF DeleteFile
  <2>3. files' \subseteq files /\ spoiled' \subseteq spoiled \cup Keys
    BY <1>9 DEF DeleteFile
  <2>4. UNCHANGED <<product, variant, image, wished, due, overwritten, limit>>
    BY <1>9 DEF DeleteFile
  <2>5. QED
    BY <2>1, <2>2, <2>3, <2>4, ErrandStays
<1>10. CASE DeleteImage(e)
  <2>1. errand' \in [Errands -> ErrandType]
    BY <1>1, <1>10, GoTyped DEF DeleteImage
  <2>2. used' \in Budget' /\ limit' \in Scenarios
    BY <1>1, <1>10, Spent DEF DeleteImage
  <2>3. image' \in [Rows -> {NoImage, Gone} \cup ImageType]
    BY <1>1, <1>10 DEF DeleteImage, WithoutImages
  <2>4. UNCHANGED <<product, variant, files, wished, due, overwritten, spoiled, limit>>
    BY <1>10 DEF DeleteImage
  <2>5. QED
    BY <2>1, <2>2, <2>3, <2>4
    DEF CatalogueTypeOK, ErrandType, Budget, ImageType, Listable, Sold
<1>11. CASE GiveUp(e)
  <2>1. errand' \in [Errands -> ErrandType]
    BY <1>1, <1>11, GoTyped DEF GiveUp
  <2>2. used' \in Budget'
    BY <1>1, <1>11, Spent DEF GiveUp
  <2>3. spoiled' \subseteq spoiled \cup Keys
    BY <1>11 DEF GiveUp
  <2>4. QED
    BY <1>11, <2>1, <2>2, <2>3, ErrandStays DEF GiveUp
<1>12. QED
  BY <1>2, <1>3, <1>4, <1>5, <1>6, <1>7, <1>8, <1>9, <1>10, <1>11 DEF RunErrand

VariantType == [status : {"new", "there", "gone"}, price : Nat, stock : Nat]

(* The latest time of creation is one.                                     *)
LEMMA NowTyped ==
  ASSUME product \in ProductRows, NEW p \in Products
  PROVE  Now \in Nat
<1> DEFINE born == [q \in Products |-> product[q].born]
<1>1. \A q \in Products : born[q] \in Nat
  BY DEF ProductRows
<1>2. PICK q \in Products : \A r \in Products : born[r] <= born[q]
  <2> HIDE DEF born
  <2>1. QED
    BY <1>1, GreatestNumber, CatalogueAssumption
<1>3. /\ product[q].born \in {product[r].born : r \in Products}
      /\ \A n \in {product[r].born : r \in Products} : product[q].born >= n
  BY <1>1, <1>2
<1>4. Now \in {product[r].born : r \in Products}
  BY <1>3 DEF Now, Max
<1>5. QED
  BY <1>1, <1>4

(* More may be listed, and what is listed stays.                           *)
LEMMA MoreListed ==
  ASSUME CatalogueTypeOK, product' \in ProductRows, Listable \subseteq Listable',
         UNCHANGED <<variant, image, files, wished, errand, due, overwritten, spoiled, limit>>,
         used' \in Budget'
  PROVE  CatalogueTypeOK'
<1>1. wished \in Seq(Listable')
  BY SeqMonotonic DEF CatalogueTypeOK
<1>2. image \in [Rows -> {NoImage, Gone} \cup [product : Listable', file : Keys \cup {NoFile}]]
  BY DEF CatalogueTypeOK
<1>3. Sold' = Sold
  BY DEF Sold
<1> HIDE DEF Listable
<1>4. QED
  BY <1>1, <1>2, <1>3 DEF CatalogueTypeOK, Budget

LEMMA OfficeTyped ==
  ASSUME CatalogueTypeOK, NEW referenced, Office(referenced)
  PROVE  CatalogueTypeOK'
<1>1. /\ product \in ProductRows /\ limit \in Scenarios /\ used \in Budget
      /\ variant \in [Variants -> VariantType]
      /\ image \in [Rows -> {NoImage, Gone} \cup ImageType]
      /\ wished \in Seq(Listable) /\ IsInjective(wished)
      /\ due \in [Variants -> Int]
      /\ \A v \in Sold : variant[v].price \in PriceChoices[v] /\ ProductOf[v] \in Listable
  BY DEF CatalogueTypeOK, VariantType, Budget, ImageType
<1>2. limit' = limit
  BY DEF Office, UpdateProduct, CreateProduct, DeleteProduct, AddVariant, DeleteVariant, AddImage
<1>3. used' \in Budget'
  BY <1>1, <1>2, Spent DEF Office
<1>4. ASSUME NEW p \in Products, NEW status \in {"active", "hidden"}, NEW named \in BOOLEAN,
             UpdateProduct(p, status, named)
      PROVE  CatalogueTypeOK'
  <2>1. product' \in ProductRows /\ Listable' = Listable
    BY <1>1, <1>4 DEF UpdateProduct, UpdateRow, ProductRows, Listable
  <2>2. QED
    BY <1>3, <1>4, <2>1, MoreListed DEF UpdateProduct
<1>5. ASSUME NEW p \in Products, NEW status \in {"active", "hidden"}, NEW named \in BOOLEAN,
             NEW time \in {Now, Now + 1}, CreateProduct(p, status, named, time)
      PROVE  CatalogueTypeOK'
  <2>1. time \in Nat
    BY <1>1, NowTyped
  <2>2. product' \in ProductRows /\ Listable \subseteq Listable'
    BY <1>1, <1>5, <2>1 DEF CreateProduct, ProductRows, Listable
  <2>3. QED
    BY <1>3, <1>5, <2>2, MoreListed DEF CreateProduct
<1>6. ASSUME NEW p \in Products, DeleteProduct(p, referenced)
      PROVE  CatalogueTypeOK'
  <2>1. product' \in ProductRows /\ Listable' = Listable \ {p}
    BY <1>1, <1>6 DEF DeleteProduct, ProductRows, Listable
  <2>2. /\ variant' \in [Variants -> VariantType]
        /\ Sold' = Sold \ VariantsOf(p)
        /\ \A v \in Sold' : variant'[v] = variant[v]
    BY <1>1, <1>6 DEF DeleteProduct, WithoutVariants, VariantType, Sold, VariantsOf
  <2>3. \A v \in Sold' : variant'[v].price \in PriceChoices[v] /\ ProductOf[v] \in Listable'
    BY <1>1, <2>1, <2>2 DEF VariantsOf
  <2>4. image' \in [Rows -> {NoImage, Gone} \cup [product : Listable', file : Keys \cup {NoFile}]]
    BY <1>1, <1>6, <2>1 DEF DeleteProduct, WithoutImages, ImageType, IsRow
  <2>5. wished' \in Seq(Listable') /\ IsInjective(wished')
    <3>1. CASE p \in Range(wished)
      <4> DEFINE i == CHOOSE j \in DOMAIN wished : wished[j] = p
      <4>1. i \in DOMAIN wished /\ wished[i] = p
        BY <3>1 DEF Range
      <4>2. wished' = RemoveAt(wished, i)
        BY <1>6, <3>1 DEF DeleteProduct, Unwished
      <4> HIDE DEF i
      <4>3. QED
        BY <1>1, <2>1, <4>1, <4>2, WithoutWish
    <3>2. CASE p \notin Range(wished)
      <4>1. \A j \in 1 .. Len(wished) : wished[j] \in Listable'
        BY <1>1, <2>1, <3>2, LenProperties DEF Range
      <4>2. wished' = wished
        BY <1>6, <3>2 DEF DeleteProduct, Unwished
      <4>3. QED
        BY <1>1, <4>1, <4>2, LenProperties, SeqDef
    <3>3. QED
      BY <3>1, <3>2
  <2>6. spoiled' \subseteq Keys
    BY <1>6 DEF DeleteProduct, CatalogueTypeOK
  <2>7. UNCHANGED <<files, errand, due, overwritten, limit>>
    BY <1>6 DEF DeleteProduct
  <2> HIDE DEF Listable, Sold
  <2>8. QED
    BY <1>3, <2>1, <2>2, <2>3, <2>4, <2>5, <2>6, <2>7
    DEF CatalogueTypeOK, Budget, VariantType
<1>7. ASSUME NEW v \in Variants, NEW stock \in Supply, NEW price \in PriceChoices[v],
             AddVariant(v, price, stock)
      PROVE  CatalogueTypeOK'
  <2>1. stock \in Nat /\ price \in Nat
    BY CatalogueAssumption
  <2>2. [status |-> "there", price |-> price, stock |-> stock] \in VariantType
    BY <2>1 DEF VariantType
  <2>3. /\ variant' \in [Variants -> VariantType]
        /\ Sold' = Sold \cup {v}
        /\ \A u \in Variants : u # v => variant'[u] = variant[u]
        /\ variant'[v].price = price
    BY <1>1, <1>7, <2>2 DEF AddVariant, NewVariant, Sold
  <2>4. UNCHANGED <<product, image, files, wished, errand, overwritten, spoiled, limit>>
    BY <1>7 DEF AddVariant
  <2>5. Listable' = Listable
    BY <2>4 DEF Listable
  <2>6. \A u \in Sold' : variant'[u].price \in PriceChoices[u] /\ ProductOf[u] \in Listable
    BY <1>1, <1>7, <2>3 DEF AddVariant, Sold
  <2>7. due' \in [Variants -> Int]
    BY <1>1, <1>7, <2>1 DEF AddVariant
  <2> HIDE DEF Listable, Sold
  <2>8. QED
    BY <1>3, <2>3, <2>4, <2>5, <2>6, <2>7 DEF CatalogueTypeOK, Budget, VariantType
<1>8. ASSUME NEW v \in Variants, DeleteVariant(v, referenced)
      PROVE  CatalogueTypeOK'
  <2>1. /\ variant' \in [Variants -> VariantType]
        /\ Sold' \subseteq Sold
        /\ \A u \in Sold' : variant'[u] = variant[u]
    BY <1>1, <1>8 DEF DeleteVariant, WithoutVariants, VariantType, Sold
  <2>2. UNCHANGED <<product, image, files, wished, errand, due, overwritten, spoiled, limit>>
    BY <1>8 DEF DeleteVariant
  <2>3. Listable' = Listable
    BY <2>2 DEF Listable
  <2> HIDE DEF Listable, Sold
  <2>4. QED
    BY <1>1, <1>3, <2>1, <2>2, <2>3 DEF CatalogueTypeOK, Budget, VariantType
<1>9. ASSUME NEW i \in Links, NEW p \in Products, NEW file \in Keys \cup {NoFile},
             AddImage(i, p, file)
      PROVE  CatalogueTypeOK'
  <2>1. [product |-> p, file |-> file] \in ImageType
    BY <1>9 DEF AddImage, ImageType
  <2>2. image' \in [Rows -> {NoImage, Gone} \cup ImageType]
    BY <1>1, <1>9, <2>1 DEF AddImage, NewImage, Rows
  <2>3. UNCHANGED <<product, variant, files, wished, errand, due, overwritten, spoiled, limit>>
    BY <1>9 DEF AddImage
  <2>4. QED
    BY <1>3, <2>2, <2>3 DEF CatalogueTypeOK, Budget, ImageType, Listable, Sold
<1>10. QED
  BY <1>4, <1>5, <1>6, <1>7, <1>8, <1>9 DEF Office

LEMMA WishTyped ==
  ASSUME CatalogueTypeOK, Wish
  PROVE  CatalogueTypeOK'
<1>1. limit \in Scenarios /\ used \in Budget /\ wished \in Seq(Listable) /\ IsInjective(wished)
  BY DEF CatalogueTypeOK, Budget
<1>2. UNCHANGED <<product, variant, image, files, errand, due, overwritten, spoiled, limit>>
  BY DEF Wish, AddWish, RemoveWish
<1>3. used' \in Budget'
  BY <1>1, <1>2, Spent DEF Wish
<1>4. wished' \in Seq(Listable) /\ IsInjective(wished')
  <2>1. ASSUME NEW p \in Products, AddWish(p)
        PROVE  wished' \in Seq(Listable) /\ IsInjective(wished')
    <3>1. p \in Listable /\ wished' = IF p \in Range(wished) THEN wished ELSE <<p>> \o wished
      BY <2>1 DEF AddWish
    <3> HIDE DEF Listable
    <3>2. QED
      BY <1>1, <3>1, FrontWish
  <2>2. ASSUME NEW p \in Products, RemoveWish(p)
        PROVE  wished' \in Seq(Listable) /\ IsInjective(wished')
    <3> DEFINE i == CHOOSE j \in DOMAIN wished : wished[j] = p
    <3>1. CASE p \in Range(wished)
      <4>1. i \in DOMAIN wished
        BY <3>1 DEF Range
      <4>2. wished' = RemoveAt(wished, i)
        BY <2>2, <3>1 DEF RemoveWish, Unwished
      <4> HIDE DEF i
      <4>3. wished' \in Seq(Listable \ {wished[i]}) /\ IsInjective(wished')
        BY <1>1, <4>1, <4>2, WithoutWish
      <4>4. QED
        BY <4>3, SeqMonotonic
    <3>2. CASE p \notin Range(wished)
      BY <1>1, <2>2, <3>2 DEF RemoveWish, Unwished
    <3>3. QED
      BY <3>1, <3>2
  <2>3. QED
    BY <2>1, <2>2 DEF Wish
<1>5. Listable' = Listable /\ Sold' = Sold
  BY <1>2 DEF Listable, Sold
<1> HIDE DEF Listable, Sold
<1>6. QED
  BY <1>2, <1>3, <1>4, <1>5 DEF CatalogueTypeOK, Budget
-----------------------------------------------------------------------------
(* The carts keep their types.  What a request is about to do follows from *)
(* what it was sent for.                                                   *)
Kinds == {"none", "add", "update", "remove", "login", "checkout", "guest", "guest checkout"}
RequestType ==
  [pc : {"idle", "page", "done"} \cup InFlight, from : Places, kind : Kinds,
   lines : Lines, todo : SUBSET Variants, at : Variants \cup {NoVariant},
   seen : Nat, cookie : Lines \cup {NoCookie}, touch : SUBSET (Places \X Variants),
   page : Sales \cup {NoSale}, bill : Sales \cup {NoSale}]

Shape(q) ==
  /\ q.pc \in {"page"} \cup InFlight => q.from \in Browsers
  /\ q.pc \in {"cart", "create"} => q.kind \in {"add", "update", "remove", "login", "checkout"}
  /\ q.pc \in {"read", "write"} => q.kind \in {"add", "login"}
  /\ q.pc = "delete" => q.kind = "remove"
  /\ q.pc = "order" => q.kind = "checkout"
  /\ q.pc = "commit" => q.kind \in {"checkout", "guest checkout"}
  /\ q.pc = "write" => q.at \in q.todo
  /\ q.pc = "page" => q.page \in Sales
  /\ q.pc \in {"page"} \cup OnServer => q.cookie = NoCookie
  /\ q.pc \in OnServer /\ q.kind \in {"checkout", "guest checkout"} => q.bill \in Sales

Requested == request \in [Requests -> RequestType] /\ \A r \in Requests : Shape(request[r])

LEMMA EmptyTyped == EmptyLines \in Lines /\ Items(EmptyLines) = {}
  BY DEF EmptyLines, Lines, Items

LEMMA ItemsTyped == \A lines : Items(lines) \subseteq Variants
  BY DEF Items

LEMMA LinesTyped ==
  ASSUME NEW lines \in Lines, NEW v \in Variants, NEW n \in Nat
  PROVE  /\ SetLine(lines, v, n) \in Lines
         /\ OneLine(v, n) \in Lines
         /\ Plus(lines, OneLine(v, n)) \in Lines
<1>1. EmptyLines \in Lines
  BY EmptyTyped
<1>2. SetLine(lines, v, n) \in Lines /\ OneLine(v, n) \in Lines
  BY <1>1 DEF Lines, SetLine, OneLine
<1>3. \A a \in Lines, b \in Lines : Plus(a, b) \in Lines
  BY DEF Lines, Plus
<1>4. QED
  BY <1>2, <1>3

LEMMA NewTyped ==
  /\ NewRequest \in RequestType /\ Shape(NewRequest)
  /\ Done \in RequestType /\ Shape(Done)
<1>1. EmptyLines \in Lines
  BY EmptyTyped
<1>2. NewRequest \in RequestType
  BY <1>1 DEF NewRequest, RequestType, Places, Kinds
<1>3. Done \in RequestType
  BY <1>2 DEF Done, RequestType
<1>4. Done.pc = "done" /\ NewRequest.pc = "idle"
  BY DEF Done, NewRequest
<1>5. QED
  BY <1>2, <1>3, <1>4 DEF Shape, InFlight, OnServer

LEMMA OneRequest ==
  ASSUME Requested, NEW r \in Requests, NEW q \in RequestType, Shape(q),
         request' = [request EXCEPT ![r] = q]
  PROVE  Requested'
<1>1. request' \in [Requests -> RequestType]
  BY DEF Requested
<1>2. \A s \in Requests : request'[s] = IF s = r THEN q ELSE request[s]
  BY DEF Requested
<1>3. \A s \in Requests : Shape(request'[s])
  BY <1>2 DEF Requested
<1>4. QED
  BY <1>1, <1>3 DEF Requested

LEMMA SendTyped ==
  ASSUME Requested, disturbed \subseteq Places \X Variants,
         NEW r \in Requests, NEW b \in Browsers, NEW lines \in Lines,
         NEW kind \in {"add", "update", "remove", "login", "guest"},
         NEW pc \in {"cart", "reply"},
         NEW touch \in SUBSET (Places \X Variants), NEW cookie \in Lines \cup {NoCookie},
         pc = "cart" => kind # "guest" /\ cookie = NoCookie,
         Send(r, b, kind, pc, lines, touch, cookie)
  PROVE  Requested' /\ disturbed' \subseteq Places \X Variants
<1> DEFINE q == [NewRequest EXCEPT !.pc = pc, !.from = b, !.kind = kind, !.lines = lines,
                                   !.todo = Items(lines), !.touch = touch, !.cookie = cookie]
<1>1. q \in RequestType
  <2>1. /\ pc \in {"idle", "page", "done"} \cup InFlight /\ b \in Places /\ kind \in Kinds
        /\ Items(lines) \in SUBSET Variants
    BY ItemsTyped DEF InFlight, OnServer, Places, Kinds
  <2>2. QED
    BY <2>1, NewTyped DEF RequestType
<1>2. q.pc = pc /\ q.from = b /\ q.kind = kind /\ q.cookie = cookie
  BY NewTyped DEF RequestType
<1>3. request' = [request EXCEPT ![r] = q]
  BY DEF Send
<1> HIDE DEF q
<1>4. Shape(q)
  BY <1>2 DEF Shape, InFlight, OnServer
<1>5. Requested'
  BY <1>1, <1>3, <1>4, OneRequest
<1>6. QED
  BY <1>5 DEF Send

BookedType == [Places -> [Variants -> Int]]
MarketType == [rates : Rates, pref : [Browsers -> Currencies], kept : SUBSET Variants]

CartsTyped == CartsTypeOK /\ Requested

LEMMA CartsParts ==
  CartsTyped <=>
    /\ Requested /\ carted \in BOOLEAN /\ items \in Lines /\ jar \in [Browsers -> Lines]
    /\ signedIn \in [Browsers -> BOOLEAN] /\ market \in MarketType
    /\ booked \in BookedType /\ disturbed \subseteq Places \X Variants /\ added \in Lines
  BY DEF CartsTyped, CartsTypeOK, Requested, RequestType, Kinds, MarketType, BookedType

LEMMA CartsKept ==
  ASSUME /\ Requested' /\ carted' \in BOOLEAN /\ items' \in Lines /\ jar' \in [Browsers -> Lines]
         /\ signedIn' \in [Browsers -> BOOLEAN] /\ market' \in MarketType
         /\ booked' \in BookedType /\ disturbed' \subseteq Places \X Variants /\ added' \in Lines
  PROVE  CartsTyped'
  BY DEF CartsTyped, CartsTypeOK, Requested, RequestType, Kinds, MarketType, BookedType

LEMMA PricesTyped ==
  ASSUME CatalogueTypeOK
  PROVE  Prices \in Lines
  BY DEF CatalogueTypeOK, Prices, Lines

LEMMA SaleTyped ==
  ASSUME CatalogueTypeOK, CartsTyped, NEW lines \in Lines, NEW b \in Browsers, NEW m \in Methods
  PROVE  SaleOf(lines, b, m) \in Sales
  BY PricesTyped, CartsParts DEF SaleOf, Sales, MarketType

LEMMA VisibleTyped ==
  ASSUME CartsTyped, NEW b \in Browsers
  PROVE  Visible(b) \in Lines
  BY CartsParts DEF Visible, Known, Lines

(* What customers send.                                                    *)
LEMMA ShopTyped ==
  ASSUME CatalogueTypeOK, CartsTyped, NEW r \in Requests, NEW b \in Browsers, Shop(r, b)
  PROVE  CartsTyped'
<1>1. /\ Requested /\ items \in Lines /\ jar[b] \in Lines
      /\ booked \in BookedType /\ disturbed \subseteq Places \X Variants
  BY CartsParts
<1>2. UNCHANGED <<carted, items, jar, signedIn, market, added>>
  BY DEF Shop, ProductForm, CartForms, Login, OpenCheckout, GuestAdd, AccountAdd, ApiAdd,
     GuestUpdate, AccountUpdate, GuestRemove, AccountRemove, Send
<1>3. SUFFICES Requested' /\ booked' \in BookedType /\ disturbed' \subseteq Places \X Variants
  BY <1>2, CartsParts, CartsKept
<1>4. /\ b \in Places /\ Account \in Places
      /\ EmptyLines \in Lines /\ {b} \X Variants \in SUBSET (Places \X Variants)
      /\ \A v \in Variants : {<<Account, v>>} \in SUBSET (Places \X Variants)
      /\ {} \in SUBSET (Places \X Variants)
  BY EmptyTyped DEF Places
<1>5. \A n \in Quantities : n \in Nat
  BY CartsAssumption
<1>6. ASSUME NEW v \in Variants, NEW n \in Quantities, GuestAdd(r, b, v, n)
      PROVE  Requested' /\ booked' \in BookedType /\ disturbed' \subseteq Places \X Variants
  <2>1. Plus(jar[b], OneLine(v, n)) \in Lines
    BY <1>1, <1>5, LinesTyped
  <2>2. Requested' /\ disturbed' \subseteq Places \X Variants
    BY <1>1, <1>4, <1>6, <2>1, SendTyped DEF GuestAdd
  <2>3. booked' \in BookedType
    BY <1>1, <1>4, <1>5, <1>6 DEF GuestAdd, BookedType
  <2>4. QED
    BY <2>2, <2>3
<1>7. ASSUME NEW v \in Variants, NEW n \in Nat, GuestUpdate(r, b, v, n)
      PROVE  Requested' /\ booked' \in BookedType /\ disturbed' \subseteq Places \X Variants
  <2>1. SetLine(jar[b], v, n) \in Lines
    BY <1>1, LinesTyped
  <2>2. Requested' /\ disturbed' \subseteq Places \X Variants
    BY <1>1, <1>4, <1>7, <2>1, SendTyped DEF GuestUpdate
  <2>3. booked' \in BookedType
    BY <1>1, <1>4, <1>7 DEF GuestUpdate, SetLine, BookedType
  <2>4. QED
    BY <2>2, <2>3
<1>8. ASSUME NEW v \in Variants, NEW n \in Quantities, AccountAdd(r, b, v, n)
      PROVE  Requested' /\ booked' \in BookedType /\ disturbed' \subseteq Places \X Variants
  <2>1. OneLine(v, n) \in Lines
    BY <1>4, <1>5, LinesTyped
  <2>2. QED
    BY <1>1, <1>4, <1>8, <2>1, SendTyped DEF AccountAdd
<1>9. ASSUME NEW v \in Variants, NEW n \in Quantities, ApiAdd(r, b, v, n)
      PROVE  Requested' /\ booked' \in BookedType /\ disturbed' \subseteq Places \X Variants
  <2>1. CASE AccountAdd(r, b, v, n)
    BY <1>8, <2>1
  <2>2. CASE Send(r, b, "guest", "reply", EmptyLines, {}, NoCookie) /\ UNCHANGED booked
    BY <1>1, <1>4, <2>2, SendTyped
  <2>3. QED
    BY <1>9, <2>1, <2>2 DEF ApiAdd
<1>10. CASE AccountUpdate(r, b)
  BY <1>1, <1>4, <1>10, SendTyped DEF AccountUpdate
<1>11. ASSUME NEW v \in Variants, AccountRemove(r, b, v)
       PROVE  Requested' /\ booked' \in BookedType /\ disturbed' \subseteq Places \X Variants
  <2>1. OneLine(v, 1) \in Lines
    BY <1>4, LinesTyped
  <2>2. QED
    BY <1>1, <1>4, <1>11, <2>1, SendTyped DEF AccountRemove
<1>12. CASE Login(r, b)
  <2>1. CASE Items(jar[b]) = {}
    BY <1>1, <1>4, <1>12, <2>1, SendTyped DEF Login
  <2>2. CASE Items(jar[b]) # {}
    <3>1. ({b} \X Variants) \cup ({Account} \X Items(jar[b])) \in SUBSET (Places \X Variants)
      BY <1>4, ItemsTyped
    <3>2. QED
      BY <1>1, <1>4, <1>12, <2>2, <3>1, SendTyped DEF Login
  <2>3. QED
    BY <2>1, <2>2
<1>13. ASSUME NEW m \in Methods, OpenCheckout(r, b, m)
       PROVE  Requested' /\ booked' \in BookedType /\ disturbed' \subseteq Places \X Variants
  <2> DEFINE sale == SaleOf(Visible(b), b, m)
             q == [NewRequest EXCEPT !.pc = "page", !.from = b, !.page = sale]
  <2>1. sale \in Sales
    BY VisibleTyped, SaleTyped
  <2> HIDE DEF sale
  <2>2. q \in RequestType
    BY <1>4, <2>1, NewTyped DEF RequestType
  <2>3. q.pc = "page" /\ q.from = b /\ q.page = sale /\ q.cookie = NoCookie
    BY NewTyped DEF NewRequest
  <2>4. request' = [request EXCEPT ![r] = q]
    BY <1>13 DEF OpenCheckout, sale
  <2> HIDE DEF q
  <2>5. Shape(q)
    BY <2>1, <2>3 DEF Shape, InFlight, OnServer
  <2>6. QED
    BY <1>1, <1>13, <2>2, <2>4, <2>5, OneRequest DEF OpenCheckout
<1>14. CASE ProductForm(r, b)
  BY <1>6, <1>8, <1>9, <1>14 DEF ProductForm
<1>15. CASE CartForms(r, b)
  <2>1. \A v \in Variants : GuestRemove(r, b, v) => GuestUpdate(r, b, v, 0)
    BY DEF GuestRemove
  <2>2. QED
    BY <1>5, <1>7, <1>10, <1>11, <1>15, <2>1 DEF CartForms
<1>16. QED
  BY <1>12, <1>13, <1>14, <1>15 DEF Shop

(* What the server does with a request.                                    *)
LEMMA LineDoneTyped ==
  ASSUME CartsTyped, NEW r \in Requests, request[r].pc = "write", NEW lines \in Lines,
         LineDone(r, lines)
  PROVE  Requested' /\ booked' \in BookedType
<1>1. /\ Requested /\ booked \in BookedType /\ request[r] \in RequestType /\ Shape(request[r])
  BY CartsParts DEF Requested
<1> DEFINE q      == request[r]
           rest   == q.todo \ {q.at}
           merged == rest = {} /\ q.kind = "login"
           cookie == IF merged THEN EmptyLines ELSE NoCookie
           pc     == IF rest = {} THEN "reply" ELSE "read"
           p      == [q EXCEPT !.lines = lines, !.todo = rest, !.at = NoVariant, !.seen = 0,
                               !.pc = pc, !.cookie = cookie]
<1>2. /\ cookie \in Lines \cup {NoCookie} /\ rest \in SUBSET Variants
      /\ pc \in {"reply", "read"}
      /\ pc = "read" => cookie = NoCookie
  BY <1>1, EmptyTyped DEF RequestType
<1>3. request' = [request EXCEPT ![r] = p]
  BY DEF LineDone
<1> HIDE DEF cookie, rest, pc
<1>4. p \in RequestType
  BY <1>1, <1>2 DEF RequestType, InFlight, OnServer
<1>5. p.pc = pc /\ p.from = q.from /\ p.kind = q.kind /\ p.cookie = cookie
  BY <1>1 DEF RequestType
<1> HIDE DEF p
<1>6. q.from \in Browsers /\ q.kind \in {"add", "login"}
  BY <1>1 DEF Shape, InFlight, OnServer
<1>7. Shape(p)
  BY <1>2, <1>5, <1>6 DEF Shape, InFlight, OnServer
<1>8. Requested'
  BY <1>1, <1>3, <1>4, <1>7, OneRequest
<1>9. booked' \in BookedType
  <2>1. Plus(booked[Account], lines) \in [Variants -> Int]
    BY <1>1 DEF Plus, BookedType, Lines, Places
  <2>2. EmptyLines \in [Variants -> Int]
    BY DEF EmptyLines
  <2>3. CASE rest # {}
    BY <1>1, <2>3 DEF LineDone, rest
  <2>4. CASE rest = {}
    <3>1. booked' = [s \in Places |-> IF s = Account THEN Plus(booked[s], lines)
                                      ELSE IF s = q.from /\ merged THEN EmptyLines
                                      ELSE booked[s]]
      BY <2>4 DEF LineDone, rest
    <3>2. QED
      BY <1>1, <2>1, <2>2, <3>1 DEF BookedType
  <2>5. QED
    BY <2>3, <2>4
<1>10. QED
  BY <1>8, <1>9

LEMMA PcTyped ==
  ASSUME Requested, NEW r \in Requests, NEW pc \in InFlight,
         request' = [request EXCEPT ![r].pc = pc], Shape([request[r] EXCEPT !.pc = pc])
  PROVE  Requested'
<1>1. request[r] \in RequestType /\ request \in [Requests -> RequestType]
  BY DEF Requested
<1>2. [request[r] EXCEPT !.pc = pc] \in RequestType
  BY <1>1 DEF RequestType
<1>3. request' = [request EXCEPT ![r] = [request[r] EXCEPT !.pc = pc]]
  BY <1>1
<1>4. QED
  BY <1>2, <1>3, OneRequest

LEMMA LineTyped ==
  ASSUME CartsTyped, NEW r \in Requests, UpdateLine(r) \/ InsertLine(r) \/ InsertFails(r)
  PROVE  CartsTyped'
<1>1. /\ Requested /\ items \in Lines /\ added \in Lines /\ request[r] \in RequestType
      /\ Shape(request[r])
  BY CartsParts DEF Requested
<1>2. request[r].pc = "write"
  BY DEF UpdateLine, InsertLine, InsertFails
<1> DEFINE at == request[r].at
<1>3. request[r].at \in Variants /\ request[r].lines \in Lines /\ request[r].seen \in Nat
  BY <1>1, <1>2 DEF Shape, RequestType
<1>4. request[r].lines[at] \in Nat /\ items[at] \in Nat /\ added[at] \in Nat
  BY <1>1, <1>3 DEF Lines
<1>5. \E lines \in Lines : LineDone(r, lines)
  <2>1. [request[r].lines EXCEPT ![at] = 0] \in Lines
    BY <1>3 DEF Lines
  <2>2. QED
    BY <1>3, <2>1 DEF UpdateLine, InsertLine, InsertFails
<1>6. Requested' /\ booked' \in BookedType
  BY <1>2, <1>5, LineDoneTyped
<1>7. items' \in Lines /\ added' \in Lines
  <2>1. CASE UpdateLine(r)
    <3>1. request[r].seen + request[r].lines[at] \in Nat /\ added[at] + request[r].lines[at] \in Nat
      BY <1>3, <1>4
    <3>2. QED
      BY <1>1, <2>1, <3>1 DEF UpdateLine, Lines
  <2>2. CASE InsertLine(r)
    <3>1. added[at] + request[r].lines[at] \in Nat
      BY <1>4
    <3>2. QED
      BY <1>1, <1>4, <2>2, <3>1 DEF InsertLine, Lines
  <2>3. CASE InsertFails(r)
    BY <1>1, <2>3 DEF InsertFails
  <2>4. QED
    BY <2>1, <2>2, <2>3
<1>8. UNCHANGED <<carted, jar, signedIn, market, disturbed>>
  BY DEF UpdateLine, InsertLine, InsertFails
<1>9. QED
  BY <1>6, <1>7, <1>8, CartsParts, CartsKept

LEMMA ServeTyped ==
  ASSUME CatalogueTypeOK, CartsTyped, NEW r \in Requests, Serve(r)
  PROVE  CartsTyped'
<1> DEFINE q == request[r]
<1>1. /\ Requested /\ request \in [Requests -> RequestType] /\ q \in RequestType /\ Shape(q)
      /\ items \in Lines /\ jar \in [Browsers -> Lines] /\ signedIn \in [Browsers -> BOOLEAN]
      /\ market \in MarketType /\ booked \in BookedType
      /\ disturbed \subseteq Places \X Variants /\ added \in Lines /\ carted \in BOOLEAN
  BY CartsParts DEF Requested
<1>2. CASE GetCart(r)
  <2> DEFINE pc == IF carted THEN WithCart[q.kind] ELSE "create"
  <2>1. q.pc = "cart" /\ q.kind \in {"add", "update", "remove", "login", "checkout"}
    BY <1>1, <1>2 DEF GetCart, Shape
  <2>2. /\ pc \in InFlight /\ request' = [request EXCEPT ![r].pc = pc]
        /\ pc = "read" => q.kind \in {"add", "login"}
        /\ pc = "delete" => q.kind = "remove"
        /\ pc = "order" => q.kind = "checkout"
        /\ pc \in {"create", "read", "delete", "order", "reply"}
    BY <1>2, <2>1 DEF GetCart, WithCart, InFlight, OnServer
  <2> HIDE DEF pc
  <2>3. Shape([q EXCEPT !.pc = pc])
    BY <1>1, <2>1, <2>2 DEF Shape, RequestType, InFlight, OnServer
  <2>4. Requested'
    BY <1>1, <2>2, <2>3, PcTyped
  <2>5. QED
    BY <1>1, <1>2, <2>4, CartsKept DEF GetCart
<1>3. CASE CreateCart(r)
  <2> DEFINE pc == IF carted THEN "reply" ELSE WithCart[q.kind]
  <2>1. q.pc = "create" /\ q.kind \in {"add", "update", "remove", "login", "checkout"}
    BY <1>1, <1>3 DEF CreateCart, Shape
  <2>2. /\ pc \in InFlight /\ request' = [request EXCEPT ![r].pc = pc]
        /\ pc = "read" => q.kind \in {"add", "login"}
        /\ pc = "delete" => q.kind = "remove"
        /\ pc = "order" => q.kind = "checkout"
        /\ pc \in {"read", "delete", "order", "reply"}
    BY <1>3, <2>1 DEF CreateCart, WithCart, InFlight, OnServer
  <2> HIDE DEF pc
  <2>3. Shape([q EXCEPT !.pc = pc])
    BY <1>1, <2>1, <2>2 DEF Shape, RequestType, InFlight, OnServer
  <2>4. Requested'
    BY <1>1, <2>2, <2>3, PcTyped
  <2>5. QED
    BY <1>1, <1>3, <2>4, CartsKept DEF CreateCart
<1>4. CASE FindLine(r)
  <2>1. PICK v \in q.todo :
          request' = [request EXCEPT ![r].pc = "write", ![r].at = v, ![r].seen = items[v]]
    BY <1>4 DEF FindLine
  <2> DEFINE p == [q EXCEPT !.pc = "write", !.at = v, !.seen = items[v]]
  <2>2. v \in Variants /\ items[v] \in Nat
    BY <1>1 DEF RequestType, Lines
  <2>3. p \in RequestType
    BY <1>1, <2>2 DEF RequestType, InFlight, OnServer
  <2>4. request' = [request EXCEPT ![r] = p]
    BY <1>1, <2>1
  <2>5. Shape(p)
    BY <1>1, <1>4 DEF FindLine, Shape, RequestType, InFlight, OnServer
  <2> HIDE DEF p
  <2>6. Requested'
    BY <1>1, <2>3, <2>4, <2>5, OneRequest
  <2>7. QED
    BY <1>1, <1>4, <2>6, CartsKept DEF FindLine
<1>5. CASE UpdateLine(r) \/ InsertLine(r) \/ InsertFails(r)
  BY <1>5, LineTyped
<1>6. CASE RemoveLine(r)
  <2>1. Shape([q EXCEPT !.pc = "reply"])
    BY <1>1, <1>6 DEF RemoveLine, Shape, RequestType, InFlight, OnServer
  <2>2. Requested'
    BY <1>1, <1>6, <2>1, PcTyped DEF RemoveLine, InFlight
  <2>3. items' \in Lines
    BY <1>1, <1>6 DEF RemoveLine, Lines
  <2>4. booked' \in BookedType
    BY <1>1, <1>6 DEF RemoveLine, BookedType, Places
  <2>5. QED
    BY <1>1, <1>6, <2>2, <2>3, <2>4, CartsKept DEF RemoveLine
<1>7. CASE Submit(r)
  <2> DEFINE b     == q.from
             touch == (IF CurrentUser(b) THEN {Account} ELSE {b}) \X Variants
             lines == IF CurrentUser(b) THEN EmptyLines ELSE jar[b]
             sale  == SaleOf(lines, b, q.page.method)
             pc    == IF CurrentUser(b) THEN "cart" ELSE "commit"
             kind  == IF CurrentUser(b) THEN "checkout" ELSE "guest checkout"
             p     == [q EXCEPT !.pc = pc, !.kind = kind, !.lines = lines, !.touch = touch,
                                !.bill = sale]
  <2>1. q.pc = "page" /\ b \in Browsers /\ q.page \in Sales /\ q.cookie = NoCookie
    BY <1>1, <1>7 DEF Submit, Shape
  <2>2. lines \in Lines /\ touch \in SUBSET (Places \X Variants) /\ q.page.method \in Methods
    BY <1>1, <2>1, EmptyTyped DEF Places, Sales
  <2> HIDE DEF lines, touch
  <2>3. sale \in Sales
    BY <2>1, <2>2, SaleTyped
  <2> HIDE DEF sale
  <2>4. CASE Items(Visible(b)) = {} \/ CopyFails(lines)
    <3>1. /\ request' = [request EXCEPT ![r] = Done] /\ disturbed' = disturbed
          /\ \E left \in SUBSET (Items(lines) \cap Sold) :
               market' = [market EXCEPT !.kept = @ \cup left]
      BY <1>7, <2>4 DEF Submit, lines
    <3>2. Requested'
      BY <1>1, <3>1, NewTyped, OneRequest
    <3>3. market' \in MarketType
      BY <1>1, <3>1, ItemsTyped DEF MarketType
    <3>4. QED
      BY <1>1, <1>7, <3>1, <3>2, <3>3, CartsKept DEF Submit
  <2>5. CASE ~ (Items(Visible(b)) = {} \/ CopyFails(lines))
    <3>1. /\ request' = [request EXCEPT ![r] = p] /\ market' = market
          /\ disturbed' \subseteq disturbed \cup touch
      BY <1>7, <2>5 DEF Submit, lines, touch, sale
    <3>2. pc \in {"cart", "commit"} /\ kind \in {"checkout", "guest checkout"}
          /\ (pc = "cart" => kind = "checkout")
      OBVIOUS
    <3> HIDE DEF pc, kind
    <3>3. p \in RequestType
      BY <1>1, <2>2, <2>3, <3>2 DEF RequestType, InFlight, OnServer, Kinds
    <3>4. p.pc = pc /\ p.kind = kind /\ p.from = b /\ p.cookie = NoCookie /\ p.bill = sale
      BY <1>1, <2>1 DEF RequestType
    <3> HIDE DEF p
    <3>5. Shape(p)
      BY <2>1, <2>3, <3>2, <3>4 DEF Shape, InFlight, OnServer
    <3>6. Requested'
      BY <1>1, <3>1, <3>3, <3>5, OneRequest
    <3>7. QED
      BY <1>1, <1>7, <2>2, <3>1, <3>6, CartsKept DEF Submit
  <2>6. QED
    BY <2>4, <2>5
<1>8. CASE ShowAgain(r)
  <2> DEFINE sale == SaleOf(Visible(q.from), q.from, q.page.method)
             p    == [q EXCEPT !.page = sale]
  <2>1. q.pc = "page" /\ q.from \in Browsers /\ q.page \in Sales /\ q.cookie = NoCookie
    BY <1>1, <1>8 DEF ShowAgain, Shape
  <2>2. q.page.method \in Methods
    BY <2>1 DEF Sales
  <2>3. sale \in Sales
    BY <2>1, <2>2, VisibleTyped, SaleTyped
  <2>4. request' = [request EXCEPT ![r] = p]
    BY <1>1, <1>8 DEF ShowAgain
  <2> HIDE DEF sale
  <2>5. p \in RequestType
    BY <1>1, <2>3 DEF RequestType
  <2>6. Shape(p)
    BY <1>1, <2>1, <2>3 DEF Shape, RequestType, InFlight, OnServer
  <2> HIDE DEF p
  <2>7. Requested'
    BY <1>1, <2>4, <2>5, <2>6, OneRequest
  <2>8. QED
    BY <1>1, <1>8, <2>7, CartsKept DEF ShowAgain
<1>9. CASE ReadCart(r)
  <2> DEFINE pc == IF Items(items) = {} THEN "reply" ELSE "commit"
             p  == [q EXCEPT !.pc = pc, !.lines = items]
  <2>1. q.pc = "order" /\ q.kind = "checkout" /\ q.from \in Browsers /\ q.cookie = NoCookie
        /\ q.bill \in Sales
    BY <1>1, <1>9 DEF ReadCart, Shape, InFlight, OnServer
  <2>2. request' = [request EXCEPT ![r] = p] /\ pc \in {"reply", "commit"}
    BY <1>1, <1>9 DEF ReadCart
  <2> HIDE DEF pc
  <2>3. p \in RequestType
    BY <1>1, <2>2 DEF RequestType, InFlight, OnServer
  <2>4. Shape(p)
    BY <1>1, <2>1, <2>2 DEF Shape, RequestType, InFlight, OnServer
  <2> HIDE DEF p
  <2>5. Requested'
    BY <1>1, <2>2, <2>3, <2>4, OneRequest
  <2>6. QED
    BY <1>1, <1>9, <2>5, CartsKept DEF ReadCart
<1>10. CASE RefuseOrder(r)
  <2> DEFINE p  == [q EXCEPT !.pc = "reply", !.bill = NoSale]
  <2>1. q.pc = "commit" /\ q.from \in Browsers
    BY <1>1, <1>10 DEF RefuseOrder, Shape, InFlight, OnServer
  <2>2. request' = [request EXCEPT ![r] = p]
    BY <1>1, <1>10 DEF RefuseOrder
  <2>3. p \in RequestType
    BY <1>1 DEF RequestType, InFlight, OnServer
  <2>4. Shape(p)
    BY <1>1, <2>1 DEF Shape, RequestType, InFlight, OnServer
  <2> HIDE DEF p
  <2>5. Requested'
    BY <1>1, <2>2, <2>3, <2>4, OneRequest
  <2>6. market' \in MarketType
    BY <1>1, <1>10, ItemsTyped DEF RefuseOrder, MarketType
  <2>7. QED
    BY <1>1, <1>10, <2>5, <2>6, CartsKept DEF RefuseOrder
<1>11. CASE Reply(r)
  <2>1. Requested'
    BY <1>1, <1>11, NewTyped, OneRequest DEF Reply
  <2>2. jar' \in [Browsers -> Lines]
    BY <1>1, <1>11 DEF Reply, RequestType
  <2>3. signedIn' \in [Browsers -> BOOLEAN]
    BY <1>1, <1>11 DEF Reply, CreateSession
  <2>4. QED
    BY <1>1, <1>11, <2>1, <2>2, <2>3, CartsKept DEF Reply
<1>12. CASE Lose(r)
  <2>1. Requested'
    BY <1>1, <1>12, NewTyped, OneRequest DEF Lose
  <2>2. Damage(q) \subseteq Places \X Variants
    BY <1>1, ItemsTyped DEF Damage, RequestType, Places
  <2>3. QED
    BY <1>1, <1>12, <2>1, <2>2, CartsKept DEF Lose
<1>13. QED
  BY <1>2, <1>3, <1>4, <1>5, <1>6, <1>7, <1>8, <1>9, <1>10, <1>11, <1>12 DEF Serve

(* An order takes no more from the shelf than is there.                    *)
LEMMA PlaceOrderTyped ==
  ASSUME CatalogueTypeOK, CartsTyped, NEW r \in Requests, PlaceOrder(r)
  PROVE  CatalogueTypeOK' /\ CartsTyped' /\ Sold' = Sold
<1> DEFINE q       == request[r]
           account == q.kind = "checkout"
           cookie  == IF account THEN NoCookie ELSE EmptyLines
           bill    == [q.bill EXCEPT !.lines = q.lines, !.price = Prices, !.rates = market.rates]
           p       == [q EXCEPT !.pc = "reply", !.cookie = cookie, !.bill = bill]
<1>1. /\ Requested /\ request \in [Requests -> RequestType] /\ q \in RequestType /\ Shape(q)
      /\ items \in Lines /\ jar \in [Browsers -> Lines] /\ signedIn \in [Browsers -> BOOLEAN]
      /\ market \in MarketType /\ booked \in BookedType
      /\ disturbed \subseteq Places \X Variants /\ added \in Lines /\ carted \in BOOLEAN
  BY CartsParts DEF Requested
<1>2. q.pc = "commit" /\ q.lines \in Lines /\ q.bill \in Sales /\ q.from \in Browsers
  BY <1>1 DEF PlaceOrder, Shape, RequestType, InFlight, OnServer
<1>3. request' = [request EXCEPT ![r] = p]
  BY DEF PlaceOrder
<1>4. cookie \in Lines \cup {NoCookie}
  BY EmptyTyped
<1>5. bill \in Sales
  BY <1>1, <1>2, PricesTyped DEF Sales, MarketType
<1> HIDE DEF cookie, bill
<1>6. p \in RequestType
  BY <1>1, <1>4, <1>5 DEF RequestType, InFlight, OnServer
<1>7. Shape(p)
  BY <1>1, <1>2 DEF Shape, RequestType, InFlight, OnServer
<1> HIDE DEF p
<1>8. Requested'
  BY <1>1, <1>3, <1>6, <1>7, OneRequest
<1>9. items' \in Lines /\ market' \in MarketType
  BY <1>1, EmptyTyped, ItemsTyped DEF PlaceOrder, MarketType
<1>10. booked' \in BookedType
  <2> DEFINE place == IF account THEN Account ELSE q.from
  <2>1. place \in Places /\ booked' = [booked EXCEPT ![place] = Minus(@, q.lines)]
    BY <1>2 DEF PlaceOrder, Places
  <2> HIDE DEF place
  <2>2. Minus(booked[place], q.lines) \in [Variants -> Int]
    BY <1>1, <1>2, <2>1 DEF Minus, BookedType, Lines
  <2>3. QED
    BY <1>1, <2>1, <2>2 DEF BookedType
<1>11. CartsTyped'
  BY <1>1, <1>8, <1>9, <1>10, CartsKept DEF PlaceOrder
<1>12. /\ variant \in [Variants -> VariantType] /\ due \in [Variants -> Int]
       /\ limit \in Scenarios /\ used \in Budget
  BY DEF CatalogueTypeOK, VariantType, Budget
<1>13. variant' = [v \in Variants |-> [variant[v] EXCEPT !.stock = @ - q.lines[v]]]
  BY DEF PlaceOrder
<1>14. ASSUME NEW v \in Variants
       PROVE  /\ [variant[v] EXCEPT !.stock = @ - q.lines[v]] \in VariantType
              /\ variant'[v].status = variant[v].status /\ variant'[v].price = variant[v].price
  <2> DEFINE level == variant[v].stock - q.lines[v]
             row   == [variant[v] EXCEPT !.stock = level]
  <2>1. variant[v] \in VariantType /\ variant[v].stock \in Nat /\ q.lines[v] \in Nat
    BY <1>2, <1>12 DEF VariantType, Lines
  <2>2. q.lines[v] > 0 => variant[v].stock >= q.lines[v]
    BY DEF PlaceOrder, Items
  <2>3. level \in Nat
    BY <2>1, <2>2
  <2> HIDE DEF level
  <2>4. row \in VariantType /\ row.status = variant[v].status /\ row.price = variant[v].price
    BY <2>1, <2>3 DEF VariantType
  <2>5. variant'[v] = row /\ row = [variant[v] EXCEPT !.stock = @ - q.lines[v]]
    BY <1>13, <2>1 DEF level
  <2>6. QED
    BY <2>4, <2>5
<1>15. variant' \in [Variants -> VariantType] /\ Sold' = Sold
  BY <1>13, <1>14 DEF Sold
<1>16. due' \in [Variants -> Int]
  BY <1>2, <1>12 DEF PlaceOrder, Minus, Lines
<1>17. UNCHANGED <<used, product, image, files, wished, errand, overwritten, spoiled, limit>>
  BY DEF PlaceOrder
<1>18. used' \in Budget' /\ Listable' = Listable
  BY <1>12, <1>17, Spent DEF Listable
<1>19. \A v \in Sold' : variant'[v].price \in PriceChoices[v] /\ ProductOf[v] \in Listable
  BY <1>14, <1>15 DEF CatalogueTypeOK, Sold
<1> HIDE DEF Sold, Listable
<1>20. CatalogueTypeOK'
  BY <1>15, <1>16, <1>17, <1>18, <1>19 DEF CatalogueTypeOK, VariantType, Budget
<1>21. QED
  BY <1>11, <1>15, <1>20

LEMMA ChangeTyped ==
  ASSUME CartsTyped, Change
  PROVE  CartsTyped'
<1>1. /\ Requested /\ carted \in BOOLEAN /\ items \in Lines /\ jar \in [Browsers -> Lines]
      /\ signedIn \in [Browsers -> BOOLEAN] /\ market \in MarketType
      /\ booked \in BookedType /\ disturbed \subseteq Places \X Variants /\ added \in Lines
  BY CartsParts
<1>2. ASSUME TickRates PROVE market' \in MarketType
  <2>1. PICK new \in RateTables :
          market' = [market EXCEPT !.rates =
                       [c \in Currencies |-> IF new[c] = NoRate THEN @[c] ELSE new[c]]]
    BY <1>2 DEF TickRates, FetchRates, UpsertRates
  <2>2. new \in Rates
    BY CartsAssumption DEF Rates
  <2>3. QED
    BY <1>1, <2>1, <2>2 DEF MarketType, Rates
<1>3. ASSUME NEW b \in Browsers, ChooseCurrency(b) PROVE market' \in MarketType
  BY <1>1, <1>3, PricingAssumption DEF ChooseCurrency, SetCurrency, MarketType, Configured
<1>4. Requested'
  BY <1>1 DEF Change, Requested
<1>5. QED
  BY <1>1, <1>2, <1>3, <1>4, CartsKept DEF Change

LEMMA CartsStepTyped ==
  ASSUME CatalogueTypeOK, CartsTyped, CartsStep
  PROVE  CatalogueTypeOK' /\ CartsTyped'
<1>1. ASSUME NEW r \in Requests, PlaceOrder(r) PROVE CatalogueTypeOK' /\ CartsTyped'
  BY <1>1, PlaceOrderTyped
<1>2. limit \in Scenarios /\ used \in Budget
  BY DEF CatalogueTypeOK, Budget
<1>3. ASSUME UNCHANGED officeVars, UNCHANGED used \/ Spend("lost") \/ Spend("market")
      PROVE  CatalogueTypeOK'
  <2>1. limit' = limit
    BY <1>3 DEF officeVars
  <2>2. used' \in Budget'
    BY <1>2, <1>3, <2>1, Spent
  <2>3. QED
    BY <1>3, <2>2, RowsStay
<1>4. ASSUME UNCHANGED officeVars, NEW r \in Requests, Serve(r)
      PROVE  CatalogueTypeOK' /\ CartsTyped'
  <2>1. UNCHANGED used \/ Spend("lost")
    BY <1>4 DEF Serve, GetCart, CreateCart, FindLine, UpdateLine, InsertLine, InsertFails,
       RemoveLine, Submit, ShowAgain, ReadCart, RefuseOrder, Reply, Lose
  <2>2. QED
    BY <1>3, <1>4, <2>1, ServeTyped
<1>5. ASSUME UNCHANGED officeVars, NEW r \in Requests, NEW b \in Browsers, Shop(r, b)
      PROVE  CatalogueTypeOK' /\ CartsTyped'
  <2>1. UNCHANGED used
    BY <1>5 DEF Shop, ProductForm, CartForms, Login, OpenCheckout, GuestAdd, AccountAdd, ApiAdd,
       GuestUpdate, AccountUpdate, GuestRemove, AccountRemove, Send
  <2>2. QED
    BY <1>3, <1>5, <2>1, ShopTyped
<1>6. ASSUME UNCHANGED officeVars, NEW b \in Browsers, EndSession(b)
      PROVE  CatalogueTypeOK' /\ CartsTyped'
  <2>1. CatalogueTypeOK'
    BY <1>3, <1>6 DEF EndSession
  <2>2. Requested'
    BY <1>6, CartsParts DEF EndSession, Requested
  <2>3. CartsTyped'
    BY <1>6, <2>2, CartsParts, CartsKept DEF EndSession
  <2>4. QED
    BY <2>1, <2>3
<1>7. ASSUME UNCHANGED officeVars, Change PROVE CatalogueTypeOK' /\ CartsTyped'
  BY <1>3, <1>7, ChangeTyped DEF Change
<1>8. QED
  BY <1>1, <1>4, <1>5, <1>6, <1>7 DEF CartsStep

LEMMA CartsStay ==
  ASSUME CartsTyped, UNCHANGED cartsVars
  PROVE  CartsTyped'
  BY DEF CartsTyped, CartsTypeOK, Requested, cartsVars

LEMMA CatalogueInitTyped ==
  ASSUME CatalogueInit
  PROVE  CatalogueTypeOK
<1>1. /\ limit \in Scenarios /\ product = limit.products /\ wished = limit.wished
      /\ limit.products \in ProductRows
      /\ limit.lost \in Nat /\ limit.market \in Nat /\ limit.office \in Nat
  BY CatalogueAssumption DEF CatalogueInit
<1>2. /\ Listable # {} /\ wished \in Seq(Listable) /\ IsInjective(wished)
      /\ \A v \in Variants : InitialStock[v] > 0 => ProductOf[v] \in Listable
  BY <1>1, ScenarioAssumption DEF Listable
<1>3. ASSUME NEW v \in Variants
      PROVE  (CHOOSE n \in PriceChoices[v] : \A m \in PriceChoices[v] : n <= m) \in PriceChoices[v]
  <2>1. PriceChoices[v] \subseteq Nat /\ PriceChoices[v] # {}
    <3>1. PriceChoices \in [Variants -> (SUBSET (Nat \ {0})) \ {{}}]
      BY CatalogueAssumption
    <3>2. PriceChoices[v] \in (SUBSET (Nat \ {0})) \ {{}}
      BY <3>1, Zenon
    <3>3. QED
      BY <3>2
  <2>2. \E n \in PriceChoices[v] : \A m \in PriceChoices[v] : n <= m
    BY <2>1, LeastNumber
  <2>3. QED
    BY <2>2
<1>4. /\ variant \in [Variants -> [status : {"new", "there", "gone"}, price : Nat, stock : Nat]]
      /\ \A v \in Variants : /\ variant[v].price \in PriceChoices[v]
                             /\ variant[v].status = "there" => InitialStock[v] > 0
  BY <1>3, CatalogueAssumption DEF CatalogueInit
<1>5. image \in [Rows -> {NoImage, Gone} \cup [product : Listable, file : Keys \cup {NoFile}]]
  <2>1. (CHOOSE p \in Listable : TRUE) \in Listable
    BY <1>2
  <2> HIDE DEF Listable
  <2>2. [product |-> CHOOSE p \in Listable : TRUE, file |-> OldImage]
          \in [product : Listable, file : Keys \cup {NoFile}]
    BY <2>1 DEF Keys
  <2>3. QED
    BY <2>2 DEF CatalogueInit
<1>6. errand \in [Errands -> ErrandType] /\ due \in [Variants -> Int] /\ files \subseteq Keys
      /\ overwritten \subseteq Variants /\ spoiled \subseteq Keys
  BY CatalogueAssumption DEF CatalogueInit, NewErrand, ErrandType, Keys
<1>7. used \in Budget
  BY <1>1 DEF CatalogueInit, Budget
<1>8. \A v \in Sold : variant[v].price \in PriceChoices[v] /\ ProductOf[v] \in Listable
  BY <1>2, <1>4 DEF Sold
<1> HIDE DEF Listable, Sold
<1>9. QED
  BY <1>1, <1>2, <1>4, <1>5, <1>6, <1>7, <1>8 DEF CatalogueTypeOK, ErrandType, Budget

LEMMA CartsInitTyped ==
  ASSUME CartsInit
  PROVE  CartsTyped
<1>1. EmptyLines \in Lines /\ EmptyLines \in [Variants -> Int]
  BY EmptyTyped DEF EmptyLines
<1>2. Requested
  BY NewTyped DEF CartsInit, Requested
<1>3. market \in MarketType
  BY CartsAssumption, PricingAssumption DEF CartsInit, MarketType, Rates, Configured
<1>4. booked \in BookedType
  BY <1>1 DEF CartsInit, BookedType
<1>5. /\ carted \in BOOLEAN /\ items \in Lines /\ jar \in [Browsers -> Lines]
      /\ disturbed \subseteq Places \X Variants /\ added \in Lines
  BY <1>1 DEF CartsInit
<1>6. signedIn \in [Browsers -> BOOLEAN]
  <2>1. signedIn = [b \in Browsers |-> b \in Members]
    BY DEF CartsInit
  <2>2. QED
    BY <2>1
<1>7. QED
  BY <1>2, <1>3, <1>4, <1>5, <1>6, CartsParts
-----------------------------------------------------------------------------
(* What the account's cart holds stays in the catalogue: the rows of a     *)
(* product and of a variant are not deleted while a cart refers to them.   *)
RowsThere == Items(items) \subseteq Sold
Typed == CatalogueTypeOK /\ CartsTyped /\ RowsThere

LEMMA RowsThereStep ==
  ASSUME Typed, [StorefrontNext]_storefrontVars
  PROVE  RowsThere'
<1>1. /\ items \in Lines /\ variant \in [Variants -> VariantType] /\ Requested
      /\ Items(items) \subseteq Sold
  BY CartsParts DEF Typed, CatalogueTypeOK, VariantType, RowsThere
<1>2. ASSUME UNCHANGED cartsVars, UNCHANGED variant PROVE RowsThere'
  BY <1>1, <1>2 DEF cartsVars, RowsThere, Items, Sold
<1>3. ASSUME UNCHANGED cartsVars, NEW e \in Errands, RunErrand(e) PROVE RowsThere'
  <2>1. ASSUME NEW v \in Variants, NEW n \in Supply \cup {0}, errand[e].at = v,
               NEW price \in PriceChoices[v], UpdateVariant(e, price, n)
        PROVE  \A u \in Variants : variant'[u].status = variant[u].status
    BY <1>1, <2>1 DEF UpdateVariant, SetVariant, VariantType
  <2>2. \/ UNCHANGED variant
        \/ \A u \in Variants : variant'[u].status = variant[u].status
    BY <1>3, <2>1 DEF RunErrand, EditForm, PutFile, GetImage, InsertImage, NoRow, UndoPut,
       DeleteFile, DeleteImage, GiveUp
  <2>3. QED
    BY <1>1, <1>2, <1>3, <2>2 DEF cartsVars, RowsThere, Items, Sold
<1>4. ASSUME UNCHANGED cartsVars, Office(Referenced) PROVE RowsThere'
  <2>1. Items(items) \subseteq Referenced
    BY DEF Items, Referenced
  <2>2. \A v \in Items(items) : v \in Variants /\ variant[v].status = "there"
    BY <1>1 DEF Sold
  <2> HIDE DEF Referenced, Items
  <2>3. \A v \in Items(items) : variant'[v].status = "there"
    <3>1. ASSUME NEW p \in Products, DeleteProduct(p, Referenced)
          PROVE  \A v \in Items(items) : variant'[v].status = "there"
      BY <1>1, <2>1, <2>2, <3>1 DEF DeleteProduct, WithoutVariants
    <3>2. ASSUME NEW u \in Variants, DeleteVariant(u, Referenced)
          PROVE  \A v \in Items(items) : variant'[v].status = "there"
      BY <1>1, <2>1, <2>2, <3>2 DEF DeleteVariant, WithoutVariants
    <3>3. ASSUME NEW u \in Variants, NEW stock \in Supply, NEW price \in PriceChoices[u],
                 AddVariant(u, price, stock)
          PROVE  \A v \in Items(items) : variant'[v].status = "there"
      BY <1>1, <2>2, <3>3 DEF AddVariant, NewVariant
    <3>4. ASSUME variant' = variant
          PROVE  \A v \in Items(items) : variant'[v].status = "there"
      BY <2>2, <3>4
    <3>5. QED
      BY <1>4, <3>1, <3>2, <3>3, <3>4 DEF Office, UpdateProduct, CreateProduct, AddImage
  <2>4. Items(items)' = Items(items)
    BY <1>4 DEF cartsVars, Items
  <2>5. QED
    BY <2>2, <2>3, <2>4 DEF RowsThere, Sold
<1>5. ASSUME NEW r \in Requests, PlaceOrder(r) PROVE RowsThere'
  <2>1. Sold' = Sold
    BY <1>5, PlaceOrderTyped DEF Typed
  <2>2. Items(items') \subseteq Items(items)
    BY <1>5, EmptyTyped DEF PlaceOrder
  <2>3. QED
    BY <1>1, <2>1, <2>2 DEF RowsThere, Items
<1>6. ASSUME UNCHANGED officeVars, Items(items)' \subseteq Items(items) \cup Sold PROVE RowsThere'
  BY <1>1, <1>6 DEF officeVars, RowsThere, Sold
<1>7. ASSUME UNCHANGED officeVars, NEW r \in Requests, Serve(r) PROVE RowsThere'
  <2>1. CASE UpdateLine(r)
    BY <1>1, <1>6, <1>7, <2>1 DEF UpdateLine, Items, Lines
  <2>2. CASE InsertLine(r)
    BY <1>1, <1>6, <1>7, <2>2 DEF InsertLine, Items, Lines
  <2>3. CASE RemoveLine(r)
    BY <1>1, <1>6, <1>7, <2>3 DEF RemoveLine, Items, Lines
  <2>4. CASE UNCHANGED items
    BY <1>6, <1>7, <2>4 DEF Items
  <2>5. QED
    BY <1>7, <2>1, <2>2, <2>3, <2>4 DEF Serve, GetCart, CreateCart, FindLine, InsertFails,
       Submit, ShowAgain, ReadCart, RefuseOrder, Reply, Lose
<1>8. ASSUME UNCHANGED officeVars, NEW r \in Requests, NEW b \in Browsers, Shop(r, b)
      PROVE  RowsThere'
  <2>1. UNCHANGED items
    BY <1>8 DEF Shop, ProductForm, CartForms, Login, OpenCheckout, GuestAdd, AccountAdd, ApiAdd,
       GuestUpdate, AccountUpdate, GuestRemove, AccountRemove, Send
  <2>2. QED
    BY <1>6, <1>8, <2>1 DEF Items
<1>9. ASSUME UNCHANGED officeVars, (\E b \in Browsers : EndSession(b)) \/ Change PROVE RowsThere'
  BY <1>6, <1>9 DEF EndSession, Change, Items
<1>10. ASSUME CartsStep PROVE RowsThere'
  BY <1>5, <1>7, <1>8, <1>9, <1>10 DEF CartsStep
<1>11. QED
  BY <1>2, <1>3, <1>4, <1>10, StepCases DEF officeVars, Wish, AddWish, RemoveWish

LEMMA TypedStep ==
  ASSUME Typed, [StorefrontNext]_storefrontVars
  PROVE  Typed'
<1>1. CatalogueTypeOK /\ CartsTyped /\ limit \in Scenarios /\ used \in Budget
  BY DEF Typed, CatalogueTypeOK, Budget
<1>2. ASSUME UNCHANGED <<cartsVars, officeVars>>, UNCHANGED used \/ Spend("office")
      PROVE  CatalogueTypeOK' /\ CartsTyped'
  <2>1. limit' = limit
    BY <1>2 DEF officeVars
  <2>2. used' \in Budget'
    BY <1>1, <1>2, <2>1, Spent
  <2>3. QED
    BY <1>1, <1>2, <2>2, RowsStay, CartsStay
<1>3. CASE CartsStep
  BY <1>1, <1>3, CartsStepTyped, RowsThereStep DEF Typed
<1>4. ASSUME UNCHANGED cartsVars,
             (\E e \in Errands : RunErrand(e)) \/ Office(Referenced) \/ Wish
      PROVE  CatalogueTypeOK' /\ CartsTyped'
  BY <1>1, <1>4, RunErrandTyped, OfficeTyped, WishTyped, CartsStay
<1>5. QED
  BY <1>2, <1>3, <1>4, StepCases, RowsThereStep DEF Typed

LEMMA AlwaysTyped == StorefrontSpec => []Typed
<1>1. StorefrontInit => Typed
  <2>1. CartsInit => RowsThere
    BY EmptyTyped DEF CartsInit, RowsThere
  <2>2. QED
    BY <2>1, CatalogueInitTyped, CartsInitTyped DEF StorefrontInit, Typed
<1>2. Typed /\ [StorefrontNext]_storefrontVars => Typed'
  BY TypedStep
<1>3. QED
  BY <1>1, <1>2, PTL DEF StorefrontSpec
-----------------------------------------------------------------------------
(* The lists, and the walks through them.                                  *)
WalkType ==
  [pc : {"idle", "count", "ids", "load", "facets", "failed", "done"}, list : Lists,
   filter : Filters, sort : Sorts, page : Nat \ {0}, total : Nat,
   ids : Seq(Products), shown : Seq(Products \cup Orders),
   facets : [Categories \cup {NoCategory} -> 0 .. Cardinality(Products)],
   start : Seq(Products \cup Orders), cards : Seq(Nat), priced : BOOLEAN,
   came : BOOLEAN, late : BOOLEAN, left : BOOLEAN, moved : BOOLEAN, tied : BOOLEAN]
OrderType == [status : Statuses \cup {NoStatus}, mine : BOOLEAN, born : Nat]

LEMMA Divided ==
  ASSUME NEW a \in Nat, NEW d \in Nat \ {0}
  PROVE  a \div d \in Nat /\ d * (a \div d) <= a /\ a < d * (a \div d) + d
  OBVIOUS

LEMMA SameLength ==
  ASSUME NEW m \in Nat, NEW n \in Nat, 1 .. m = 1 .. n
  PROVE  m = n
<1>1. m \in 1 .. m \/ m = 0
  OBVIOUS
<1>2. n \in 1 .. n \/ n = 0
  OBVIOUS
<1>3. QED
  BY <1>1, <1>2

LEMMA CountTo ==
  ASSUME NEW n \in Nat
  PROVE  IsFiniteSet(1 .. n) /\ Cardinality(1 .. n) = n
<1>1. n \in Int /\ 1 \in Int /\ n - 1 + 1 = n
  OBVIOUS
<1>2. QED
  BY <1>1, FS_Interval

(* An arrangement has each of the rows once.                               *)
LEMMA InRow ==
  ASSUME NEW rows, IsFiniteSet(rows), NEW s \in SetToSeqs(rows)
  PROVE  /\ s \in Seq(rows) /\ Len(s) = Cardinality(rows) /\ Range(s) = rows
         /\ Cardinality(rows) \in Nat /\ DOMAIN s = 1 .. Len(s)
         /\ \A i, j \in 1 .. Len(s) : s[i] = s[j] => i = j
<1> DEFINE n == Cardinality(rows)
<1>1. n \in Nat
  BY FS_CardinalityType
<1>2. s \in [1 .. n -> rows] /\ \A i, j \in 1 .. n : i # j => s[i] # s[j]
  BY DEF SetToSeqs
<1>3. s \in Seq(rows) /\ Len(s) = n
  <2>1. s \in Seq(rows)
    BY <1>1, <1>2, SeqDef
  <2>2. 1 .. Len(s) = 1 .. n /\ Len(s) \in Nat
    BY <1>2, <2>1, LenProperties
  <2>3. Len(s) = n
    BY <1>1, <2>2, SameLength
  <2>4. QED
    BY <2>1, <2>3
<1>4. Range(s) = rows
  <2>1. s \in Injection(1 .. n, rows)
    BY <1>2 DEF Injection, IsInjective
  <2>2. Cardinality(1 .. n) = n
    BY <1>1, CountTo
  <2>3. s \in Surjection(1 .. n, rows)
    BY <2>1, <2>2, FS_Injection
  <2>4. QED
    BY <1>2, <2>3 DEF Surjection, Range
<1>5. QED
  BY <1>1, <1>2, <1>3, <1>4

LEMMA NaturalMin ==
  ASSUME NEW m \in Int, NEW n \in Int
  PROVE  Min({m, n}) = IF m <= n THEN m ELSE n
<1> DEFINE r == IF m <= n THEN m ELSE n
<1>1. r \in {m, n} /\ \A y \in {m, n} : r <= y
  OBVIOUS
<1>2. \A x \in {m, n} : (\A y \in {m, n} : x <= y) => x = r
  OBVIOUS
<1>3. QED
  BY <1>1, <1>2 DEF Min

LEMMA NaturalMax ==
  ASSUME NEW m \in Int, NEW n \in Int
  PROVE  Max({m, n}) = IF m <= n THEN n ELSE m
<1> DEFINE r == IF m <= n THEN n ELSE m
<1>1. r \in {m, n} /\ \A y \in {m, n} : r >= y
  OBVIOUS
<1>2. \A x \in {m, n} : (\A y \in {m, n} : x >= y) => x = r
  OBVIOUS
<1>3. QED
  BY <1>1, <1>2 DEF Max

(* A page is a part of what it is cut from.                                *)
LEMMA PageTyped ==
  ASSUME NEW S, NEW s \in Seq(S), NEW list \in Lists, NEW page \in Nat \ {0}
  PROVE  LET from == (page - 1) * PageSize[list]
             to   == IF page * PageSize[list] <= Len(s) THEN page * PageSize[list] ELSE Len(s)
             p    == PageOf(s, list, page)
         IN  /\ from \in Nat /\ to \in Nat /\ page * PageSize[list] \in Nat
             /\ page * PageSize[list] = from + PageSize[list]
             /\ p \in Seq(S)
             /\ Len(p) = IF from < to THEN to - from ELSE 0
             /\ \A i \in 1 .. Len(p) : p[i] = s[from + i] /\ from + i \in 1 .. Len(s)
<1> DEFINE size == PageSize[list]
           from == (page - 1) * size
           end  == page * size
           to   == IF end <= Len(s) THEN end ELSE Len(s)
           p    == PageOf(s, list, page)
<1>1. size \in Nat \ {0}
  BY ListingsAssumption
<1>2. from \in Nat /\ end \in Nat /\ end = from + size
  BY <1>1
<1>3. Len(s) \in Nat /\ s \in [1 .. Len(s) -> S]
  BY LenProperties
<1> HIDE DEF size, from, end
<1>4. to \in Nat /\ Min({end, Len(s)}) = to
  BY <1>2, <1>3, NaturalMin
<1>5. p = SubSeq(s, from + 1, to)
  BY <1>4 DEF PageOf, from, end, size
<1>6. \A i \in from + 1 .. to : s[i] \in S
  BY <1>2, <1>3
<1> HIDE DEF p, to
<1>7. /\ p \in Seq(S)
      /\ Len(p) = IF from + 1 <= to THEN to - (from + 1) + 1 ELSE 0
      /\ \A i \in 1 .. to - (from + 1) + 1 : p[i] = s[(from + 1) + i - 1]
  BY <1>2, <1>4, <1>5, <1>6, SubSeqProperties
<1>8. Len(p) = IF from < to THEN to - from ELSE 0
  BY <1>2, <1>4, <1>7
<1>9. to <= Len(s)
  BY <1>2, <1>3 DEF to
<1>10. ASSUME NEW i \in 1 .. Len(p) PROVE p[i] = s[from + i] /\ from + i \in 1 .. Len(s)
  <2>1. i \in 1 .. to - (from + 1) + 1 /\ (from + 1) + i - 1 = from + i
    BY <1>2, <1>4, <1>8
  <2>2. from + i \in 1 .. Len(s)
    BY <1>2, <1>3, <1>4, <1>8, <1>9, <2>1
  <2>3. QED
    BY <1>7, <2>1, <2>2
<1>11. QED
  BY <1>2, <1>4, <1>7, <1>8, <1>10 DEF p, to, from, end, size

-----------------------------------------------------------------------------
(* What a list has, and what is computed from it.                          *)
LEMMA RowsTyped ==
  ASSUME CatalogueTypeOK, NEW w
  PROVE  /\ RowsIn(w) \subseteq Products \cup Orders /\ IsFiniteSet(RowsIn(w))
         /\ w.list \in {"products", "wishlist", "wish_page"} => RowsIn(w) \subseteq Products
         /\ w.list = "products" => RowsIn(w) \subseteq Listable
         /\ w.list \in WishLists => RowsIn(w) = Range(wished)
<1>1. Range(wished) \subseteq Listable /\ Listable \subseteq Products
  <2>1. wished \in Seq(Listable)
    BY DEF CatalogueTypeOK
  <2> HIDE DEF Listable
  <2>2. Range(wished) \subseteq Listable
    BY <2>1, LenProperties DEF Range
  <2>3. QED
    BY <2>2 DEF Listable
<1>2. Listed(w.filter) \subseteq Listable
  BY DEF Listed, Listable
<1>3. OrderRows(w) \subseteq Orders
  BY DEF OrderRows
<1>4. IsFiniteSet(Products \cup Orders)
  BY CatalogueAssumption, ListingsAssumption, FS_Union
<1>5. RowsIn(w) \subseteq Products \cup Orders
  BY <1>1, <1>2, <1>3 DEF RowsIn
<1>6. IsFiniteSet(RowsIn(w))
  BY <1>4, <1>5, FS_Subset
<1> HIDE DEF Listable
<1>7. QED
  BY <1>1, <1>2, <1>5, <1>6 DEF RowsIn, WishLists

LEMMA NormalTyped == ASSUME NEW f \in Filters PROVE Normal(f) \in Filters
  BY DEF Normal, Filters

LEMMA FacetsTyped ==
  ASSUME NEW f
  PROVE  Facets(f) \in [Categories \cup {NoCategory} -> 0 .. Cardinality(Products)]
<1>1. ASSUME NEW c
      PROVE  Cardinality({p \in Listed(f) : CategoryOf[p] = c}) \in 0 .. Cardinality(Products)
  <2> DEFINE T == {p \in Listed(f) : CategoryOf[p] = c}
  <2>1. T \in SUBSET Products
    BY DEF Listed
  <2> HIDE DEF T
  <2>2. IsFiniteSet(Products) /\ IsFiniteSet(T) /\ Cardinality(T) <= Cardinality(Products)
    BY <2>1, CatalogueAssumption, FS_Subset
  <2>3. Cardinality(T) \in Nat /\ Cardinality(Products) \in Nat
    BY <2>2, FS_CardinalityType
  <2>4. QED
    BY <2>2, <2>3 DEF T
<1>2. QED
  BY <1>1 DEF Facets

LEMMA PriceTyped ==
  ASSUME CatalogueTypeOK, NEW p
  PROVE  MinPrice(p) \in Int /\ CardPrice(p) = (IF 0 <= MinPrice(p) THEN MinPrice(p) ELSE 0)
<1> DEFINE N == {variant[v].price : v \in VariantsOf(p)}
<1>1. N \subseteq Nat
  BY DEF CatalogueTypeOK, VariantsOf, Sold
<1>2. MinPrice(p) \in Int
  <2>1. CASE VariantsOf(p) = {}
    BY <2>1 DEF MinPrice
  <2>2. CASE VariantsOf(p) # {}
    <3>1. N # {}
      BY <2>2
    <3>2. MinPrice(p) = Min(N)
      BY <2>2 DEF MinPrice
    <3> HIDE DEF N
    <3>3. Min(N) \in N
      BY <1>1, <3>1, LeastNumber DEF Min
    <3>4. \A n \in N : n \in Int
      BY <1>1
    <3>5. QED
      BY <3>2, <3>3, <3>4
  <2>3. QED
    BY <2>1, <2>2
<1>3. QED
  BY <1>2, NaturalMax DEF CardPrice

LEMMA PagesTyped ==
  ASSUME NEW list \in Lists, NEW n \in Nat
  PROVE  /\ TotalPages(list, n) \in Nat \ {0}
         /\ n <= TotalPages(list, n) * PageSize[list]
<1> DEFINE size == PageSize[list]
           q == (n + size - 1) \div size
<1>1. size \in Nat \ {0}
  BY ListingsAssumption
<1>2. TotalPages(list, n) = IF 1 <= q THEN q ELSE 1
  BY <1>1, NaturalMax DEF TotalPages
<1> HIDE DEF size
<1>3. q \in Nat /\ n + size - 1 < q * size + size
  <2> DEFINE a == n + size - 1
  <2>1. a \in Nat
    BY <1>1
  <2> HIDE DEF a
  <2>2. a \div size \in Nat /\ a < size * (a \div size) + size
    BY <1>1, <2>1, Divided
  <2> DEFINE r == a \div size
  <2> HIDE DEF r
  <2>3. r \in Nat /\ a < r * size + size
    BY <1>1, <2>2 DEF r
  <2>4. QED
    BY <2>3 DEF a, r
<1>4. n <= q * size
  BY <1>1, <1>3
<1> HIDE DEF q
<1>5. CASE 1 <= q
  BY <1>2, <1>3, <1>4, <1>5 DEF size
<1>6. CASE q = 0
  BY <1>1, <1>2, <1>4, <1>6 DEF size
<1>7. QED
  BY <1>3, <1>5, <1>6

LEMMA StepTyped ==
  ASSUME ListingsTypeOK, NEW k \in Walks, NEW w \in WalkType, Step(k, w)
  PROVE  ListingsTypeOK'
  BY DEF ListingsTypeOK, WalkType, Step

LEMMA ShownTyped ==
  ASSUME NEW w \in WalkType, NEW rows \in Seq(Products \cup Orders), NEW more \in BOOLEAN
  PROVE  Shown(w, rows, more) \in WalkType
<1>1. w.shown \in Seq(Products \cup Orders) /\ w.page \in Nat \ {0}
  BY DEF WalkType
<1>2. w.shown \o rows \in Seq(Products \cup Orders) /\ w.page + 1 \in Nat \ {0}
  BY <1>1, ConcatProperties
<1>3. <<>> \in Seq(Products)
  BY EmptySeq
<1>4. QED
  BY <1>2, <1>3 DEF Shown, WalkType

(* Opening a list.                                                         *)
LEMMA NewWalkTyped == NoFilter \in Filters /\ NewWalk \in WalkType
<1>1. NoFilter \in Filters
  BY DEF NoFilter, Filters
<1>2. <<>> \in Seq(Products) /\ <<>> \in Seq(Products \cup Orders) /\ <<>> \in Seq(Nat)
  BY EmptySeq
<1>3. Cardinality(Products) \in Nat
  BY CatalogueAssumption, FS_CardinalityType
<1>4. "products" \in Lists /\ "newest" \in Sorts
  BY DEF Lists, Sorts
<1>5. [c \in Categories \cup {NoCategory} |-> 0]
        \in [Categories \cup {NoCategory} -> 0 .. Cardinality(Products)]
  BY <1>3
<1>6. QED
  BY <1>1, <1>2, <1>4, <1>5 DEF NewWalk, WalkType

LEMMA ArrangedTyped ==
  ASSUME CatalogueTypeOK, NEW w, NEW s \in Arrangements(w, RowsIn(w))
  PROVE  /\ s \in Seq(RowsIn(w)) /\ s \in Seq(Products \cup Orders)
         /\ RowsIn(w) \subseteq Products => s \in Seq(Products)
<1>1. IsFiniteSet(RowsIn(w)) /\ RowsIn(w) \subseteq Products \cup Orders
  BY RowsTyped
<1>2. s \in SetToSeqs(RowsIn(w))
  BY DEF Arrangements
<1>3. s \in Seq(RowsIn(w))
  BY <1>1, <1>2, InRow
<1>4. QED
  BY <1>1, <1>3, SeqMonotonic

LEMMA VisitTyped ==
  ASSUME CatalogueTypeOK, ListingsTypeOK, NEW k \in Walks, NEW list \in Lists,
         NEW f \in Filters, NEW sort \in Sorts, Visit(k, list, f, sort)
  PROVE  ListingsTypeOK'
<1> DEFINE w == [NewWalk EXCEPT !.pc = "count", !.list = list, !.filter = Normal(f),
                                !.sort = sort]
<1>1. w \in WalkType
  BY NewWalkTyped, NormalTyped DEF WalkType
<1> HIDE DEF w
<1>2. PICK s \in Arrangements(w, RowsIn(w)) :
        Step(k, [w EXCEPT !.start = s, !.tied = Ties(w)])
  BY DEF Visit, w
<1>3. s \in Seq(Products \cup Orders) /\ Ties(w) \in BOOLEAN
  BY ArrangedTyped DEF Ties
<1>4. [w EXCEPT !.start = s, !.tied = Ties(w)] \in WalkType
  BY <1>1, <1>3 DEF WalkType
<1>5. QED
  BY <1>2, <1>4, StepTyped

(* What the page shows of a list, and what is read for it.                 *)
LEMMA FoundTyped ==
  ASSUME CatalogueTypeOK, NEW ids \in Seq(Products)
  PROVE  /\ IsFiniteSet(ListByIDs(ids)) /\ ListByIDs(ids) \subseteq Products
         /\ Cardinality(ListByIDs(ids)) \in Nat
         /\ Cardinality(ListByIDs(ids)) <= Len(ids)
<1>1. ids \in [1 .. Len(ids) -> Products] /\ Len(ids) \in Nat
  BY LenProperties
<1>2. Range(ids) \in SUBSET Products
  BY <1>1 DEF Range
<1>3. IsFiniteSet(Range(ids)) /\ Cardinality(Range(ids)) <= Len(ids)
  <2>1. ids \in Surjection(1 .. Len(ids), Range(ids))
    BY <1>1 DEF Surjection, Range
  <2>2. IsFiniteSet(1 .. Len(ids)) /\ Cardinality(1 .. Len(ids)) = Len(ids)
    BY <1>1, CountTo
  <2>3. QED
    BY <2>1, <2>2, FS_Surjection
<1>4. ListByIDs(ids) \in SUBSET Range(ids)
  BY DEF ListByIDs
<1>5. IsFiniteSet(ListByIDs(ids)) /\ Cardinality(ListByIDs(ids)) <= Cardinality(Range(ids))
  BY <1>3, <1>4, FS_Subset
<1>6. Cardinality(ListByIDs(ids)) \in Nat /\ Cardinality(Range(ids)) \in Nat
  BY <1>3, <1>5, FS_CardinalityType
<1>7. QED
  BY <1>1, <1>2, <1>3, <1>4, <1>5, <1>6

LEMMA LoadTyped ==
  ASSUME CatalogueTypeOK, NEW ids \in Seq(Products)
  PROVE  LET rows  == SubSeq(ids, 1, Cardinality(ListByIDs(ids)))
             cards == [i \in DOMAIN rows |-> CardPrice(rows[i])]
         IN  /\ rows \in Seq(Products) /\ Len(rows) = Cardinality(ListByIDs(ids))
             /\ \A i \in 1 .. Len(rows) : rows[i] = ids[i]
             /\ cards \in Seq(Nat) /\ Len(cards) = Len(rows)
             /\ DOMAIN cards = 1 .. Len(rows)
<1> DEFINE n == Cardinality(ListByIDs(ids))
           rows == SubSeq(ids, 1, n)
           cards == [i \in DOMAIN rows |-> CardPrice(rows[i])]
<1>1. n \in Nat /\ n <= Len(ids) /\ Len(ids) \in Nat /\ ids \in [1 .. Len(ids) -> Products]
  BY FoundTyped, LenProperties
<1> HIDE DEF n
<1>2. \A i \in 1 .. n : ids[i] \in Products
  BY <1>1
<1>3. /\ rows \in Seq(Products) /\ Len(rows) = IF 1 <= n THEN n - 1 + 1 ELSE 0
      /\ \A i \in 1 .. n - 1 + 1 : rows[i] = ids[1 + i - 1]
  BY <1>1, <1>2, SubSeqProperties
<1>4. Len(rows) = n /\ \A i \in 1 .. n : rows[i] = ids[i]
  BY <1>1, <1>3
<1>5. DOMAIN rows = 1 .. n
  BY <1>3, <1>4, LenProperties
<1> HIDE DEF rows
<1>6. \A i \in 1 .. n : CardPrice(rows[i]) \in Nat
  BY PriceTyped
<1>7. cards \in [1 .. n -> Nat]
  BY <1>5, <1>6
<1>8. cards \in Seq(Nat)
  BY <1>1, <1>7, SeqDef
<1>9. Len(cards) = n
  <2>1. DOMAIN cards = 1 .. Len(cards) /\ Len(cards) \in Nat
    BY <1>8, LenProperties
  <2>2. 1 .. Len(cards) = 1 .. n
    BY <1>7, <2>1
  <2> HIDE DEF cards
  <2>3. QED
    BY <1>1, <2>1, <2>2, SameLength
<1>10. QED
  BY <1>3, <1>4, <1>7, <1>8, <1>9 DEF rows, n

(* A step of a visitor.                                                    *)
LEMMA CountRowsTyped ==
  ASSUME CatalogueTypeOK, ListingsTypeOK, NEW k \in Walks, CountRows(k)
  PROVE  ListingsTypeOK'
<1> DEFINE w == walk[k]
           n == Cardinality(IF w.list = "products" THEN Listable ELSE RowsIn(w))
<1>1. w \in WalkType
  BY DEF ListingsTypeOK, WalkType
<1>2. IsFiniteSet(Listable)
  <2>1. Listable \in SUBSET Products
    BY DEF Listable
  <2> HIDE DEF Listable
  <2>2. QED
    BY <2>1, CatalogueAssumption, FS_Subset
<1>3. IsFiniteSet(RowsIn(w))
  BY RowsTyped
<1>4. n \in Nat
  BY <1>2, <1>3, FS_CardinalityType
<1> HIDE DEF n
<1>5. Step(k, [w EXCEPT !.pc = "ids", !.total = n])
  BY DEF CountRows, n
<1>6. [w EXCEPT !.pc = "ids", !.total = n] \in WalkType
  BY <1>1, <1>4 DEF WalkType
<1>7. QED
  BY <1>5, <1>6, StepTyped

LEMMA FetchOrdersTyped ==
  ASSUME CatalogueTypeOK, ListingsTypeOK, NEW k \in Walks, FetchOrders(k)
  PROVE  ListingsTypeOK'
<1> DEFINE w == walk[k]
<1>1. w \in WalkType
  BY DEF ListingsTypeOK, WalkType
<1>2. PICK s \in Arrangements(w, RowsIn(w)) :
        LET rows == PageOf(s, w.list, w.page)
        IN  Step(k, Shown(w, rows, IF w.list = "all_orders" THEN NextOfAllOrders(w)
                                   ELSE NextOfAccountOrders(w, rows)))
  BY DEF FetchOrders
<1> DEFINE rows == PageOf(s, w.list, w.page)
           more == IF w.list = "all_orders" THEN NextOfAllOrders(w)
                   ELSE NextOfAccountOrders(w, rows)
<1>3. rows \in Seq(Products \cup Orders)
  <2>1. w.list \in Lists /\ w.page \in Nat \ {0}
    BY <1>1 DEF WalkType
  <2> HIDE DEF w
  <2>2. QED
    BY <2>1, ArrangedTyped, PageTyped
<1>4. more \in BOOLEAN
  <2>1. NextOfAllOrders(w) \in BOOLEAN
    BY DEF NextOfAllOrders
  <2>2. NextOfAccountOrders(w, rows) \in BOOLEAN
    BY DEF NextOfAccountOrders
  <2>3. QED
    BY <2>1, <2>2
<1>5. QED
  BY <1>1, <1>2, <1>3, <1>4, ShownTyped, StepTyped

LEMMA FetchIdsTyped ==
  ASSUME CatalogueTypeOK, ListingsTypeOK, NEW k \in Walks, FetchIds(k)
  PROVE  ListingsTypeOK'
<1> DEFINE w == walk[k]
<1>1. w \in WalkType
  BY DEF ListingsTypeOK, WalkType
<1>2. w.list = "products"
  BY DEF FetchIds
<1>3. PICK s \in Arrangements(w, RowsIn(w)) :
        Step(k, [w EXCEPT !.pc = "load", !.ids = PageOf(s, w.list, w.page)])
  BY DEF FetchIds
<1> DEFINE rows == PageOf(s, w.list, w.page)
<1>4. rows \in Seq(Products)
  <2>1. w.list \in Lists /\ w.page \in Nat \ {0}
    BY <1>1 DEF WalkType
  <2> HIDE DEF w
  <2>2. s \in Seq(Products)
    BY <1>2, RowsTyped, ArrangedTyped
  <2>3. QED
    BY <2>1, <2>2, PageTyped
<1>5. [w EXCEPT !.pc = "load", !.ids = rows] \in WalkType
  BY <1>1, <1>4 DEF WalkType
<1>6. QED
  BY <1>3, <1>5, StepTyped

LEMMA LoadsTyped ==
  ASSUME CatalogueTypeOK, ListingsTypeOK, NEW k \in Walks,
         LoadRows(k) \/ LoadPanics(k) \/ LoadFacets(k)
  PROVE  ListingsTypeOK'
<1> DEFINE w == walk[k]
<1>1. w \in WalkType
  BY DEF ListingsTypeOK, WalkType
<1>2. ASSUME LoadRows(k) PROVE ListingsTypeOK'
  <2> DEFINE rows  == SubSeq(w.ids, 1, Cardinality(ListByIDs(w.ids)))
             cards == [i \in DOMAIN rows |-> CardPrice(rows[i])]
             u == [w EXCEPT !.pc = "facets", !.ids = rows, !.cards = @ \o cards]
  <2>1. Step(k, u)
    BY <1>2 DEF LoadRows
  <2>2. w.ids \in Seq(Products) /\ w.cards \in Seq(Nat)
    BY <1>1 DEF WalkType
  <2>3. rows \in Seq(Products) /\ cards \in Seq(Nat)
    <3> HIDE DEF w
    <3>1. QED
      BY <2>2, LoadTyped
  <2> HIDE DEF rows, cards
  <2>4. w.cards \o cards \in Seq(Nat)
    BY <2>2, <2>3, ConcatProperties
  <2>5. u \in WalkType
    BY <1>1, <2>3, <2>4 DEF WalkType
  <2>6. QED
    BY <2>1, <2>5, StepTyped
<1>3. ASSUME LoadPanics(k) PROVE ListingsTypeOK'
  <2>1. <<>> \in Seq(Products)
    BY EmptySeq
  <2>2. [w EXCEPT !.pc = "failed", !.ids = <<>>] \in WalkType
    BY <1>1, <2>1 DEF WalkType
  <2>3. QED
    BY <1>3, <2>2, StepTyped DEF LoadPanics
<1>4. ASSUME LoadFacets(k) PROVE ListingsTypeOK'
  <2>1. w.ids \in Seq(Products \cup Orders)
    <3>1. w.ids \in Seq(Products)
      BY <1>1 DEF WalkType
    <3>2. QED
      BY <3>1, SeqMonotonic
  <2>2. NextOfProducts(w) \in BOOLEAN
    BY DEF NextOfProducts
  <2> DEFINE u == Shown(w, w.ids, NextOfProducts(w))
  <2>3. u \in WalkType
    <3> HIDE DEF w
    <3>1. QED
      BY <1>1, <2>1, <2>2, ShownTyped
  <2> HIDE DEF u
  <2>4. [u EXCEPT !.facets = Facets(w.filter)] \in WalkType
    BY <2>3, FacetsTyped DEF WalkType
  <2>5. QED
    BY <1>4, <2>4, StepTyped DEF LoadFacets, u
<1>5. QED
  BY <1>2, <1>3, <1>4

LEMMA WishesTyped ==
  ASSUME CatalogueTypeOK, ListingsTypeOK, NEW k \in Walks,
         ReadWishes(k) \/ ShowWishPage(k) \/ ShowWishes(k)
  PROVE  ListingsTypeOK'
<1> DEFINE w == walk[k]
<1>1. /\ w \in WalkType /\ w.ids \in Seq(Products) /\ w.list \in Lists
      /\ w.page \in Nat \ {0}
  BY DEF ListingsTypeOK, WalkType
<1>2. ASSUME ReadWishes(k) PROVE ListingsTypeOK'
  <2>1. wished \in Seq(Products)
    <3>1. wished \in Seq(Listable) /\ Listable \subseteq Products
      BY DEF CatalogueTypeOK, Listable
    <3> HIDE DEF Listable
    <3>2. QED
      BY <3>1, SeqMonotonic
  <2>2. [w EXCEPT !.pc = "ids", !.ids = wished] \in WalkType
    BY <1>1, <2>1 DEF WalkType
  <2>3. QED
    BY <1>2, <2>2, StepTyped DEF ReadWishes
<1>3. ListByIDs(w.ids) \subseteq Products /\ IsFiniteSet(ListByIDs(w.ids))
      /\ Cardinality(ListByIDs(w.ids)) \in Nat
  BY <1>1, FoundTyped
<1>4. ASSUME ShowWishPage(k) PROVE ListingsTypeOK'
  <2>1. PICK rows \in SetToSeqs(ListByIDs(w.ids)) : Step(k, Shown(w, rows, FALSE))
    BY <1>4 DEF ShowWishPage
  <2>2. rows \in Seq(Products \cup Orders)
    BY <1>3, InRow, SeqMonotonic
  <2>3. QED
    BY <1>1, <2>1, <2>2, ShownTyped, StepTyped
<1>5. ASSUME ShowWishes(k) PROVE ListingsTypeOK'
  <2> DEFINE found == ListByIDs(w.ids)
             pages == TotalPages(w.list, Cardinality(found))
             page  == Min({w.page, pages})
             more  == NextOfWishes(page, pages)
  <2>1. PICK s \in Arrangements(w, found) :
          Step(k, [Shown(w, PageOf(s, w.list, page), more) EXCEPT
                     !.page = IF more THEN page + 1 ELSE page])
    BY <1>5 DEF ShowWishes
  <2>2. pages \in Nat \ {0}
    BY <1>1, <1>3, PagesTyped
  <2>3. page \in Nat \ {0} /\ more \in BOOLEAN
    <3>1. more \in BOOLEAN
      BY DEF NextOfWishes
    <3> HIDE DEF pages, w, more
    <3>2. page = IF w.page <= pages THEN w.page ELSE pages
      BY <1>1, <2>2, NaturalMin
    <3>3. QED
      BY <1>1, <2>2, <3>1, <3>2
  <2>4. s \in Seq(Products \cup Orders)
    <3>1. s \in SetToSeqs(found)
      BY DEF Arrangements
    <3>2. QED
      BY <1>3, <3>1, InRow, SeqMonotonic
  <2> HIDE DEF page, more
  <2>5. PageOf(s, w.list, page) \in Seq(Products \cup Orders)
    <3> HIDE DEF w
    <3>1. QED
      BY <1>1, <2>3, <2>4, PageTyped
  <2> DEFINE u == Shown(w, PageOf(s, w.list, page), more)
  <2>6. u \in WalkType
    BY <1>1, <2>3, <2>5, ShownTyped
  <2> HIDE DEF u
  <2> DEFINE next == IF more THEN page + 1 ELSE page
  <2>7. next \in Nat \ {0}
    BY <2>3
  <2> HIDE DEF next
  <2>8. [u EXCEPT !.page = next] \in WalkType
    BY <2>6, <2>7 DEF WalkType
  <2>9. QED
    BY <2>1, <2>8, StepTyped DEF u, next
<1>6. QED
  BY <1>2, <1>4, <1>5

LEMMA BrowseTyped ==
  ASSUME CatalogueTypeOK, ListingsTypeOK, NEW k \in Walks, Browse(k)
  PROVE  ListingsTypeOK'
<1>1. ASSUME FilterForm(k) PROVE ListingsTypeOK'
  <2>1. PICK f \in FormFilters, sort \in Sorts : Visit(k, "products", f, sort)
    BY <1>1 DEF FilterForm
  <2>2. f \in Filters /\ "products" \in Lists
    BY ListingsAssumption DEF Lists
  <2>3. QED
    BY <2>1, <2>2, VisitTyped
<1>2. ASSUME StatusForm(k) PROVE ListingsTypeOK'
  <2>1. PICK list \in {"account_orders", "all_orders"}, s \in Statuses \cup {NoStatus} :
          Visit(k, list, [NoFilter EXCEPT !.status = s], "newest")
    BY <1>2 DEF StatusForm
  <2>2. [NoFilter EXCEPT !.status = s] \in Filters /\ list \in Lists /\ "newest" \in Sorts
    BY NewWalkTyped DEF Filters, Lists, Sorts
  <2>3. QED
    BY <2>1, <2>2, VisitTyped
<1>3. ASSUME NEW list \in WishLists, Visit(k, list, NoFilter, "newest")
      PROVE  ListingsTypeOK'
  <2>1. list \in Lists /\ "newest" \in Sorts
    BY DEF WishLists, Lists, Sorts
  <2>2. QED
    BY <1>3, <2>1, NewWalkTyped, VisitTyped
<1>4. QED
  BY <1>1, <1>2, <1>3, CountRowsTyped, FetchOrdersTyped, FetchIdsTyped, LoadsTyped,
     WishesTyped DEF Browse

(* What a step of somebody else leaves of a walk w.                        *)
Seen(w) ==
  LET before == RowsIn(w)
      after  == RowsIn(w)'
      came   == ~ (after \subseteq before)
  IN  [w EXCEPT !.came  = @ \/ came,
                !.late  = @ \/ (came /\ w.pc = "ids"),
                !.left  = @ \/ ~ (before \subseteq after),
                !.moved = @ \/ \E a, b \in before \cap after : Before(w, a, b) # Before(w, a, b)',
                !.priced = @ \/ \E p \in Products : CardPrice(p) # CardPrice(p)',
                !.tied  = @ \/ Ties(w)']

LEMMA Watches ==
  ASSUME Watch, NEW k \in Walks, NEW w, w = walk[k]
  PROVE  walk'[k] = IF w.pc \in {"idle", "failed", "done"} THEN w ELSE Seen(w)
<1>1. walk'[k] = Watched[w] /\ w \in {walk[j] : j \in Walks}
  BY DEF Watch
<1>2. Watched[w] = IF w.pc \in {"idle", "failed", "done"} THEN w ELSE Seen(w)
  <2>1. Watched = [v \in {walk[j] : j \in Walks} |->
                     IF v.pc \in {"idle", "failed", "done"} THEN v ELSE Seen(v)]
    BY Zenon DEF Watched, Seen
  <2>2. QED
    BY <1>1, <2>1
<1>3. QED
  BY <1>1, <1>2

LEMMA SeenTyped ==
  ASSUME NEW w \in WalkType
  PROVE  Seen(w) \in WalkType
<1> DEFINE came  == w.came \/ ~ (RowsIn(w)' \subseteq RowsIn(w))
           late  == w.late \/ (~ (RowsIn(w)' \subseteq RowsIn(w)) /\ w.pc = "ids")
           left  == w.left \/ ~ (RowsIn(w) \subseteq RowsIn(w)')
           moved == w.moved \/ \E a, b \in RowsIn(w) \cap RowsIn(w)' :
                                 Before(w, a, b) # Before(w, a, b)'
           priced == w.priced \/ \E p \in Products : CardPrice(p) # CardPrice(p)'
           tied  == w.tied \/ Ties(w)'
<1>1. /\ came \in BOOLEAN /\ late \in BOOLEAN /\ left \in BOOLEAN
      /\ moved \in BOOLEAN /\ priced \in BOOLEAN /\ tied \in BOOLEAN
  OBVIOUS
<1>2. Seen(w) = [w EXCEPT !.came = came, !.late = late, !.left = left, !.moved = moved,
                          !.priced = priced, !.tied = tied]
  BY DEF Seen
<1> HIDE DEF came, late, left, moved, priced, tied
<1>3. QED
  BY <1>1, <1>2 DEF WalkType

LEMMA WatchTyped ==
  ASSUME ListingsTypeOK, order' \in [Orders -> OrderType], Watch
  PROVE  ListingsTypeOK'
<1>1. walk \in [Walks -> WalkType]
  BY DEF ListingsTypeOK, WalkType
<1>2. ASSUME NEW k \in Walks PROVE walk'[k] \in WalkType
  <2>1. PICK w \in WalkType : w = walk[k]
    BY <1>1
  <2>2. QED
    BY <2>1, Watches, SeenTyped
<1>3. walk' \in [Walks -> WalkType]
  BY <1>2 DEF Watch
<1>4. QED
  BY <1>3 DEF ListingsTypeOK, WalkType, OrderType

(* Orders come and change their status.                                    *)
LEMMA LatestTyped ==
  ASSUME order \in [Orders -> OrderType], NEW o \in Orders
  PROVE  Latest \in Nat
<1> DEFINE born == [q \in Orders |-> order[q].born]
<1>1. \A q \in Orders : born[q] \in Nat
  BY DEF OrderType
<1>2. PICK q \in Orders : \A r \in Orders : born[r] <= born[q]
  <2> HIDE DEF born
  <2>1. QED
    BY <1>1, GreatestNumber, ListingsAssumption
<1>3. /\ order[q].born \in {order[r].born : r \in Orders}
      /\ \A n \in {order[r].born : r \in Orders} : order[q].born >= n
  BY <1>1, <1>2
<1>4. Latest \in {order[r].born : r \in Orders}
  BY <1>3 DEF Latest, Max
<1>5. QED
  BY <1>1, <1>4

LEMMA OrdersMoveTyped ==
  ASSUME ListingsTypeOK, OrdersMove
  PROVE  order' \in [Orders -> OrderType]
<1>1. order \in [Orders -> OrderType]
  BY DEF ListingsTypeOK, OrderType
<1>2. ASSUME NEW o \in Orders, NEW status \in Statuses, OrderMoves(o, status)
      PROVE  order' \in [Orders -> OrderType]
  BY <1>1, <1>2 DEF OrderMoves, OrderType
<1>3. ASSUME NEW o \in Orders, NEW status \in Statuses, NEW mine \in BOOLEAN,
             NEW time \in {Latest, Latest + 1}, OrderArrives(o, status, mine, time)
      PROVE  order' \in [Orders -> OrderType]
  <2>1. time \in Nat
    BY <1>1, LatestTyped
  <2>2. [status |-> status, mine |-> mine, born |-> time] \in OrderType
    BY <2>1 DEF OrderType
  <2>3. QED
    BY <1>1, <1>3, <2>2 DEF OrderArrives
<1>4. QED
  BY <1>2, <1>3 DEF OrdersMove

LEMMA ListingsInitTyped == ASSUME ListingsInit PROVE ListingsTypeOK
  BY NewWalkTyped, ListingsAssumption DEF ListingsInit, ListingsTypeOK, WalkType

LEMMA ListingsStepTyped ==
  ASSUME Typed, ListingsTypeOK, [StorefrontNext]_storefrontVars
  PROVE  ListingsTypeOK'
<1>1. CatalogueTypeOK
  BY DEF Typed
<1>2. order \in [Orders -> OrderType]
  BY DEF ListingsTypeOK, OrderType
<1>3. ASSUME NEW k \in Walks, Browse(k) PROVE ListingsTypeOK'
  BY <1>1, <1>3, BrowseTyped
<1>4. CASE UNCHANGED storefrontVars
  BY <1>4 DEF storefrontVars, ListingsTypeOK
<1>5. QED
  BY <1>2, <1>3, <1>4, WatchTyped, OrdersMoveTyped DEF StorefrontNext

(* All of the shop has its types, and the rows that refer to each other    *)
(* are there: a picture to its product, a variant on sale to its product,  *)
(* a wish to a product, a line of the account's cart to a variant on sale. *)
THEOREM StorefrontTypeCorrect == StorefrontSpec => []StorefrontTypeOK
<1>1. StorefrontInit => ListingsTypeOK
  BY ListingsInitTyped DEF StorefrontInit
<1>2. Typed /\ ListingsTypeOK /\ [StorefrontNext]_storefrontVars => ListingsTypeOK'
  BY ListingsStepTyped
<1>3. Typed /\ ListingsTypeOK => StorefrontTypeOK
  BY DEF Typed, CartsTyped, RowsThere, StorefrontTypeOK
<1>4. QED
  BY <1>1, <1>2, <1>3, AlwaysTyped, PTL DEF StorefrontSpec
-----------------------------------------------------------------------------
(* Pictures.  A key is used by one upload: until its row is entered no row *)
(* and no other errand knows the file.  An errand that deletes knows the   *)
(* row, and the row keeps its file for as long as it is there; once the    *)
(* file is deleted it is not coming back, and the row is the last with it. *)
Unused(e) ==
  /\ RowsOf(e) = {} /\ image[e] = NoImage
  /\ \A d \in Errands \ {e} : errand[d].file # e

Picture(e) ==
  LET q == errand[e]
  IN  /\ q.pc \in {"idle", "insert", "undo"} => Unused(e)
      /\ q.pc = "idle" => e \notin files
      /\ q.pc \in {"insert", "undo"} => q.file = e /\ e \in files
      /\ q.pc \in {"idle", "form", "done"} => q.file = NoFile
      /\ q.pc \in {"unlink", "drop"} =>
           /\ q.at \in Rows /\ image[q.at] # NoImage
           /\ IsRow(q.at) => image[q.at].file = q.file
      /\ q.pc = "drop" =>
           /\ q.file \notin files
           /\ q.file \in Keys \ spoiled => RowsOf(q.file) \subseteq {q.at}

Pictures == (\A e \in Errands : Picture(e)) /\ ImagesExplained

(* What a row is.                                                          *)
LEMMA RowFacts ==
  ASSUME CatalogueTypeOK
  PROVE  /\ errand \in [Errands -> ErrandType]
         /\ DOMAIN image = Rows /\ files \subseteq Keys /\ Errands \subseteq Keys
         /\ Keys \subseteq Rows /\ NoFile \notin Keys /\ Links \cap Keys = {}
         /\ \A i \in Rows : IsRow(i) => image[i].file \in Keys \cup {NoFile}
         /\ \A i \in Rows : image[i] = NoImage => ~ IsRow(i)
         /\ \A i \in Rows : image[i] = Gone => ~ IsRow(i)
         /\ NoImage # Gone
         /\ \A p \in Listable, f \in Keys \cup {NoFile} :
              [product |-> p, file |-> f] \notin {NoImage, Gone}
<1>1. errand \in [Errands -> ErrandType] /\ DOMAIN image = Rows /\ files \subseteq Keys
  BY DEF CatalogueTypeOK, ErrandType
<1>2. image \in [Rows -> {NoImage, Gone} \cup ImageType]
  BY DEF CatalogueTypeOK, ImageType
<1>3. /\ Errands \subseteq Keys /\ Keys \subseteq Rows /\ NoFile \notin Keys
      /\ Links \cap Keys = {} /\ NoImage # Gone
  BY CatalogueAssumption DEF Keys, Rows
<1>4. \A p \in Listable, f \in Keys \cup {NoFile} :
        [product |-> p, file |-> f] \notin {NoImage, Gone}
  BY CatalogueAssumption DEF Listable
<1>5. \A i \in Rows : IsRow(i) => image[i].file \in Keys \cup {NoFile}
  BY <1>2 DEF IsRow, ImageType
<1>6. QED
  BY <1>1, <1>3, <1>4, <1>5 DEF IsRow

(* A step of nobody's errand that keeps the rows, or drops some whose      *)
(* files are noted as spoiled.                                             *)
LEMMA PicturesStay ==
  ASSUME CatalogueTypeOK, Pictures, UNCHANGED <<files, errand>>,
         NEW gone \in SUBSET Rows,
         image' = [i \in Rows |-> IF i \in gone THEN Gone ELSE image[i]],
         \A i \in gone : IsRow(i),
         spoiled' = spoiled \cup {k \in Keys : RowsOf(k) \cap gone # {}}
  PROVE  Pictures'
<1> USE RowFacts
<1>1. \A k \in Keys : RowsOf(k)' = RowsOf(k) \ gone
  BY DEF RowsOf, IsRow
<1>2. \A k \in Keys \ spoiled' : k \in Keys \ spoiled /\ RowsOf(k)' = RowsOf(k)
  BY <1>1
<1>3. \A i \in Rows : image'[i] = NoImage <=> image[i] = NoImage
  BY DEF IsRow
<1>4. \A i \in Rows : IsRow(i)' => IsRow(i) /\ image'[i] = image[i]
  BY DEF IsRow
<1>5. ASSUME NEW e \in Errands PROVE Picture(e)'
  <2>1. Picture(e)
    BY DEF Pictures
  <2>2. Unused(e) => Unused(e)'
    BY <1>1, <1>3 DEF Unused
  <2> HIDE DEF RowsOf, IsRow, Unused
  <2>3. QED
    BY <1>1, <1>2, <1>3, <1>4, <2>1, <2>2 DEF Picture
<1>6. ImagesExplained'
  BY <1>2 DEF Pictures, ImagesExplained, Sharing
<1>7. QED
  BY <1>5, <1>6 DEF Pictures

LEMMA NoPictures ==
  ASSUME CatalogueTypeOK, Pictures, UNCHANGED <<files, errand, image, spoiled>>
  PROVE  Pictures'
  BY DEF Pictures, Picture, Unused, RowsOf, IsRow, ImagesExplained, Sharing

(* What the other requests of the back office do to the pictures.          *)
LEMMA OfficePictures ==
  ASSUME CatalogueTypeOK, Pictures, NEW referenced, Office(referenced)
  PROVE  Pictures'
<1>1. ASSUME NEW p \in Products, DeleteProduct(p, referenced) PROVE Pictures'
  <2> DEFINE gone == {i \in Rows : IsRow(i) /\ image[i].product = p}
  <2>1. /\ UNCHANGED <<files, errand>> /\ gone \in SUBSET Rows /\ \A i \in gone : IsRow(i)
        /\ image' = [i \in Rows |-> IF i \in gone THEN Gone ELSE image[i]]
    BY <1>1 DEF DeleteProduct, WithoutImages
  <2>2. spoiled' = spoiled \cup {k \in Keys : RowsOf(k) \cap gone # {}}
    BY <1>1 DEF DeleteProduct, RowsOf
  <2> HIDE DEF gone
  <2>3. QED
    BY <2>1, <2>2, PicturesStay
<1>2. ASSUME NEW i \in Links, NEW p \in Products, NEW file \in Keys \cup {NoFile},
             AddImage(i, p, file)
      PROVE  Pictures'
  <2> USE RowFacts
  <2>1. /\ image[i] = NoImage /\ p \in Listable /\ i \in Rows /\ i \notin Keys
        /\ file = NoFile \/ (file \in files /\ RowsOf(file) # {})
        /\ image' = [image EXCEPT ![i] = [product |-> p, file |-> file]]
        /\ UNCHANGED <<files, errand, spoiled>>
    BY <1>2 DEF AddImage, NewImage, Rows
  <2>2. \A k \in Keys : RowsOf(k)' = RowsOf(k) \cup (IF k = file THEN {i} ELSE {})
    BY <2>1 DEF RowsOf, IsRow
  <2>3. \A j \in Rows : j # i => image'[j] = image[j]
    BY <2>1
  <2>4. image'[i] # NoImage /\ ~ IsRow(i)
    BY <2>1 DEF IsRow
  <2>5. ASSUME NEW e \in Errands PROVE Picture(e)'
    <3>1. Picture(e) /\ e \in Rows /\ e # i
      BY <2>1 DEF Pictures
    <3>2. Unused(e) => Unused(e)'
      BY <2>1, <2>2, <2>3, <3>1 DEF Unused
    <3>3. errand[e].pc = "drop" /\ errand[e].file \in Keys => errand[e].file # file
      BY <2>1, <3>1 DEF Picture
    <3>4. errand[e].pc \in {"unlink", "drop"} => errand[e].at # i
      BY <2>1, <3>1 DEF Picture
    <3>5. \A j \in Rows : j # i => (IsRow(j)' <=> IsRow(j))
      BY <2>3 DEF IsRow
    <3> HIDE DEF RowsOf, IsRow, Unused
    <3>6. QED
      BY <2>1, <2>2, <2>3, <3>1, <3>2, <3>3, <3>4, <3>5 DEF Picture
  <2>6. ImagesExplained'
    BY <2>1, <2>2 DEF Pictures, ImagesExplained, Sharing
  <2>7. QED
    BY <2>5, <2>6 DEF Pictures
<1>3. QED
  BY <1>1, <1>2, NoPictures DEF Office, UpdateProduct, CreateProduct, AddVariant, DeleteVariant

(* A step of one errand, for the others.                                   *)
LEMMA OthersPictured ==
  ASSUME Pictures, NEW e \in Errands,
         \A d \in Errands \ {e} : errand'[d] = errand[d],
         \A d \in Errands \ {e} : Unused(d) => Unused(d)' /\ (d \in files' <=> d \in files),
         \A i \in Rows : image[i] # NoImage =>
           image'[i] # NoImage /\ (IsRow(i)' => IsRow(i) /\ image'[i] = image[i]),
         spoiled \subseteq spoiled',
         \A d \in Errands \ {e} : LET k == errand[d].file IN errand[d].pc = "drop" =>
           k \notin files' /\ (k \in Keys \ spoiled' => RowsOf(k)' \subseteq RowsOf(k))
  PROVE  \A d \in Errands \ {e} : Picture(d)'
<1> TAKE d \in Errands \ {e}
<1>1. Picture(d) /\ errand'[d] = errand[d] /\ (Unused(d) => Unused(d)')
  BY DEF Pictures
<1> HIDE DEF RowsOf, IsRow, Unused
<1>2. errand[d].pc \in {"unlink", "drop"} => image'[errand[d].at] # NoImage
  BY <1>1 DEF Picture
<1>3. errand[d].pc \in {"unlink", "drop"} /\ IsRow(errand[d].at)' =>
        image'[errand[d].at].file = errand[d].file
  BY <1>1 DEF Picture
<1>4. QED
  BY <1>1, <1>2, <1>3 DEF Picture

LEMMA RunErrandPictures ==
  ASSUME CatalogueTypeOK, Pictures, NEW e \in Errands, RunErrand(e)
  PROVE  Pictures'
<1> DEFINE q == errand[e]
<1> USE RowFacts
<1>1. q \in ErrandType /\ Picture(e) /\ e \in Keys /\ e # NoFile
  BY DEF Pictures
<1>2. \A d \in Errands \ {e} : Picture(d) /\ d # e /\ d \in Keys /\ d \in Rows
  BY DEF Pictures
<1>3. ASSUME NEW v \in Variants, EditForm(e, v) PROVE Pictures'
  <2>1. /\ q.pc = "idle" /\ errand'[e].pc = "form" /\ errand'[e].file = NoFile
        /\ \A d \in Errands \ {e} : errand'[d] = errand[d]
        /\ UNCHANGED <<image, files, spoiled>>
    BY <1>3, <1>1 DEF EditForm, Begin, ErrandType
  <2>2. \A d \in Errands \ {e} : Unused(d) => Unused(d)'
    BY <2>1, <1>2 DEF Unused, RowsOf, IsRow
  <2>3. \A d \in Errands \ {e} : Picture(d)'
    BY <2>1, <2>2, <1>2, OthersPictured DEF RowsOf, IsRow, Picture
  <2>4. Picture(e)'
    BY <2>1 DEF Picture
  <2>5. ImagesExplained'
    BY <2>1 DEF Pictures, ImagesExplained, Sharing, RowsOf, IsRow
  <2>6. QED
    BY <2>3, <2>4, <2>5 DEF Pictures
<1>4. ASSUME NEW v \in Variants, NEW price, NEW n, q.at = v, UpdateVariant(e, price, n)
      PROVE  Pictures'
  <2>1. /\ q.pc = "form" /\ errand'[e].pc = "done" /\ errand'[e].file = NoFile
        /\ \A d \in Errands \ {e} : errand'[d] = errand[d]
        /\ UNCHANGED <<image, files, spoiled>>
    BY <1>4, <1>1 DEF UpdateVariant, Go, ErrandType, NewErrand
  <2>2. \A d \in Errands \ {e} : Unused(d) => Unused(d)'
    BY <2>1, <1>2 DEF Unused, RowsOf, IsRow
  <2>3. \A d \in Errands \ {e} : Picture(d)'
    BY <2>1, <2>2, <1>2, OthersPictured DEF RowsOf, IsRow, Picture
  <2>4. Picture(e)'
    BY <2>1 DEF Picture
  <2>5. ImagesExplained'
    BY <2>1 DEF Pictures, ImagesExplained, Sharing, RowsOf, IsRow
  <2>6. QED
    BY <2>3, <2>4, <2>5 DEF Pictures
<1>5. ASSUME NEW p \in Products, PutFile(e, p) PROVE Pictures'
  <2>1. /\ q.pc = "idle" /\ errand'[e].pc = "insert" /\ errand'[e].file = e
        /\ \A d \in Errands \ {e} : errand'[d] = errand[d]
        /\ files' = files \cup {e} /\ UNCHANGED <<image, spoiled>>
    BY <1>5, <1>1 DEF PutFile, Begin, ErrandType
  <2>2. Unused(e) /\ Unused(e)'
    BY <2>1, <1>1 DEF Picture, Unused, RowsOf, IsRow
  <2>3. \A d \in Errands \ {e} : Unused(d) => Unused(d)' /\ (d \in files' <=> d \in files)
    BY <2>1, <1>2 DEF Unused, RowsOf, IsRow
  <2>4. \A d \in Errands \ {e} : errand[d].file # e
    BY <2>2 DEF Unused
  <2>5. \A d \in Errands \ {e} : Picture(d)'
    BY <2>1, <2>3, <2>4, <1>2, OthersPictured DEF RowsOf, IsRow, Picture
  <2>6. Picture(e)'
    BY <2>1, <2>2 DEF Picture
  <2>7. \A k \in Keys : Sharing(k) => Sharing(k)'
    BY <2>1 DEF Sharing
  <2>8. Sharing(e)'
    BY <2>1 DEF Sharing
  <2>9. ImagesExplained'
    BY <2>1, <2>7, <2>8 DEF Pictures, ImagesExplained, RowsOf, IsRow
  <2>10. QED
    BY <2>5, <2>6, <2>9 DEF Pictures
<1>6. ASSUME NEW i \in Rows, GetImage(e, i) PROVE Pictures'
  <2>1. /\ q.pc = "idle" /\ IsRow(i) /\ image[i] # NoImage
        /\ errand'[e].pc = "unlink" /\ errand'[e].file = image[i].file /\ errand'[e].at = i
        /\ \A d \in Errands \ {e} : errand'[d] = errand[d]
        /\ UNCHANGED <<image, files, spoiled>>
    BY <1>6, <1>1 DEF GetImage, Begin, ErrandType
  <2>2. \A d \in Errands \ {e} : Unused(d) => image[i].file # d
    BY <2>1 DEF Unused, RowsOf
  <2>3. \A d \in Errands \ {e} : Unused(d) => Unused(d)'
    BY <2>1, <2>2 DEF Unused, RowsOf, IsRow
  <2>4. \A d \in Errands \ {e} : Picture(d)'
    BY <2>1, <2>3, <1>2, OthersPictured DEF RowsOf, IsRow, Picture
  <2>5. Picture(e)'
    BY <2>1 DEF Picture, IsRow
  <2>6. ImagesExplained'
    BY <2>1 DEF Pictures, ImagesExplained, Sharing, RowsOf, IsRow
  <2>7. QED
    BY <2>4, <2>5, <2>6 DEF Pictures
<1>7. ASSUME InsertImage(e) PROVE Pictures'
  <2>1. /\ q.pc = "insert" /\ q.file = e /\ Unused(e) /\ e \in files
        /\ errand'[e].pc = "done" /\ errand'[e].file = NoFile
        /\ \A d \in Errands \ {e} : errand'[d] = errand[d]
        /\ UNCHANGED <<files, spoiled>>
        /\ q.at \in Listable
        /\ image' = [image EXCEPT ![e] = [product |-> q.at, file |-> e]]
    BY <1>7, <1>1 DEF InsertImage, NewImage, Go, ErrandType, NewErrand, Picture
  <2>2. /\ image'[e].file = e /\ image'[e] \notin {NoImage, Gone} /\ IsRow(e)'
        /\ \A i \in Rows : i # e => image'[i] = image[i]
        /\ image[e] = NoImage
    BY <2>1, <1>1 DEF IsRow, Unused
  <2>3. \A k \in Keys : RowsOf(k)' = RowsOf(k) \cup (IF k = e THEN {e} ELSE {})
    BY <2>1, <2>2 DEF RowsOf, IsRow
  <2>4. \A d \in Errands \ {e} : errand[d].file # e
    BY <2>1 DEF Unused
  <2>5. \A d \in Errands \ {e} : Unused(d) => Unused(d)'
    BY <2>1, <2>2, <2>3, <1>1, <1>2 DEF Unused
  <2>6. \A i \in Rows : image[i] # NoImage =>
          image'[i] # NoImage /\ (IsRow(i)' => IsRow(i) /\ image'[i] = image[i])
    BY <2>2 DEF IsRow
  <2>7. \A d \in Errands \ {e} : Picture(d)'
    <3> HIDE DEF RowsOf, IsRow, Unused
    <3>1. QED
      BY <2>1, <2>3, <2>4, <2>5, <2>6, <1>2, OthersPictured DEF Picture
  <2>8. Picture(e)'
    BY <2>1 DEF Picture
  <2>9. ImagesExplained'
    BY <2>1, <2>3 DEF Pictures, ImagesExplained, Sharing
  <2>10. QED
    BY <2>7, <2>8, <2>9 DEF Pictures
<1>8. ASSUME NoRow(e) PROVE Pictures'
  <2>1. /\ q.pc = "insert" /\ errand'[e].pc = "undo" /\ errand'[e].file = q.file
        /\ \A d \in Errands \ {e} : errand'[d] = errand[d]
        /\ UNCHANGED <<image, files, spoiled>>
    BY <1>8, <1>1 DEF NoRow, Go, ErrandType
  <2>2. \A d \in Errands : Unused(d) => Unused(d)'
    BY <2>1, <1>2 DEF Unused, RowsOf, IsRow
  <2>3. \A d \in Errands \ {e} : Picture(d)'
    BY <2>1, <2>2, <1>2, OthersPictured DEF RowsOf, IsRow, Picture
  <2>4. Picture(e)'
    BY <2>1, <2>2, <1>1 DEF Picture
  <2>5. ImagesExplained'
    BY <2>1 DEF Pictures, ImagesExplained, Sharing, RowsOf, IsRow
  <2>6. QED
    BY <2>3, <2>4, <2>5 DEF Pictures
<1>9. ASSUME UndoPut(e) PROVE Pictures'
  <2>1. /\ q.pc = "undo" /\ q.file = e /\ Unused(e)
        /\ errand'[e].pc = "done" /\ errand'[e].file = NoFile
        /\ \A d \in Errands \ {e} : errand'[d] = errand[d]
        /\ files' = files \ {e} /\ UNCHANGED <<image, spoiled>>
    BY <1>9, <1>1 DEF UndoPut, Go, ErrandType, NewErrand, Picture
  <2>2. \A d \in Errands \ {e} : Unused(d) => Unused(d)' /\ (d \in files' <=> d \in files)
    BY <2>1, <1>2 DEF Unused, RowsOf, IsRow
  <2>3. \A d \in Errands \ {e} : Picture(d)'
    BY <2>1, <2>2, <1>2, OthersPictured DEF RowsOf, IsRow, Picture
  <2>4. Picture(e)'
    BY <2>1 DEF Picture
  <2>5. ImagesExplained'
    BY <2>1 DEF Pictures, ImagesExplained, Sharing, RowsOf, IsRow, Unused
  <2>6. QED
    BY <2>3, <2>4, <2>5 DEF Pictures
<1>10. ASSUME DeleteFile(e) PROVE Pictures'
  <2>1. /\ q.pc = "unlink" /\ q.at \in Rows /\ image[q.at] # NoImage
        /\ IsRow(q.at) => image[q.at].file = q.file
    BY <1>10, <1>1 DEF DeleteFile, Picture
  <2>2. /\ files' = files \ {q.file} /\ UNCHANGED image
        /\ spoiled' = IF RowsOf(q.file) \subseteq {q.at} THEN spoiled
                      ELSE spoiled \cup ({q.file} \cap Keys)
        /\ \A d \in Errands \ {e} : errand'[d] = errand[d]
    BY <1>10 DEF DeleteFile, Go
  <2>3. \/ errand'[e].pc = "drop" /\ errand'[e].file = q.file /\ errand'[e].at = q.at
        \/ errand'[e].pc = "done" /\ errand'[e].file = NoFile /\ q.file \notin files
    BY <1>10, <1>1 DEF DeleteFile, Go, ErrandType, NewErrand, DeleteWorks
  <2>4. \A d \in Errands \ {e} : Unused(d) => Unused(d)' /\ q.file # d
    BY <2>2, <2>3, <1>2 DEF Unused, RowsOf, IsRow
  <2>5. spoiled \subseteq spoiled' /\ files' \subseteq files
        /\ \A k : RowsOf(k)' = RowsOf(k)
    BY <2>2 DEF RowsOf, IsRow
  <2>6. \A d \in Errands \ {e} : Picture(d)'
    BY <2>2, <2>4, <2>5, <1>2, OthersPictured DEF Picture, IsRow
  <2>7. q.file \in Keys \ spoiled' => RowsOf(q.file) \subseteq {q.at}
    BY <2>2
  <2>8. Picture(e)'
    BY <2>1, <2>2, <2>3, <2>5, <2>7 DEF Picture, IsRow
  <2>9. \A k \in Keys : Sharing(k) => Sharing(k)'
    BY <2>1, <2>2 DEF Sharing
  <2>10. ASSUME NEW k \in Keys \ spoiled', ~ Sharing(k)'
         PROVE  (k \in files') <=> (RowsOf(k)' # {})
    <3>1. (k \in files) <=> (RowsOf(k) # {})
      BY <2>5, <2>9, <2>10 DEF Pictures, ImagesExplained
    <3>2. CASE errand'[e].pc = "drop"
      <4>1. k # q.file
        BY <2>3, <2>10, <3>2 DEF Sharing
      <4>2. QED
        BY <2>2, <2>5, <3>1, <4>1
    <3>3. CASE errand'[e].pc = "done"
      BY <2>2, <2>3, <2>5, <3>1, <3>3
    <3>4. QED
      BY <2>3, <3>2, <3>3
  <2>11. QED
    BY <2>6, <2>8, <2>10 DEF Pictures, ImagesExplained
<1>11. ASSUME DeleteImage(e) PROVE Pictures'
  <2>1. /\ q.pc = "drop" /\ q.at \in Rows /\ image[q.at] # NoImage
        /\ IsRow(q.at) => image[q.at].file = q.file
        /\ q.file \notin files
        /\ q.file \in Keys \ spoiled => RowsOf(q.file) \subseteq {q.at}
    BY <1>11, <1>1 DEF DeleteImage, Picture
  <2>2. /\ errand'[e].pc = "done" /\ errand'[e].file = NoFile
        /\ UNCHANGED <<files, spoiled>>
        /\ image' = [i \in Rows |-> IF i = q.at THEN Gone ELSE image[i]]
        /\ \A d \in Errands \ {e} : errand'[d] = errand[d]
    BY <1>11, <1>1 DEF DeleteImage, WithoutImages, Go, ErrandType, NewErrand
  <2>3. \A k \in Keys : RowsOf(k)' = RowsOf(k) \ {q.at}
    BY <2>1, <2>2 DEF RowsOf, IsRow
  <2>4. \A i \in Rows : (image'[i] = NoImage <=> image[i] = NoImage)
    BY <2>1, <2>2
  <2>5. \A d \in Errands \ {e} : Unused(d) => Unused(d)'
    BY <2>2, <2>3, <2>4, <1>2 DEF Unused
  <2>6. \A i \in Rows : IsRow(i)' => IsRow(i) /\ image'[i] = image[i]
    BY <2>2 DEF IsRow
  <2>7. \A d \in Errands \ {e} : Picture(d)'
    <3> HIDE DEF RowsOf, IsRow, Unused
    <3>1. QED
      BY <2>2, <2>3, <2>4, <2>5, <2>6, <1>2, OthersPictured DEF Picture
  <2>8. Picture(e)'
    BY <2>2 DEF Picture
  <2>9. ASSUME NEW k \in Keys \ spoiled', ~ Sharing(k)'
        PROVE  (k \in files') <=> (RowsOf(k)' # {})
    <3>1. CASE k = q.file
      BY <2>1, <2>2, <2>3, <3>1
    <3>2. CASE k # q.file
      <4>1. ~ Sharing(k)
        BY <2>2, <2>9, <3>2 DEF Sharing
      <4>2. RowsOf(k)' = RowsOf(k)
        BY <2>1, <2>3, <3>2 DEF RowsOf
      <4>3. QED
        BY <2>2, <4>1, <4>2 DEF Pictures, ImagesExplained
    <3>3. QED
      BY <3>1, <3>2
  <2>10. QED
    BY <2>7, <2>8, <2>9 DEF Pictures, ImagesExplained
<1>12. ASSUME GiveUp(e) PROVE Pictures'
  <2>1. /\ q.pc \in {"insert", "undo", "unlink", "drop"}
        /\ errand'[e].pc = "done" /\ errand'[e].file = NoFile
        /\ UNCHANGED <<image, files>>
        /\ spoiled' = IF q.pc = "unlink" THEN spoiled ELSE spoiled \cup ({q.file} \cap Keys)
        /\ \A d \in Errands \ {e} : errand'[d] = errand[d]
    BY <1>12, <1>1 DEF GiveUp, Go, ErrandType, NewErrand
  <2>2. \A d \in Errands \ {e} : Unused(d) => Unused(d)'
    BY <2>1, <1>2 DEF Unused, RowsOf, IsRow
  <2>3. spoiled \subseteq spoiled' /\ \A k : RowsOf(k)' = RowsOf(k)
    BY <2>1 DEF RowsOf, IsRow
  <2>4. \A d \in Errands \ {e} : Picture(d)'
    BY <2>1, <2>2, <2>3, <1>2, OthersPictured DEF Picture, IsRow
  <2>5. Picture(e)'
    BY <2>1 DEF Picture
  <2>6. \A k \in Keys \ spoiled' : Sharing(k) => Sharing(k)'
    BY <2>1 DEF Sharing
  <2>7. ImagesExplained'
    BY <2>1, <2>3, <2>6 DEF Pictures, ImagesExplained
  <2>8. QED
    BY <2>4, <2>5, <2>7 DEF Pictures
<1>13. QED
  BY <1>3, <1>4, <1>5, <1>6, <1>7, <1>8, <1>9, <1>10, <1>11, <1>12 DEF RunErrand

(* A stored file and its row in the database come and go together, for     *)
(* any number of uploads and deletions at once, unless a step failed or    *)
(* the file was shared by its address.                                     *)
THEOREM PicturesComeWithTheirFiles == StorefrontSpec => []ImagesExplained
<1>1. StorefrontInit => Pictures
  <2> SUFFICES ASSUME StorefrontInit PROVE Pictures
    OBVIOUS
  <2>1. CatalogueTypeOK
    BY CatalogueInitTyped DEF StorefrontInit
  <2>2. /\ image = [i \in Rows |-> IF i = OldImage
                      THEN [product |-> CHOOSE p \in Listable : TRUE, file |-> OldImage]
                      ELSE NoImage]
        /\ files = {OldImage} /\ errand = [e \in Errands |-> NewErrand]
    BY DEF StorefrontInit, CatalogueInit
  <2>3. OldImage \in Rows /\ OldImage \notin Errands
    BY CatalogueAssumption DEF Rows, Keys
  <2>4. Listable # {}
    <3>1. limit \in Scenarios /\ product = limit.products
      BY DEF StorefrontInit, CatalogueInit
    <3>2. QED
      BY <3>1, ScenarioAssumption DEF Listable
  <2>5. image[OldImage] \notin {NoImage, Gone} /\ image[OldImage].file = OldImage
    <3> DEFINE p == CHOOSE p \in Listable : TRUE
    <3>1. p \in Listable /\ OldImage \in Keys
      BY <2>4 DEF Keys
    <3>2. QED
      BY <2>1, <2>2, <2>3, <3>1, RowFacts
  <2>6. \A i \in Rows : IsRow(i) <=> i = OldImage
    BY <2>2, <2>3, <2>5 DEF IsRow
  <2>7. \A k \in Keys : RowsOf(k) = IF k = OldImage THEN {OldImage} ELSE {}
    BY <2>3, <2>5, <2>6 DEF RowsOf
  <2>8. \A e \in Errands : Picture(e)
    BY <2>1, <2>2, <2>3, <2>7, RowFacts DEF Picture, Unused, NewErrand
  <2>9. QED
    BY <2>2, <2>7, <2>8 DEF Pictures, ImagesExplained
<1>2. Typed /\ Pictures /\ [StorefrontNext]_storefrontVars => Pictures'
  <2> SUFFICES ASSUME Typed, Pictures, [StorefrontNext]_storefrontVars PROVE Pictures'
    OBVIOUS
  <2>1. CatalogueTypeOK
    BY DEF Typed
  <2>2. CASE UNCHANGED officeVars
    BY <2>1, <2>2, NoPictures DEF officeVars
  <2>3. ASSUME CartsStep PROVE UNCHANGED <<files, errand, image, spoiled>>
    BY <2>3 DEF CartsStep, PlaceOrder, officeVars
  <2>4. ASSUME Wish PROVE UNCHANGED <<files, errand, image, spoiled>>
    BY <2>4 DEF Wish, AddWish, RemoveWish
  <2>5. QED
    BY <2>1, <2>2, <2>3, <2>4, StepCases, NoPictures, OfficePictures, RunErrandPictures
<1>3. Pictures => ImagesExplained
  BY DEF Pictures
<1>4. QED
  BY <1>1, <1>2, <1>3, AlwaysTyped, PTL DEF StorefrontSpec
-----------------------------------------------------------------------------
(* Units.  What a request may write, it has announced: the lines of the    *)
(* account it has still to write or has written, and the cookie it will    *)
(* answer with.                                                            *)
Reach(q) ==
  /\ q.pc \in InFlight => \A p \in Places, v \in Variants :
       <<p, v>> \in q.touch => p \in {Account, q.from}
  /\ q.pc \in InFlight /\ q.cookie # NoCookie => {q.from} \X Variants \subseteq q.touch
  /\ q.pc \in OnServer /\ q.kind \in {"add", "login", "remove"} =>
       \A v \in Variants : v \in q.todo \/ q.lines[v] > 0 => <<Account, v>> \in q.touch
  /\ q.pc \in OnServer /\ q.kind = "login" => {q.from} \X Variants \subseteq q.touch
  /\ q.pc \in OnServer /\ q.kind = "checkout" => q.touch = {Account} \X Variants
  /\ q.pc \in OnServer /\ q.kind = "guest checkout" => q.touch = {q.from} \X Variants
  /\ q.pc \in OnServer /\ (q.kind = "add" \/ q.pc \in {"cart", "create"}) =>
       \A v \in Variants : q.lines[v] > 0 => v \in q.todo
  /\ q.pc \in OnServer /\ q.kind = "add" => \A v, w \in q.todo : v = w

(* A place holds as many units of a variant as are booked for it and, in   *)
(* the account, those that the request at work has added but not finished  *)
(* with; a cookie on its way has what is booked.  What the request has     *)
(* read is still so.                                                       *)
Tally(q, p, v, held, n) ==
  IF p = Account
  THEN /\ held = n + (IF q.kind \in {"add", "login"} /\ v \notin q.todo THEN q.lines[v] ELSE 0)
       /\ q.pc = "write" /\ q.at = v => q.seen = held
       /\ q.pc = "commit" => q.lines[v] = held
  ELSE /\ n = IF q.cookie = NoCookie THEN held ELSE q.cookie[v]
       /\ q.pc = "commit" => q.lines[v] = held

Balanced(q, p, v, held, n) ==
  IF <<p, v>> \in Touched(q) THEN Tally(q, p, v, held, n) ELSE held = n

(* A line that is not disturbed has one request at most, and its tally.    *)
Line(p, v) ==
  \/ <<p, v>> \in disturbed
  \/ /\ \A r, s \in Requests :
          <<p, v>> \in Touched(request[r]) \cap Touched(request[s]) => r = s
     /\ (\A r \in Requests : <<p, v>> \notin Touched(request[r])) =>
          Contents(p)[v] = booked[p][v]
     /\ \A r \in Requests : <<p, v>> \in Touched(request[r]) =>
          Tally(request[r], p, v, Contents(p)[v], booked[p][v])

(* No sum is larger than what has been added.                              *)
Bounded ==
  \A v \in Variants :
    /\ items[v] <= added[v]
    /\ \A r \in Requests :
         /\ request[r].kind = "checkout" => request[r].lines[v] <= added[v]
         /\ request[r].pc = "write" /\ request[r].at = v => request[r].seen <= added[v]

Stocked ==
  \A v \in Variants : v \in overwritten \/ (variant[v].stock = due[v] /\ due[v] >= 0)

Units ==
  /\ \A r \in Requests : Reach(request[r])
  /\ \A p \in Places, v \in Variants : Line(p, v)
  /\ Bounded

LEMMA TouchedLine ==
  ASSUME NEW q, NEW p, NEW v
  PROVE  <<p, v>> \in Touched(q) <=>
           /\ <<p, v>> \in q.touch
           /\ q.pc \in OnServer \/ (q.pc = "reply" /\ p \in Browsers)
  BY DEF Touched

(* A step of one request, seen from one line: it has nothing to do with it *)
(* or is the only one that has, and the tally is kept.                     *)
Minds(r, p, v) ==
  \/ <<p, v>> \in disturbed'
  \/ /\ <<p, v>> \notin Touched(request[r]) /\ <<p, v>> \notin Touched(request'[r])
     /\ Contents(p)'[v] = Contents(p)[v] /\ booked'[p][v] = booked[p][v]
  \/ /\ \/ <<p, v>> \in Touched(request[r])
        \/ \A s \in Requests \ {r} : <<p, v>> \notin Touched(request[s])
     /\ Balanced(request[r], p, v, Contents(p)[v], booked[p][v]) =>
          Balanced(request'[r], p, v, Contents(p)'[v], booked'[p][v])

LEMMA OneLineKept ==
  ASSUME NEW p \in Places, NEW v \in Variants, Line(p, v), NEW r \in Requests,
         \A s \in Requests \ {r} : request'[s] = request[s],
         disturbed \subseteq disturbed', Minds(r, p, v)
  PROVE  Line(p, v)'
<1> DEFINE t == <<p, v>>
<1> SUFFICES ASSUME t \notin disturbed'
             PROVE  Line(p, v)'
  BY DEF Line
<1>1. /\ \A s1, s2 \in Requests :
           t \in Touched(request[s1]) \cap Touched(request[s2]) => s1 = s2
      /\ (\A s \in Requests : t \notin Touched(request[s])) =>
           Contents(p)[v] = booked[p][v]
      /\ \A s \in Requests : t \in Touched(request[s]) =>
           Tally(request[s], p, v, Contents(p)[v], booked[p][v])
  BY DEF Line
<1> HIDE DEF t
<1>2. CASE /\ t \notin Touched(request[r]) /\ t \notin Touched(request'[r])
           /\ Contents(p)'[v] = Contents(p)[v] /\ booked'[p][v] = booked[p][v]
  <2>1. \A s \in Requests : t \in Touched(request'[s]) =>
          request'[s] = request[s] /\ t \in Touched(request[s])
    BY <1>2
  <2>2. \A s \in Requests : t \in Touched(request[s]) =>
          request'[s] = request[s]
    BY <1>2
  <2>3. \A s \in Requests : t \in Touched(request'[s]) =>
          Tally(request'[s], p, v, Contents(p)'[v], booked'[p][v])
    BY <1>1, <1>2, <2>1
  <2>4. (\A s \in Requests : t \notin Touched(request'[s])) =>
           Contents(p)'[v] = booked'[p][v]
    BY <1>1, <1>2, <2>2
  <2>5. \A s1, s2 \in Requests :
           t \in Touched(request'[s1]) \cap Touched(request'[s2]) => s1 = s2
    BY <1>1, <2>1
  <2>6. QED
    BY <2>3, <2>4, <2>5 DEF Line, t
<1>3. CASE /\ \/ t \in Touched(request[r])
              \/ \A s \in Requests \ {r} : t \notin Touched(request[s])
           /\ Balanced(request[r], p, v, Contents(p)[v], booked[p][v]) =>
                Balanced(request'[r], p, v, Contents(p)'[v], booked'[p][v])
  <2>1. \A s \in Requests \ {r} : t \notin Touched(request[s]) /\ t \notin Touched(request'[s])
    BY <1>1, <1>3
  <2>2. Balanced(request[r], p, v, Contents(p)[v], booked[p][v])
    <3>1. t \notin Touched(request[r]) => \A s \in Requests : t \notin Touched(request[s])
      BY <2>1
    <3>2. QED
      BY <1>1, <3>1 DEF Balanced, t
  <2>3. Balanced(request'[r], p, v, Contents(p)'[v], booked'[p][v])
    BY <1>3, <2>2
  <2>4. \A s \in Requests : t \in Touched(request'[s]) => s = r
    BY <2>1
  <2>5. \A s \in Requests : t \in Touched(request'[s]) =>
          Tally(request'[s], p, v, Contents(p)'[v], booked'[p][v])
    BY <2>3, <2>4 DEF Balanced, t
  <2>6. (\A s \in Requests : t \notin Touched(request'[s])) =>
           Contents(p)'[v] = booked'[p][v]
    BY <2>3 DEF Balanced, t
  <2>7. QED
    BY <2>4, <2>5, <2>6 DEF Line, t
<1>4. QED
  BY <1>2, <1>3 DEF Minds, t

LEMMA UnitsStep ==
  ASSUME Units, NEW r \in Requests, \A s \in Requests \ {r} : request'[s] = request[s],
         disturbed \subseteq disturbed', Reach(request'[r]),
         \A p \in Places, v \in Variants : Minds(r, p, v),
         Bounded'
  PROVE  Units'
<1>1. \A s \in Requests : Reach(request'[s])
  BY DEF Units
<1>2. \A p \in Places, v \in Variants : Line(p, v)'
  BY OneLineKept DEF Units
<1>3. QED
  BY <1>1, <1>2 DEF Units

LEMMA BoundedKept ==
  ASSUME Bounded, UNCHANGED <<items, added>>,
         NEW r \in Requests, \A s \in Requests \ {r} : request'[s] = request[s],
         \A v \in Variants :
           /\ request'[r].kind = "checkout" => request'[r].lines[v] <= added[v]
           /\ request'[r].pc = "write" /\ request'[r].at = v => request'[r].seen <= added[v]
  PROVE  Bounded'
  BY DEF Bounded

(* A request that is sent: what it will touch has been touched by nobody,  *)
(* or is disturbed from now on.                                            *)
LEMMA SendUnits ==
  ASSUME CartsTyped, Units, NEW r \in Requests, NEW b \in Browsers, NEW lines \in Lines,
         NEW kind \in {"add", "update", "remove", "login", "guest"},
         NEW pc \in {"cart", "reply"},
         NEW touch, NEW cookie \in Lines \cup {NoCookie},
         Send(r, b, kind, pc, lines, touch, cookie),
         \A v \in Variants : <<Account, v>> \in touch <=> lines[v] > 0,
         \A p \in Browsers, v \in Variants : <<p, v>> \in touch => p = b,
         pc = "reply" => lines = EmptyLines,
         pc = "cart" => cookie = NoCookie,
         cookie # NoCookie \/ (pc = "cart" /\ kind = "login") => {b} \X Variants \subseteq touch,
         kind = "add" => \A v, w \in Items(lines) : v = w,
         \A p \in Places, v \in Variants :
           p # b \/ cookie = NoCookie => booked'[p][v] = booked[p][v],
         \A v \in Variants :
           cookie # NoCookie /\ booked[b][v] = jar[b][v] => booked'[b][v] = cookie[v]
  PROVE  Units'
<1> DEFINE q == [NewRequest EXCEPT !.pc = pc, !.from = b, !.kind = kind, !.lines = lines,
                                   !.todo = Items(lines), !.touch = touch, !.cookie = cookie]
<1>1. /\ q.pc = pc /\ q.from = b /\ q.kind = kind /\ q.lines = lines /\ q.touch = touch
      /\ q.todo = Items(lines) /\ q.cookie = cookie
  BY DEF NewRequest
<1>2. /\ request' = [request EXCEPT ![r] = q] /\ request[r].pc = "idle"
      /\ disturbed' = disturbed \cup
           {t \in touch : \E s \in Requests \ {r} : t \in Touched(request[s])}
      /\ UNCHANGED <<items, jar, added>>
  BY DEF Send, Fresh
<1>3. request'[r] = q /\ \A s \in Requests \ {r} : request'[s] = request[s]
  BY <1>2, CartsParts DEF Requested
<1> HIDE DEF q
<1>4. Account \notin Browsers /\ b \in Places /\ Account # b
  BY CartsAssumption DEF Places
<1>5. \A v \in Variants : lines[v] > 0 <=> v \in Items(lines)
  BY DEF Items
<1>6. \A p \in Places, v \in Variants : <<p, v>> \in touch => p \in {Account, b}
  BY DEF Places
<1>7. Reach(q)
  <2>1. q.pc \in OnServer <=> pc = "cart"
    BY <1>1 DEF OnServer
  <2>2. pc = "cart" => \A v \in Variants : v \in q.todo \/ q.lines[v] > 0 => <<Account, v>> \in q.touch
    BY <1>1, <1>5, ItemsTyped
  <2>3. \A v \in Variants : q.lines[v] > 0 => v \in q.todo
    BY <1>1, <1>5
  <2>4. \A p \in Places, v \in Variants : <<p, v>> \in q.touch => p \in {Account, q.from}
    BY <1>1, <1>6
  <2>5. q.cookie # NoCookie \/ (pc = "cart" /\ q.kind = "login") => {q.from} \X Variants \subseteq q.touch
    BY <1>1
  <2>6. q.kind = "add" => \A v, w \in q.todo : v = w
    BY <1>1
  <2>7. q.kind \notin {"checkout", "guest checkout"}
    BY <1>1
  <2>8. QED
    BY <2>1, <2>2, <2>3, <2>4, <2>5, <2>6, <2>7 DEF Reach
<1>8. ASSUME NEW p \in Places, NEW v \in Variants PROVE Minds(r, p, v)
  <2>1. <<p, v>> \notin Touched(request[r])
    BY <1>2, TouchedLine DEF OnServer
  <2>2. CASE <<p, v>> \in Touched(q)
    <3>1. <<p, v>> \in touch /\ Contents(p)' = Contents(p)
      BY <1>1, <1>2, <2>2, TouchedLine DEF Contents
    <3>2. Contents(p)[v] = booked[p][v] =>
            Tally(q, p, v, Contents(p)[v], booked'[p][v])
      <4>1. CASE p = Account
        <5>1. lines[v] > 0 /\ v \in Items(lines) /\ booked'[p][v] = booked[p][v]
          BY <1>4, <1>5, <3>1, <4>1
        <5>2. items[v] \in Int
          BY CartsParts DEF Lines
        <5>3. QED
          BY <1>1, <4>1, <5>1, <5>2 DEF Tally, Contents
      <4>2. CASE p # Account
        <5>1. p = b /\ Contents(p) = jar[b]
          BY <1>6, <3>1, <4>2 DEF Contents
        <5>2. QED
          BY <1>1, <4>2, <5>1 DEF Tally
      <4>3. QED
        BY <4>1, <4>2
    <3>3. <<p, v>> \in disturbed' \/ \A s \in Requests \ {r} : <<p, v>> \notin Touched(request[s])
      BY <1>2, <3>1
    <3>4. QED
      BY <1>3, <2>1, <2>2, <3>1, <3>2, <3>3 DEF Minds, Balanced
  <2>3. CASE <<p, v>> \notin Touched(q)
    <3>1. booked'[p][v] = booked[p][v]
      <4>1. CASE p = b /\ cookie # NoCookie
        <5>1. <<p, v>> \in touch
          BY <4>1
        <5>2. <<p, v>> \in Touched(q)
          BY <1>1, <4>1, <5>1, TouchedLine DEF OnServer
        <5>3. QED
          BY <2>3, <5>2
      <4>2. QED
        BY <4>1
    <3>2. Contents(p)' = Contents(p)
      BY <1>2 DEF Contents
    <3>3. QED
      BY <1>3, <2>1, <2>3, <3>1, <3>2 DEF Minds
  <2>4. QED
    BY <2>2, <2>3
<1>9. Bounded'
  BY <1>1, <1>2, <1>3, BoundedKept DEF Units
<1>10. QED
  BY <1>2, <1>3, <1>7, <1>8, <1>9, UnitsStep

LEMMA ShopUnits ==
  ASSUME CartsTyped, Units, NEW r \in Requests, NEW b \in Browsers, Shop(r, b)
  PROVE  Units'
<1>1. /\ Requested /\ items \in Lines /\ jar[b] \in Lines /\ booked \in BookedType
      /\ Account \notin Browsers /\ b \in Places /\ b # Account /\ NoCookie \notin Lines
  BY CartsParts, CartsAssumption DEF Places
<1>2. \A v \in Variants, n \in Nat \ {0} :
        /\ OneLine(v, n) \in Lines /\ Items(OneLine(v, n)) = {v}
        /\ \A w \in Variants : OneLine(v, n)[w] > 0 <=> w = v
  BY DEF OneLine, EmptyLines, Items, Lines
<1>3. EmptyLines \in Lines /\ \A v \in Variants : ~ (EmptyLines[v] > 0)
  BY EmptyTyped DEF EmptyLines
<1>4. Quantities \subseteq Nat \ {0}
  BY CartsAssumption
<1>5. ASSUME NEW v \in Variants, NEW n \in Quantities, GuestAdd(r, b, v, n) PROVE Units'
  <2> DEFINE cookie == Plus(jar[b], OneLine(v, n))
  <2>1. cookie \in Lines /\ n \in Nat
    BY <1>1, <1>4, LinesTyped
  <2>2. /\ Send(r, b, "guest", "reply", EmptyLines, {b} \X Variants, cookie)
        /\ booked' = [booked EXCEPT ![b][v] = @ + n]
    BY <1>5 DEF GuestAdd
  <2>3. \A w \in Variants : booked[b][w] = jar[b][w] => booked'[b][w] = cookie[w]
    BY <1>1, <2>1, <2>2 DEF BookedType, Plus, OneLine, EmptyLines, Lines
  <2>4. \A p \in Places, w \in Variants : p # b => booked'[p][w] = booked[p][w]
    BY <1>1, <2>2 DEF BookedType
  <2> HIDE DEF cookie
  <2>5. QED
    BY <1>1, <1>3, <2>1, <2>2, <2>3, <2>4, SendUnits
<1>6. ASSUME NEW v \in Variants, NEW n \in Nat, GuestUpdate(r, b, v, n) PROVE Units'
  <2> DEFINE cookie == SetLine(jar[b], v, n)
  <2>1. cookie \in Lines
    BY <1>1, LinesTyped
  <2>2. /\ Send(r, b, "guest", "reply", EmptyLines, {b} \X Variants, cookie)
        /\ booked' = [booked EXCEPT ![b] = SetLine(@, v, n)]
    BY <1>6 DEF GuestUpdate
  <2>3. \A w \in Variants : booked[b][w] = jar[b][w] => booked'[b][w] = cookie[w]
    BY <1>1, <2>2 DEF BookedType, SetLine, Lines
  <2>4. \A p \in Places, w \in Variants : p # b => booked'[p][w] = booked[p][w]
    BY <1>1, <2>2 DEF BookedType
  <2> HIDE DEF cookie
  <2>5. QED
    BY <1>1, <1>3, <2>1, <2>2, <2>3, <2>4, SendUnits
<1>7. ASSUME NEW v \in Variants, NEW n \in Quantities, AccountAdd(r, b, v, n) PROVE Units'
  <2>1. /\ Send(r, b, "add", "cart", OneLine(v, n), {<<Account, v>>}, NoCookie)
        /\ booked' = booked
    BY <1>7 DEF AccountAdd
  <2>2. n \in Nat \ {0}
    BY <1>4
  <2>3. QED
    BY <1>1, <1>2, <2>1, <2>2, SendUnits
<1>8. ASSUME AccountUpdate(r, b) PROVE Units'
  <2>1. Send(r, b, "update", "cart", EmptyLines, {}, NoCookie) /\ booked' = booked
    BY <1>8 DEF AccountUpdate
  <2>2. QED
    BY <1>1, <1>3, <2>1, SendUnits
<1>9. ASSUME NEW v \in Variants, AccountRemove(r, b, v) PROVE Units'
  <2>1. /\ Send(r, b, "remove", "cart", OneLine(v, 1), {<<Account, v>>}, NoCookie)
        /\ booked' = booked
    BY <1>9 DEF AccountRemove
  <2>2. 1 \in Nat \ {0}
    OBVIOUS
  <2>3. QED
    BY <1>1, <1>2, <2>1, <2>2, SendUnits
<1>10. ASSUME NEW kind \in {"login", "guest"},
              Send(r, b, kind, "reply", EmptyLines, {}, NoCookie), UNCHANGED booked
       PROVE  Units'
  BY <1>1, <1>3, <1>10, SendUnits
<1>11. ASSUME Send(r, b, "login", "cart", jar[b],
                   ({b} \X Variants) \cup ({Account} \X Items(jar[b])), NoCookie),
              UNCHANGED booked
       PROVE  Units'
  <2> DEFINE touch == ({b} \X Variants) \cup ({Account} \X Items(jar[b]))
  <2>1. /\ \A v \in Variants : <<Account, v>> \in touch <=> jar[b][v] > 0
        /\ \A p \in Browsers, v \in Variants : <<p, v>> \in touch => p = b
        /\ {b} \X Variants \subseteq touch
    BY <1>1 DEF Items
  <2>2. Send(r, b, "login", "cart", jar[b], touch, NoCookie)
    BY <1>11
  <2> HIDE DEF touch
  <2>3. QED
    BY <1>1, <1>11, <2>1, <2>2, SendUnits
<1>12. ASSUME NEW m \in Methods, OpenCheckout(r, b, m) PROVE Units'
  <2> DEFINE q == [NewRequest EXCEPT !.pc = "page", !.from = b,
                                     !.page = SaleOf(Visible(b), b, m)]
  <2>1. /\ request' = [request EXCEPT ![r] = q] /\ request[r].pc = "idle"
        /\ UNCHANGED <<items, jar, booked, disturbed, added>>
    BY <1>12 DEF OpenCheckout, Fresh
  <2>2. q.pc = "page" /\ q.kind = "none"
    BY DEF NewRequest
  <2>3. request'[r] = q /\ \A s \in Requests \ {r} : request'[s] = request[s]
    BY <1>1, <2>1 DEF Requested
  <2> HIDE DEF q
  <2>4. Reach(q)
    BY <2>2 DEF Reach, InFlight, OnServer
  <2>5. \A p \in Places, v \in Variants :
          <<p, v>> \notin Touched(request[r]) /\ <<p, v>> \notin Touched(q)
    BY <2>1, <2>2, TouchedLine DEF OnServer
  <2>6. \A p \in Places, v \in Variants : Minds(r, p, v)
    BY <2>1, <2>3, <2>5 DEF Minds, Contents
  <2>7. Bounded'
    BY <2>1, <2>2, <2>3, BoundedKept DEF Units
  <2>8. QED
    BY <2>1, <2>3, <2>4, <2>6, <2>7, UnitsStep
<1>13. QED
  <2>1. 0 \in Nat /\ \A n \in Quantities : n \in Nat
    BY <1>4
  <2>2. ASSUME NEW v \in Variants, NEW n \in Quantities, ApiAdd(r, b, v, n) PROVE Units'
    BY <1>7, <1>10, <2>2 DEF ApiAdd
  <2>3. ASSUME Login(r, b) PROVE Units'
    BY <1>10, <1>11, <2>3 DEF Login
  <2>4. ASSUME ProductForm(r, b) PROVE Units'
    BY <1>5, <1>7, <2>2, <2>4 DEF ProductForm
  <2>5. ASSUME CartForms(r, b) PROVE Units'
    BY <1>6, <1>8, <1>9, <2>1, <2>5 DEF CartForms, GuestRemove
  <2>6. QED
    BY <1>12, <2>3, <2>4, <2>5 DEF Shop

(* A request that goes on and leaves every place and every line it has     *)
(* read alone.                                                             *)
LEMMA GoesOn ==
  ASSUME CartsTyped, Units, NEW r \in Requests,
         \A s \in Requests \ {r} : request'[s] = request[s],
         UNCHANGED <<items, jar, booked, disturbed, added>>,
         LET q == request[r]
             p == request'[r]
         IN  /\ q.pc \in OnServer /\ p.pc \in OnServer \cup {"reply"}
             /\ p.kind = q.kind /\ p.from = q.from /\ p.touch = q.touch /\ p.cookie = q.cookie
             /\ p.todo = q.todo
             /\ p.lines = q.lines \/ (p.lines = items /\ q.kind = "checkout")
             /\ p.pc # "cart"
             /\ p.pc = "create" => q.pc = "cart" /\ p.lines = q.lines
             /\ p.pc = "reply" =>
                  q.kind \notin {"add", "login"} \/ q.pc \in {"cart", "create"}
             /\ p.pc = "write" =>
                  p.at \in Variants /\ p.seen = items[p.at] /\ p.kind # "checkout"
             /\ p.pc = "commit" => p.lines = items /\ p.kind = "checkout"
  PROVE  Units'
<1> DEFINE q == request[r]
           p == request'[r]
<1>1. /\ Reach(q) /\ q \in RequestType /\ Bounded
      /\ q.pc \in OnServer /\ p.pc \in OnServer \cup {"reply"}
      /\ p.kind = q.kind /\ p.from = q.from /\ p.touch = q.touch /\ p.cookie = q.cookie
      /\ p.todo = q.todo /\ (p.lines = q.lines \/ (p.lines = items /\ q.kind = "checkout"))
      /\ p.pc # "cart" /\ (p.pc = "create" => q.pc = "cart" /\ p.lines = q.lines)
      /\ p.pc = "reply" => q.kind \notin {"add", "login"} \/ q.pc \in {"cart", "create"}
  BY CartsParts DEF Units, Requested
<1>0. /\ p.pc = "write" => p.at \in Variants /\ p.seen = items[p.at] /\ p.kind # "checkout"
      /\ p.pc = "commit" => p.lines = items /\ p.kind = "checkout"
  OBVIOUS
<1> USE CartsAssumption
<1> HIDE DEF p, q
<1>2. Reach(p)
  <2>1. q.pc \in InFlight /\ (p.pc \in OnServer => q.pc \in OnServer)
    BY <1>1 DEF InFlight
  <2>2. q.kind # "checkout" => p.lines = q.lines
    BY <1>1
  <2>3. QED
    BY <1>1, <2>1, <2>2 DEF Reach
<1>3. ASSUME NEW s \in Places, NEW v \in Variants PROVE Minds(r, s, v)
  <2>1. Contents(s)' = Contents(s) /\ booked'[s][v] = booked[s][v]
    BY DEF Contents
  <2>2. CASE <<s, v>> \notin Touched(q)
    <3>1. <<s, v>> \notin Touched(p)
      BY <1>1, <2>2, TouchedLine
    <3>2. QED
      BY <2>1, <2>2, <3>1 DEF Minds, p, q
  <2>3. ASSUME <<s, v>> \in Touched(q), Tally(q, s, v, Contents(s)[v], booked[s][v])
        PROVE  Balanced(p, s, v, Contents(s)[v], booked[s][v])
    <3>0. items[v] \in Int /\ booked[s][v] \in Int /\ q.lines[v] \in Int
      BY <1>1, CartsParts DEF Lines, BookedType, RequestType
    <3>1. CASE s = Account
      <4>1. Contents(s)[v] = items[v]
        BY <3>1 DEF Contents
      <4>2. items[v] = booked[s][v]
                + (IF p.kind \in {"add", "login"} /\ v \notin p.todo THEN p.lines[v] ELSE 0)
        BY <1>1, <2>3, <3>1, <4>1 DEF Tally
      <4>3. CASE p.pc = "reply"
        <5>1. <<s, v>> \notin Touched(p)
          BY <3>1, <4>3, TouchedLine DEF OnServer
        <5>2. q.kind \in {"add", "login"} => (q.lines[v] > 0 => v \in q.todo)
          BY <1>1, <4>3 DEF Reach
        <5>3. q.lines[v] \in Nat
          BY <1>1 DEF RequestType, Lines
        <5>4. items[v] = booked[s][v]
          BY <1>1, <3>0, <4>2, <5>2, <5>3
        <5>5. QED
          BY <4>1, <5>1, <5>4 DEF Balanced
      <4>4. CASE p.pc # "reply"
        <5>1. <<s, v>> \in Touched(p)
          BY <1>1, <2>3, <4>4, TouchedLine
        <5>2. p.pc = "write" /\ p.at = v => p.seen = items[v]
          BY <1>0
        <5>3. p.pc = "commit" => p.lines[v] = items[v]
          BY <1>0
        <5>4. QED
          BY <3>1, <4>1, <4>2, <5>1, <5>2, <5>3 DEF Balanced, Tally
      <4>5. QED
        BY <4>3, <4>4
    <3>2. CASE s # Account
      <4>1. <<s, v>> \in q.touch /\ s \in Browsers
        BY <2>3, <3>2, TouchedLine DEF Places
      <4>2. p.pc # "commit"
        <5>1. q.kind = "checkout" => q.touch = {Account} \X Variants
          BY <1>1 DEF Reach
        <5>2. p.pc = "commit" => q.kind = "checkout"
          BY <1>0, <1>1
        <5>3. QED
          BY <3>2, <4>1, <5>1, <5>2
      <4>3. QED
        BY <1>1, <2>3, <3>2, <4>1, <4>2, TouchedLine DEF Balanced, Tally
    <3>3. QED
      BY <3>1, <3>2
  <2>4. QED
    BY <2>1, <2>2, <2>3 DEF Minds, Balanced, p, q
<1>4. Bounded'
  BY <1>0, <1>1, BoundedKept DEF Bounded, p, q
<1>5. QED
  BY <1>2, <1>3, <1>4, UnitsStep DEF p

(* A line that has been dealt with: where the account holds what was read, *)
(* it has now as many units more as the request counts as written.         *)
LEMMA LineDoneUnits ==
  ASSUME CartsTyped, Units, NEW r \in Requests, NEW lines \in Lines,
         request[r].pc = "write", LineDone(r, lines), UNCHANGED <<jar, disturbed>>,
         items' \in Lines, added' \in Lines,
         LET q == request[r]
         IN  /\ \A v \in Variants \ {q.at} : lines[v] = q.lines[v] /\ items'[v] = items[v]
             /\ items[q.at] = q.seen => items'[q.at] = items[q.at] + lines[q.at]
             /\ items'[q.at] <= added'[q.at]
             /\ \A v \in Variants : added[v] <= added'[v]
  PROVE  Units'
<1> DEFINE q      == request[r]
           at     == q.at
           rest   == q.todo \ {at}
           merged == rest = {} /\ q.kind = "login"
           p      == request'[r]
<1>1. /\ Requested /\ items \in Lines /\ added \in Lines /\ jar \in [Browsers -> Lines]
      /\ booked \in BookedType /\ q \in RequestType /\ Shape(q) /\ Reach(q) /\ Bounded
  BY CartsParts DEF Requested, Units
<1>2. /\ q.pc = "write" /\ q.kind \in {"add", "login"} /\ at \in q.todo /\ at \in Variants
      /\ q.from \in Browsers /\ q.cookie = NoCookie
  BY <1>1 DEF Shape, RequestType, InFlight, OnServer
<1>3. /\ p.pc = (IF rest = {} THEN "reply" ELSE "read") /\ p.kind = q.kind /\ p.from = q.from
      /\ p.touch = q.touch /\ p.todo = rest /\ p.lines = lines
      /\ p.cookie = (IF merged THEN EmptyLines ELSE NoCookie)
      /\ \A s \in Requests \ {r} : request'[s] = request[s]
  BY <1>1 DEF LineDone, Requested, RequestType
<1>4. booked' = IF rest # {} THEN booked
                ELSE [s \in Places |-> IF s = Account THEN Plus(booked[s], lines)
                                       ELSE IF s = q.from /\ merged THEN EmptyLines
                                       ELSE booked[s]]
  BY DEF LineDone
<1>5. Account \notin Browsers /\ q.from # Account /\ Account \in Places
  BY <1>2, CartsAssumption DEF Places
<1>6. \A v \in Variants : v \in q.todo \/ q.lines[v] > 0 => <<Account, v>> \in Touched(q)
  BY <1>1, <1>2, TouchedLine DEF Reach, OnServer
<1>7. \A v \in Variants : /\ items[v] \in Nat /\ lines[v] \in Nat /\ q.lines[v] \in Nat
                          /\ booked[Account][v] \in Int
  BY <1>1, <1>5 DEF Lines, RequestType, BookedType
<1> HIDE DEF p, q
<1>8. Reach(p)
  <2>1. \A v \in Variants : v \in rest \/ lines[v] > 0 => <<Account, v>> \in q.touch
    BY <1>2, <1>6, TouchedLine, <1>1, <1>7 DEF q
  <2>2. /\ q.kind = "login" => {q.from} \X Variants \subseteq q.touch
        /\ \A s \in Places, v \in Variants : <<s, v>> \in q.touch => s \in {Account, q.from}
        /\ q.kind = "add" => \A v, w \in q.todo : v = w
    BY <1>1, <1>2 DEF Reach, OnServer, InFlight
  <2>3. q.kind = "add" => rest = {}
    BY <1>2, <2>2
  <2>4. p.pc = "reply" \/ (p.pc = "read" /\ p.kind # "add" /\ p.kind \in {"add", "login"})
    BY <1>2, <1>3, <2>3
  <2>5. p.cookie # NoCookie => q.kind = "login"
    BY <1>3
  <2> HIDE DEF rest, merged, at
  <2>6. QED
    BY <1>3, <2>1, <2>2, <2>4, <2>5 DEF Reach, InFlight, OnServer
<1>9. ASSUME NEW v \in Variants PROVE Minds(r, Account, v)
  <2>1. Contents(Account) = items /\ Contents(Account)' = items'
    BY DEF Contents
  <2>2. booked'[Account][v] = IF rest = {} THEN booked[Account][v] + lines[v]
                              ELSE booked[Account][v]
    BY <1>4, <1>5 DEF Plus
  <2>3. CASE <<Account, v>> \notin Touched(q)
    <3>1. v \notin q.todo /\ q.lines[v] = 0
      BY <1>6, <1>7, <2>3
    <3>2. v # at /\ lines[v] = 0 /\ items'[v] = items[v]
      BY <1>2, <3>1 DEF q
    <3>3. <<Account, v>> \notin Touched(p)
      BY <1>2, <1>3, <2>3, TouchedLine DEF OnServer, q
    <3>4. booked'[Account][v] = booked[Account][v]
      BY <1>7, <2>2, <3>2
    <3>5. QED
      BY <2>1, <2>3, <3>2, <3>3, <3>4 DEF Minds, p, q
  <2>4. ASSUME <<Account, v>> \in Touched(q), Tally(q, Account, v, items[v], booked[Account][v])
        PROVE  Balanced(p, Account, v, items'[v], booked'[Account][v])
    <3>1. items[v] = booked[Account][v] + (IF v \notin q.todo THEN q.lines[v] ELSE 0)
      BY <1>2, <2>4 DEF Tally
    <3>2. items'[v] = booked[Account][v] + (IF v \notin rest THEN lines[v] ELSE 0)
      <4>1. CASE v = at
        <5>1. items[at] = q.seen
          BY <1>2, <2>4, <4>1 DEF Tally
        <5>2. items'[at] = items[at] + lines[at]
          BY <5>1 DEF q
        <5>3. QED
          BY <1>2, <1>7, <3>1, <4>1, <5>2
      <4>2. CASE v # at
        <5>1. items'[v] = items[v] /\ lines[v] = q.lines[v] /\ (v \in q.todo <=> v \in rest)
          BY <4>2 DEF q
        <5>2. QED
          BY <3>1, <5>1
      <4>3. QED
        BY <4>1, <4>2
    <3>3. CASE rest = {}
      <4>1. <<Account, v>> \notin Touched(p)
        BY <1>3, <1>5, <3>3, TouchedLine DEF OnServer
      <4>2. items'[v] = booked'[Account][v]
        BY <2>2, <3>2, <3>3
      <4>3. QED
        BY <4>1, <4>2 DEF Balanced
    <3>4. CASE rest # {}
      <4>1. <<Account, v>> \in Touched(p) => Tally(p, Account, v, items'[v], booked'[Account][v])
        BY <1>2, <1>3, <2>2, <3>2, <3>4 DEF Tally
      <4>2. <<Account, v>> \in Touched(p)
        BY <1>2, <1>3, <2>4, <3>4, TouchedLine DEF OnServer
      <4>3. QED
        BY <4>1, <4>2 DEF Balanced
    <3>5. QED
      BY <3>3, <3>4
  <2>5. QED
    BY <2>1, <2>3, <2>4 DEF Minds, Balanced, p, q
<1>10. ASSUME NEW s \in Browsers, NEW v \in Variants PROVE Minds(r, s, v)
  <2>1. Contents(s)' = Contents(s) /\ s # Account /\ s \in Places
    BY <1>5 DEF Contents, Places
  <2>2. <<s, v>> \in Touched(p) <=> <<s, v>> \in Touched(q)
    BY <1>2, <1>3, <2>1, TouchedLine DEF OnServer
  <2>3. booked'[s][v] = IF s = q.from /\ merged THEN 0 ELSE booked[s][v]
    BY <1>4, <2>1 DEF EmptyLines
  <2>4. CASE s = q.from /\ merged
    <3>1. <<s, v>> \in q.touch
      BY <1>1, <1>2, <2>4 DEF Reach, OnServer
    <3>2. <<s, v>> \in Touched(q)
      BY <1>2, <3>1, TouchedLine DEF OnServer
    <3>3. Tally(p, s, v, Contents(s)[v], booked'[s][v])
      BY <1>1, <1>3, <2>1, <2>3, <2>4, EmptyTyped, CartsAssumption DEF Tally, EmptyLines
    <3>4. QED
      BY <2>1, <2>2, <3>2, <3>3 DEF Minds, Balanced, p, q
  <2>5. CASE ~ (s = q.from /\ merged)
    <3>1. booked'[s][v] = booked[s][v]
      BY <2>3, <2>5
    <3>2. CASE <<s, v>> \notin Touched(q)
      BY <2>1, <2>2, <3>1, <3>2 DEF Minds, p, q
    <3>3. CASE <<s, v>> \in Touched(q)
      <4>1. s = q.from
        BY <1>1, <1>2, <2>1, <3>3, TouchedLine DEF Reach, InFlight, OnServer
      <4>2. p.cookie = NoCookie /\ p.pc # "commit"
        BY <1>3, <2>5, <4>1
      <4>3. QED
        BY <1>2, <2>1, <2>2, <3>1, <3>3, <4>2 DEF Minds, Balanced, Tally, p, q
    <3>4. QED
      BY <3>2, <3>3
  <2>6. QED
    BY <2>4, <2>5
<1>11. Bounded'
  <2>1. \A s \in Requests : request[s] \in RequestType
    BY <1>1 DEF Requested
  <2>2. ASSUME NEW v \in Variants PROVE items'[v] <= added'[v]
    <3>1. items[v] \in Nat /\ added[v] \in Nat /\ items'[v] \in Nat /\ added'[v] \in Nat
          /\ items[v] <= added[v] /\ added[v] <= added'[v]
      BY <1>1 DEF Lines, Bounded
    <3>2. QED
      BY <3>1 DEF q
  <2>3. ASSUME NEW v \in Variants, NEW s \in Requests \ {r}
        PROVE  /\ request'[s].kind = "checkout" => request'[s].lines[v] <= added'[v]
               /\ request'[s].pc = "write" /\ request'[s].at = v => request'[s].seen <= added'[v]
    <3>1. added[v] \in Nat /\ added'[v] \in Nat /\ added[v] <= added'[v]
          /\ request[s].seen \in Nat /\ request[s].lines[v] \in Nat
      BY <1>1, <2>1 DEF Lines, RequestType
    <3>2. /\ request[s].kind = "checkout" => request[s].lines[v] <= added[v]
          /\ request[s].pc = "write" /\ request[s].at = v => request[s].seen <= added[v]
      BY <1>1 DEF Bounded
    <3>3. request'[s] = request[s]
      BY <1>3
    <3>4. QED
      BY <3>1, <3>2, <3>3
  <2>4. p.kind # "checkout" /\ p.pc # "write"
    BY <1>2, <1>3
  <2>5. QED
    BY <2>2, <2>3, <2>4 DEF Bounded, p
<1>12. \A s \in Places, v \in Variants : Minds(r, s, v)
  BY <1>9, <1>10 DEF Places
<1>13. QED
  BY <1>3, <1>8, <1>11, <1>12, UnitsStep DEF p

(* The request is over: what it touched is touched no more.                *)
LEMMA IsDone ==
  ASSUME NEW p, p.pc \in {"idle", "page", "done"}
  PROVE  Reach(p) /\ Touched(p) = {}
  BY DEF Touched, Reach, InFlight, OnServer

LEMMA ServeUnits ==
  ASSUME CartsTyped, CartsTyped', Units, NEW r \in Requests, Serve(r)
  PROVE  Units'
<1> DEFINE q == request[r]
           p == request'[r]
<1>1. /\ request \in [Requests -> RequestType] /\ q \in RequestType /\ Shape(q)
      /\ items \in Lines /\ jar \in [Browsers -> Lines] /\ booked \in BookedType
      /\ disturbed \subseteq Places \X Variants /\ added \in Lines
      /\ Reach(q) /\ Bounded /\ items' \in Lines /\ added' \in Lines
  BY CartsParts DEF Requested, Units, CartsTyped, CartsTypeOK
<1>2. Account \notin Browsers /\ Account \in Places
  BY CartsAssumption DEF Places
<1>3. CASE GetCart(r)
  <2> DEFINE pc == IF carted THEN WithCart[q.kind] ELSE "create"
  <2>1. q.pc = "cart" /\ q.kind \in {"add", "update", "remove", "login", "checkout"}
    BY <1>1, <1>3 DEF GetCart, Shape
  <2>2. /\ request' = [request EXCEPT ![r].pc = pc]
        /\ pc \in {"create", "read", "delete", "order", "reply"}
        /\ UNCHANGED <<items, jar, booked, disturbed, added>>
    BY <1>3, <2>1 DEF GetCart, WithCart
  <2> HIDE DEF pc
  <2>3. /\ p.pc = pc /\ p.kind = q.kind /\ p.from = q.from /\ p.touch = q.touch
        /\ p.cookie = q.cookie /\ p.todo = q.todo /\ p.lines = q.lines
        /\ \A s \in Requests \ {r} : request'[s] = request[s]
    BY <1>1, <2>2 DEF RequestType
  <2>4. QED
    BY <2>1, <2>2, <2>3, GoesOn DEF OnServer
<1>4. CASE CreateCart(r)
  <2> DEFINE pc == IF carted THEN "reply" ELSE WithCart[q.kind]
  <2>1. q.pc = "create" /\ q.kind \in {"add", "update", "remove", "login", "checkout"}
    BY <1>1, <1>4 DEF CreateCart, Shape
  <2>2. /\ request' = [request EXCEPT ![r].pc = pc]
        /\ pc \in {"read", "delete", "order", "reply"}
        /\ UNCHANGED <<items, jar, booked, disturbed, added>>
    BY <1>4, <2>1 DEF CreateCart, WithCart
  <2> HIDE DEF pc
  <2>3. /\ p.pc = pc /\ p.kind = q.kind /\ p.from = q.from /\ p.touch = q.touch
        /\ p.cookie = q.cookie /\ p.todo = q.todo /\ p.lines = q.lines
        /\ \A s \in Requests \ {r} : request'[s] = request[s]
    BY <1>1, <2>2 DEF RequestType
  <2>4. QED
    BY <2>1, <2>2, <2>3, GoesOn DEF OnServer
<1>5. CASE FindLine(r)
  <2>1. PICK v \in q.todo :
          request' = [request EXCEPT ![r].pc = "write", ![r].at = v, ![r].seen = items[v]]
    BY <1>5 DEF FindLine
  <2>2. /\ q.pc = "read" /\ q.kind \in {"add", "login"} /\ v \in Variants
        /\ UNCHANGED <<items, jar, booked, disturbed, added>>
    BY <1>1, <1>5 DEF FindLine, Shape, RequestType
  <2>3. /\ p.pc = "write" /\ p.at = v /\ p.seen = items[v] /\ p.kind = q.kind
        /\ p.from = q.from /\ p.touch = q.touch /\ p.cookie = q.cookie /\ p.todo = q.todo
        /\ p.lines = q.lines
        /\ \A s \in Requests \ {r} : request'[s] = request[s]
    BY <1>1, <2>1 DEF RequestType
  <2>4. QED
    BY <2>2, <2>3, GoesOn DEF OnServer
<1>6. CASE ReadCart(r)
  <2> DEFINE pc == IF Items(items) = {} THEN "reply" ELSE "commit"
  <2>1. /\ q.pc = "order" /\ q.kind = "checkout" /\ pc \in {"reply", "commit"}
        /\ request' = [request EXCEPT ![r].pc = pc, ![r].lines = items]
        /\ UNCHANGED <<items, jar, booked, disturbed, added>>
    BY <1>1, <1>6 DEF ReadCart, Shape
  <2> HIDE DEF pc
  <2>2. /\ p.pc = pc /\ p.lines = items /\ p.kind = q.kind /\ p.from = q.from
        /\ p.touch = q.touch /\ p.cookie = q.cookie /\ p.todo = q.todo
        /\ \A s \in Requests \ {r} : request'[s] = request[s]
    BY <1>1, <2>1 DEF RequestType
  <2>3. QED
    BY <2>1, <2>2, GoesOn DEF OnServer
<1>7. CASE RefuseOrder(r)
  <2>1. /\ q.pc = "commit" /\ q.kind \in {"checkout", "guest checkout"}
        /\ request' = [request EXCEPT ![r] = [q EXCEPT !.pc = "reply", !.bill = NoSale]]
        /\ UNCHANGED <<items, jar, booked, disturbed, added>>
    BY <1>1, <1>7 DEF RefuseOrder, Shape
  <2>2. /\ p.pc = "reply" /\ p.lines = q.lines /\ p.kind = q.kind /\ p.from = q.from
        /\ p.touch = q.touch /\ p.cookie = q.cookie /\ p.todo = q.todo
        /\ \A s \in Requests \ {r} : request'[s] = request[s]
    BY <1>1, <2>1 DEF RequestType
  <2>3. QED
    BY <2>1, <2>2, GoesOn DEF OnServer
<1>8. CASE UpdateLine(r) \/ InsertLine(r) \/ InsertFails(r)
  <2> DEFINE at == q.at
  <2>1. /\ q.pc = "write" /\ at \in Variants /\ q.lines \in Lines /\ q.seen \in Nat
        /\ q.lines[at] \in Nat /\ items[at] \in Nat /\ added[at] \in Nat /\ q.seen <= added[at]
        /\ items[at] <= added[at] /\ [q.lines EXCEPT ![at] = 0] \in Lines
    <3>1. q.pc = "write"
      BY <1>8 DEF UpdateLine, InsertLine, InsertFails
    <3>2. at \in Variants /\ q.lines \in Lines /\ q.seen \in Nat
      BY <1>1, <3>1 DEF Shape, RequestType
    <3>3. q.lines[at] \in Nat /\ items[at] \in Nat /\ added[at] \in Nat
          /\ [q.lines EXCEPT ![at] = 0] \in Lines
      BY <1>1, <3>2 DEF Lines
    <3>4. QED
      BY <1>1, <3>1, <3>2, <3>3 DEF Bounded
  <2>2. \A v \in Variants : added[v] \in Nat
    BY <1>1 DEF Lines
  <2>3. UNCHANGED <<jar, disturbed>>
    BY <1>8 DEF UpdateLine, InsertLine, InsertFails
  <2>4. CASE UpdateLine(r)
    <3>1. /\ q.seen > 0 /\ LineDone(r, q.lines)
          /\ items' = IF items[at] = 0 THEN items
                      ELSE [items EXCEPT ![at] = q.seen + q.lines[at]]
          /\ added' = [added EXCEPT ![at] = @ + q.lines[at]]
      BY <2>4 DEF UpdateLine
    <3>2. /\ \A v \in Variants \ {at} : items'[v] = items[v]
          /\ items[at] = q.seen => items'[at] = items[at] + q.lines[at]
          /\ items'[at] <= added'[at]
          /\ \A v \in Variants : added[v] <= added'[v]
      BY <1>1, <2>1, <2>2, <3>1 DEF Lines
    <3>3. QED
      BY <1>1, <2>1, <2>3, <3>1, <3>2, LineDoneUnits
  <2>5. CASE InsertLine(r)
    <3>1. /\ q.seen = 0 /\ items[at] = 0 /\ LineDone(r, q.lines)
          /\ items' = [items EXCEPT ![at] = q.lines[at]]
          /\ added' = [added EXCEPT ![at] = @ + q.lines[at]]
      BY <2>5 DEF InsertLine
    <3>2. /\ \A v \in Variants \ {at} : items'[v] = items[v]
          /\ items[at] = q.seen => items'[at] = items[at] + q.lines[at]
          /\ items'[at] <= added'[at]
          /\ \A v \in Variants : added[v] <= added'[v]
      BY <1>1, <2>1, <2>2, <3>1 DEF Lines
    <3>3. QED
      BY <1>1, <2>1, <2>3, <3>1, <3>2, LineDoneUnits
  <2>6. CASE InsertFails(r)
    <3> DEFINE lines == IF q.kind = "login" /\ at \in Sold
                        THEN q.lines ELSE [q.lines EXCEPT ![at] = 0]
    <3>1. /\ q.seen = 0 /\ (items[at] > 0 \/ at \notin Sold) /\ LineDone(r, lines)
          /\ items' = items /\ added' = added
      BY <2>6 DEF InsertFails
    <3>2. /\ lines \in Lines /\ \A v \in Variants \ {at} : lines[v] = q.lines[v]
      BY <2>1 DEF Lines
    <3>3. items[at] = q.seen => items'[at] = items[at] + lines[at]
      BY <2>1, <3>1 DEF Lines
    <3> HIDE DEF lines
    <3>4. \A v \in Variants : added[v] <= added'[v]
      BY <2>2, <3>1
    <3>5. QED
      BY <1>1, <2>1, <2>3, <3>1, <3>2, <3>3, <3>4, LineDoneUnits
  <2>7. QED
    BY <1>8, <2>4, <2>5, <2>6
<1>9. CASE RemoveLine(r)
  <2>1. /\ q.pc = "delete" /\ q.kind = "remove"
        /\ items' = [v \in Variants |-> IF q.lines[v] > 0 THEN 0 ELSE items[v]]
        /\ booked' = [booked EXCEPT ![Account] =
                        [v \in Variants |-> IF q.lines[v] > 0 THEN 0 ELSE @[v]]]
        /\ request' = [request EXCEPT ![r].pc = "reply"]
        /\ UNCHANGED <<jar, disturbed, added>>
    BY <1>1, <1>9 DEF RemoveLine, Shape
  <2>2. /\ p.pc = "reply" /\ p.kind = q.kind /\ p.from = q.from /\ p.touch = q.touch
        /\ p.cookie = q.cookie /\ p.todo = q.todo /\ p.lines = q.lines
        /\ \A s \in Requests \ {r} : request'[s] = request[s]
    BY <1>1, <2>1 DEF RequestType
  <2>3. Reach(p)
    BY <1>1, <2>1, <2>2 DEF Reach, InFlight, OnServer
  <2>4. ASSUME NEW v \in Variants PROVE Minds(r, Account, v)
    <3>1. /\ Contents(Account)[v] = items[v] /\ Contents(Account)'[v] = items'[v]
          /\ items'[v] = IF q.lines[v] > 0 THEN 0 ELSE items[v]
          /\ booked'[Account][v] = IF q.lines[v] > 0 THEN 0 ELSE booked[Account][v]
          /\ items[v] \in Int /\ booked[Account][v] \in Int
      BY <1>1, <1>2, <2>1 DEF Contents, BookedType, Lines
    <3>2. <<Account, v>> \notin Touched(p)
      BY <1>2, <2>2, TouchedLine DEF OnServer
    <3>3. q.lines[v] > 0 => <<Account, v>> \in Touched(q)
      BY <1>1, <2>1, TouchedLine DEF Reach, OnServer
    <3>4. CASE <<Account, v>> \notin Touched(q)
      BY <3>1, <3>2, <3>3, <3>4 DEF Minds
    <3>5. CASE <<Account, v>> \in Touched(q)
      <4>1. Tally(q, Account, v, items[v], booked[Account][v]) => items[v] = booked[Account][v]
        BY <2>1, <3>1 DEF Tally
      <4>2. QED
        BY <3>1, <3>2, <3>5, <4>1 DEF Minds, Balanced
    <3>6. QED
      BY <3>4, <3>5
  <2>5. ASSUME NEW s \in Browsers, NEW v \in Variants PROVE Minds(r, s, v)
    <3>1. /\ s # Account /\ s \in Places /\ Contents(s)' = Contents(s)
          /\ booked'[s] = booked[s]
      BY <1>1, <1>2, <2>1 DEF Contents, BookedType, Places
    <3>2. <<s, v>> \in Touched(p) <=> <<s, v>> \in Touched(q)
      BY <2>1, <2>2, TouchedLine DEF OnServer
    <3>3. Tally(q, s, v, Contents(s)[v], booked[s][v]) =>
            Tally(p, s, v, Contents(s)[v], booked[s][v])
      BY <2>1, <2>2, <3>1 DEF Tally
    <3>4. QED
      BY <3>1, <3>2, <3>3 DEF Minds, Balanced
  <2>6. Bounded'
    <3>1. \A v \in Variants : items'[v] <= added[v] /\ added'[v] = added[v]
      BY <1>1, <2>1 DEF Bounded, Lines
    <3>2. QED
      BY <1>1, <2>1, <2>2, <3>1 DEF Bounded
  <2>7. QED
    BY <2>1, <2>2, <2>3, <2>4, <2>5, <2>6, UnitsStep DEF Places
<1>10. CASE Submit(r)
  <2> DEFINE b     == q.from
             touch == (IF CurrentUser(b) THEN {Account} ELSE {b}) \X Variants
             lines == IF CurrentUser(b) THEN EmptyLines ELSE jar[b]
             pc    == IF CurrentUser(b) THEN "cart" ELSE "commit"
             kind  == IF CurrentUser(b) THEN "checkout" ELSE "guest checkout"
             new   == [q EXCEPT !.pc = pc, !.kind = kind, !.lines = lines, !.touch = touch,
                                !.bill = SaleOf(lines, b, q.page.method)]
  <2>1. /\ q.pc = "page" /\ b \in Browsers /\ b # Account /\ q.cookie = NoCookie
        /\ UNCHANGED <<items, jar, booked, added>>
    BY <1>1, <1>2, <1>10 DEF Submit, Shape
  <2>2. /\ \A s \in Places, v \in Variants : <<s, v>> \notin Touched(q)
        /\ \A s \in Places : Contents(s)' = Contents(s) /\ booked'[s] = booked[s]
    <3>1. \A s \in Places, v \in Variants : <<s, v>> \notin Touched(q)
      BY <2>1, IsDone
    <3>2. QED
      BY <2>1, <3>1 DEF Contents
  <2>3. CASE Items(Visible(b)) = {} \/ CopyFails(lines)
    <3>1. request' = [request EXCEPT ![r] = Done] /\ disturbed' = disturbed
      BY <1>10, <2>3 DEF Submit
    <3>2. p = Done /\ \A s \in Requests \ {r} : request'[s] = request[s]
      BY <1>1, <3>1
    <3>3. p.pc = "done" /\ p.kind = "none"
      BY <3>2 DEF Done, NewRequest
    <3>4. \A s \in Places, v \in Variants : Minds(r, s, v)
      <4>1. \A s \in Places, v \in Variants : <<s, v>> \notin Touched(p)
        BY <3>3, IsDone
      <4>2. QED
        BY <2>2, <4>1 DEF Minds
    <3>5. Bounded'
      BY <1>1, <2>1, <3>2, <3>3, BoundedKept
    <3>6. QED
      BY <3>1, <3>2, <3>3, <3>4, <3>5, UnitsStep, IsDone
  <2>4. CASE ~ (Items(Visible(b)) = {} \/ CopyFails(lines))
    <3>1. /\ request' = [request EXCEPT ![r] = new]
          /\ disturbed' = disturbed \cup
               {t \in touch : \E s \in Requests \ {r} : t \in Touched(request[s])}
      BY <1>10, <2>4 DEF Submit
    <3>2. /\ p.pc = pc /\ p.kind = kind /\ p.from = b /\ p.lines = lines /\ p.touch = touch
          /\ p.cookie = NoCookie
          /\ \A s \in Requests \ {r} : request'[s] = request[s]
      BY <1>1, <2>1, <3>1 DEF RequestType
    <3>3. CASE CurrentUser(b)
      <4>1. /\ p.pc = "cart" /\ p.kind = "checkout" /\ touch = {Account} \X Variants
            /\ p.touch = {Account} \X Variants /\ p.cookie = NoCookie
            /\ \A v \in Variants : p.lines[v] = 0
        BY <3>2, <3>3 DEF EmptyLines
      <4>0. \A s, v : <<s, v>> \in p.touch => s = Account
        BY <3>2, <4>1
      <4> HIDE DEF lines, touch, p
      <4>2. Reach(p)
        BY <4>0, <4>1 DEF Reach, InFlight, OnServer
      <4>3. ASSUME NEW s \in Places, NEW v \in Variants PROVE Minds(r, s, v)
        <5>1. CASE s = Account
          <6>1. <<s, v>> \in touch
            BY <4>1, <5>1
          <6>2. <<s, v>> \in disturbed' \/ \A d \in Requests \ {r} : <<s, v>> \notin Touched(request[d])
            BY <3>1, <6>1
          <6>3. booked[s][v] \in Int /\ Contents(s)[v] \in Int
            BY <1>1, <5>1 DEF BookedType, Contents, Lines
          <6>4. Contents(s)[v] = booked[s][v] => Balanced(p, s, v, Contents(s)[v], booked[s][v])
            BY <4>1, <5>1, <6>3 DEF Balanced, Tally
          <6>5. QED
            BY <2>2, <6>2, <6>4 DEF Minds, Balanced, p
        <5>2. CASE s # Account
          <6>1. <<s, v>> \notin Touched(p)
            BY <4>0, <5>2, TouchedLine
          <6>2. QED
            BY <2>2, <6>1 DEF Minds, p
        <5>3. QED
          BY <5>1, <5>2
      <4>4. \A v \in Variants : p.lines[v] <= added[v]
        BY <1>1, <4>1 DEF Lines
      <4>5. Bounded'
        BY <1>1, <2>1, <3>2, <4>1, <4>4, BoundedKept DEF p
      <4>6. QED
        BY <3>1, <3>2, <4>2, <4>3, <4>5, UnitsStep DEF p
    <3>4. CASE ~ CurrentUser(b)
      <4>1. /\ p.pc = "commit" /\ p.kind = "guest checkout" /\ touch = {b} \X Variants
            /\ p.lines = jar[b]
        BY <3>2, <3>4
      <4>0. \A s, v : <<s, v>> \in p.touch => s = b
        BY <3>2, <4>1
      <4> HIDE DEF lines, touch, p
      <4>2. Reach(p)
        BY <2>1, <3>2, <4>0, <4>1 DEF Reach, InFlight, OnServer
      <4>3. ASSUME NEW s \in Places, NEW v \in Variants PROVE Minds(r, s, v)
        <5>1. CASE s = b
          <6>1. <<s, v>> \in touch
            BY <4>1, <5>1
          <6>2. <<s, v>> \in disturbed' \/ \A d \in Requests \ {r} : <<s, v>> \notin Touched(request[d])
            BY <3>1, <6>1
          <6>3. Contents(s) = jar[b]
            BY <2>1, <5>1 DEF Contents
          <6>4. Contents(s)[v] = booked[s][v] => Balanced(p, s, v, Contents(s)[v], booked[s][v])
            BY <2>1, <3>2, <4>1, <5>1, <6>3 DEF Balanced, Tally
          <6>5. QED
            BY <2>2, <6>2, <6>4 DEF Minds, Balanced, p
        <5>2. CASE s # b
          <6>1. <<s, v>> \notin Touched(p)
            BY <4>0, <5>2, TouchedLine
          <6>2. QED
            BY <2>2, <6>1 DEF Minds, p
        <5>3. QED
          BY <5>1, <5>2
      <4>4. Bounded'
        BY <1>1, <2>1, <3>2, <4>1, BoundedKept DEF p
      <4>5. QED
        BY <3>1, <3>2, <4>2, <4>3, <4>4, UnitsStep DEF p
    <3>5. QED
      BY <3>3, <3>4
  <2>5. QED
    BY <2>3, <2>4
<1>11. CASE ShowAgain(r)
  <2>1. /\ q.pc = "page" /\ UNCHANGED <<items, jar, booked, disturbed, added>>
        /\ p.pc = "page" /\ p.kind = q.kind /\ p.lines = q.lines
        /\ \A s \in Requests \ {r} : request'[s] = request[s]
    BY <1>1, <1>11 DEF ShowAgain, RequestType
  <2>2. \A s \in Places, v \in Variants : Minds(r, s, v)
    <3>1. \A s, v : <<s, v>> \notin Touched(q) /\ <<s, v>> \notin Touched(p)
      BY <2>1, IsDone
    <3>2. \A s \in Places : Contents(s)' = Contents(s) /\ booked'[s] = booked[s]
      BY <2>1 DEF Contents
    <3>3. QED
      BY <3>1, <3>2 DEF Minds
  <2>3. Bounded'
    BY <1>1, <2>1, BoundedKept DEF Bounded
  <2>4. QED
    BY <2>1, <2>2, <2>3, UnitsStep, IsDone
<1>12. CASE Reply(r)
  <2>1. /\ q.pc = "reply" /\ q.from \in Browsers /\ UNCHANGED <<items, booked, disturbed, added>>
        /\ jar' = (IF q.cookie = NoCookie THEN jar ELSE [jar EXCEPT ![q.from] = q.cookie])
        /\ p = Done /\ \A s \in Requests \ {r} : request'[s] = request[s]
    BY <1>1, <1>12 DEF Reply, Shape, InFlight
  <2>2. p.pc = "done" /\ p.kind = "none"
    BY <2>1 DEF Done, NewRequest
  <2>3. ASSUME NEW s \in Places, NEW v \in Variants PROVE Minds(r, s, v)
    <3>1. <<s, v>> \notin Touched(p)
      BY <2>2, IsDone
    <3>2. CASE <<s, v>> \in Touched(q)
      <4>1. s \in Browsers /\ s # Account /\ <<s, v>> \in q.touch
        BY <1>2, <2>1, <3>2, TouchedLine DEF OnServer
      <4>2. s = q.from
        BY <1>1, <2>1, <4>1 DEF Reach, InFlight
      <4>3. Contents(s) = jar[s] /\ Contents(s)' = jar'[s]
        BY <4>1 DEF Contents
      <4>4. jar'[s] = IF q.cookie = NoCookie THEN jar[s] ELSE q.cookie
        BY <1>1, <2>1, <4>1, <4>2
      <4>5. Tally(q, s, v, Contents(s)[v], booked[s][v]) => Contents(s)'[v] = booked[s][v]
        BY <4>1, <4>3, <4>4 DEF Tally
      <4>6. QED
        BY <2>1, <3>1, <3>2, <4>5 DEF Minds, Balanced
    <3>3. CASE <<s, v>> \notin Touched(q)
      <4>1. Contents(s)' = Contents(s)
        <5>1. CASE s = q.from /\ q.cookie # NoCookie
          <6>1. <<s, v>> \in Touched(q)
            BY <1>1, <2>1, <5>1, TouchedLine DEF Reach, InFlight
          <6>2. QED
            BY <3>3, <6>1
        <5>2. CASE ~ (s = q.from /\ q.cookie # NoCookie)
          BY <1>1, <2>1, <5>2 DEF Contents
        <5>3. QED
          BY <5>1, <5>2
      <4>2. QED
        BY <2>1, <3>1, <3>3, <4>1 DEF Minds
    <3>4. QED
      BY <3>2, <3>3
  <2>4. Bounded'
    BY <1>1, <2>1, <2>2, BoundedKept
  <2>5. QED
    BY <2>1, <2>2, <2>3, <2>4, UnitsStep, IsDone
<1>13. CASE Lose(r)
  <2>1. /\ q.pc \in InFlight /\ UNCHANGED <<items, jar, booked, added>>
        /\ disturbed' = disturbed \cup Damage(q)
        /\ p = Done /\ \A s \in Requests \ {r} : request'[s] = request[s]
    BY <1>1, <1>13 DEF Lose
  <2>2. p.pc = "done" /\ p.kind = "none"
    BY <2>1 DEF Done, NewRequest
  <2>3. ASSUME NEW s \in Places, NEW v \in Variants PROVE Minds(r, s, v)
    <3>1. <<s, v>> \notin Touched(p) /\ Contents(s)' = Contents(s)
      BY <2>1, <2>2, IsDone DEF Contents
    <3>2. CASE <<s, v>> \notin Touched(q)
      BY <2>1, <3>1, <3>2 DEF Minds
    <3>3. ASSUME <<s, v>> \in Touched(q), <<s, v>> \notin Damage(q),
                 Tally(q, s, v, Contents(s)[v], booked[s][v])
          PROVE  Contents(s)[v] = booked[s][v]
      <4>0. <<s, v>> \in q.touch /\ s \in {Account, q.from}
        BY <1>1, <2>1, <3>3, TouchedLine DEF Reach
      <4>1. CASE s = Account
        <5>1. q.pc \in OnServer
          BY <1>2, <3>3, <4>1, TouchedLine
        <5>2. q.lines[v] \in Nat /\ booked[s][v] \in Int
          BY <1>1 DEF RequestType, Lines, BookedType
        <5>3. q.kind \in {"add", "login"} /\ v \notin q.todo => q.lines[v] = 0
          <6>1. CASE q.kind = "add"
            BY <1>1, <5>1, <5>2, <6>1 DEF Reach
          <6>2. CASE q.kind = "login" /\ q.pc \in {"cart", "create"}
            BY <1>1, <5>1, <5>2, <6>2 DEF Reach
          <6>3. CASE q.kind = "login" /\ q.pc \in {"read", "write"}
            BY <3>3, <4>1, <5>2, <6>3 DEF Damage, Items
          <6>4. q.kind = "login" => q.pc \in {"cart", "create", "read", "write"}
            BY <1>1, <5>1 DEF Shape, OnServer
          <6>5. QED
            BY <6>1, <6>2, <6>3, <6>4
        <5>4. QED
          BY <3>3, <4>1, <5>2, <5>3 DEF Tally
      <4>2. CASE s # Account
        <5>1. s = q.from
          BY <4>0, <4>2
        <5>2. q.cookie = NoCookie
          BY <3>3, <5>1 DEF Damage
        <5>3. QED
          BY <3>3, <4>2, <5>2 DEF Tally
      <4>3. QED
        BY <4>1, <4>2
    <3>4. QED
      BY <2>1, <3>1, <3>2, <3>3 DEF Minds, Balanced
  <2>4. Bounded'
    BY <1>1, <2>1, <2>2, BoundedKept
  <2>5. QED
    BY <2>1, <2>2, <2>3, <2>4, UnitsStep, IsDone
<1>14. QED
  BY <1>3, <1>4, <1>5, <1>6, <1>7, <1>8, <1>9, <1>10, <1>11, <1>12, <1>13 DEF Serve

(* An order takes what it has read, which is what is booked.               *)
LEMMA PlaceOrderUnits ==
  ASSUME CartsTyped, Units, NEW r \in Requests, PlaceOrder(r)
  PROVE  Units'
<1> DEFINE q       == request[r]
           p       == request'[r]
           account == q.kind = "checkout"
           place   == IF account THEN Account ELSE q.from
<1>1. /\ request \in [Requests -> RequestType] /\ q \in RequestType /\ Shape(q)
      /\ items \in Lines /\ jar \in [Browsers -> Lines] /\ booked \in BookedType
      /\ added \in Lines /\ Reach(q) /\ Bounded
  BY CartsParts DEF Requested, Units
<1>2. Account \notin Browsers /\ NoCookie \notin Lines
  BY CartsAssumption
<1>3. /\ q.pc = "commit" /\ q.kind \in {"checkout", "guest checkout"} /\ q.lines \in Lines
      /\ q.from \in Browsers /\ q.cookie = NoCookie /\ place \in Places
  BY <1>1 DEF PlaceOrder, Shape, RequestType, InFlight, OnServer, Places
<1>4. /\ p.pc = "reply" /\ p.kind = q.kind /\ p.from = q.from /\ p.touch = q.touch
      /\ p.cookie = (IF account THEN NoCookie ELSE EmptyLines) /\ p.lines = q.lines
      /\ \A s \in Requests \ {r} : request'[s] = request[s]
  BY <1>1 DEF PlaceOrder, RequestType
<1>5. /\ items' = (IF account THEN EmptyLines ELSE items)
      /\ booked' = [booked EXCEPT ![place] = Minus(@, q.lines)]
      /\ UNCHANGED <<jar, disturbed, added>>
  BY DEF PlaceOrder
<1>6. q.touch = {place} \X Variants
  BY <1>1, <1>3 DEF Reach, OnServer
<1> HIDE DEF p, q
<1>7. \A s, v : <<s, v>> \in q.touch => s = place
  BY <1>6
<1>8. Reach(p)
  BY <1>3, <1>4, <1>6, <1>7 DEF Reach, InFlight, OnServer
<1>9. ASSUME NEW s \in Places, NEW v \in Variants PROVE Minds(r, s, v)
  <2>1. CASE s # place
    <3>1. <<s, v>> \notin Touched(q) /\ <<s, v>> \notin Touched(p)
      BY <1>4, <1>7, <2>1, TouchedLine
    <3>2. booked'[s] = booked[s]
      BY <1>1, <1>5, <2>1 DEF BookedType
    <3>3. Contents(s)' = Contents(s)
      BY <1>5, <2>1 DEF Contents
    <3>4. QED
      BY <3>1, <3>2, <3>3 DEF Minds, p, q
  <2>2. CASE s = place
    <3>1. <<s, v>> \in Touched(q)
      BY <1>3, <1>6, <2>2, TouchedLine DEF OnServer
    <3>2. booked'[s][v] = booked[s][v] - q.lines[v] /\ booked[s][v] \in Int /\ q.lines[v] \in Int
      <4>1. booked'[place] = Minus(booked[place], q.lines) /\ booked[place] \in [Variants -> Int]
        BY <1>1, <1>3, <1>5 DEF BookedType
      <4>2. q.lines[v] \in Nat
        BY <1>3 DEF Lines
      <4> HIDE DEF place
      <4>3. booked'[place][v] = booked[place][v] - q.lines[v] /\ booked[place][v] \in Int
        BY <4>1 DEF Minus
      <4>4. QED
        BY <2>2, <4>2, <4>3
    <3>3. Tally(q, s, v, Contents(s)[v], booked[s][v]) =>
            q.lines[v] = Contents(s)[v] /\ booked[s][v] = Contents(s)[v]
      <4>1. CASE s = Account
        <5>1. Contents(s)[v] = items[v] /\ items[v] \in Int
          BY <1>1, <4>1 DEF Contents, Lines
        <5>2. Tally(q, s, v, Contents(s)[v], booked[s][v]) =>
                q.lines[v] = Contents(s)[v] /\ Contents(s)[v] = booked[s][v] + 0
          BY <1>3, <4>1 DEF Tally
        <5>3. QED
          BY <3>2, <5>1, <5>2
      <4>2. CASE s # Account
        BY <1>3, <4>2 DEF Tally
      <4>3. QED
        BY <4>1, <4>2
    <3>4. Tally(q, s, v, Contents(s)[v], booked[s][v]) => booked'[s][v] = 0
      BY <3>2, <3>3
    <3>5. CASE account
      <4>1. <<s, v>> \notin Touched(p) /\ Contents(s)'[v] = 0
        BY <1>2, <1>4, <1>5, <2>2, <3>5, TouchedLine DEF OnServer, Contents, EmptyLines
      <4>2. QED
        BY <3>1, <3>4, <4>1 DEF Minds, Balanced, p, q
    <3>6. CASE ~ account
      <4>1. <<s, v>> \in Touched(p) /\ s # Account
        BY <1>2, <1>3, <1>4, <1>6, <2>2, <3>6, TouchedLine
      <4>2. p.cookie # NoCookie /\ p.cookie[v] = 0
        BY <1>2, <1>4, <3>6, EmptyTyped DEF EmptyLines
      <4>3. Tally(q, s, v, Contents(s)[v], booked[s][v]) =>
              Tally(p, s, v, Contents(s)'[v], booked'[s][v])
        BY <1>4, <3>4, <4>1, <4>2 DEF Tally
      <4>4. QED
        BY <3>1, <4>1, <4>3 DEF Minds, Balanced, p, q
    <3>7. QED
      BY <3>5, <3>6
  <2>3. QED
    BY <2>1, <2>2
<1>10. Bounded'
  <2>1. \A v \in Variants : items'[v] <= added[v]
    BY <1>1, <1>5 DEF Bounded, EmptyLines, Lines
  <2>2. ASSUME NEW v \in Variants, NEW s \in Requests
        PROVE  /\ request'[s].kind = "checkout" => request'[s].lines[v] <= added[v]
               /\ request'[s].pc = "write" /\ request'[s].at = v => request'[s].seen <= added[v]
    BY <1>1, <1>4 DEF Bounded, p, q
  <2>3. QED
    BY <1>5, <2>1, <2>2 DEF Bounded
<1>11. QED
  BY <1>4, <1>5, <1>8, <1>9, <1>10, UnitsStep DEF p, q

LEMMA UnitsStay ==
  ASSUME Units, UNCHANGED <<items, jar, request, booked, disturbed, added>>
  PROVE  Units'
<1>1. ASSUME NEW p \in Places, NEW v \in Variants PROVE Line(p, v)'
  <2>1. Contents(p)' = Contents(p)
    BY DEF Contents
  <2>2. QED
    BY <2>1 DEF Units, Line
<1>2. Bounded'
  BY DEF Units, Bounded
<1>3. QED
  BY <1>1, <1>2 DEF Units

LEMMA CartsStepUnits ==
  ASSUME CatalogueTypeOK, CartsTyped, Units, CartsStep
  PROVE  Units'
<1>1. CartsTyped'
  BY CartsStepTyped
<1>2. QED
  BY <1>1, PlaceOrderUnits, ServeUnits, ShopUnits, UnitsStay DEF CartsStep, EndSession, Change

(* The stock, but for forms that write an old level back.                  *)
LEMMA StockStep ==
  ASSUME Typed, Typed', Stocked, [StorefrontNext]_storefrontVars
  PROVE  Stocked'
<1>1. /\ variant \in [Variants -> VariantType] /\ due \in [Variants -> Int]
      /\ variant' \in [Variants -> VariantType]
  BY DEF Typed, CatalogueTypeOK, VariantType
<1>2. CASE UNCHANGED <<variant, due, overwritten>>
  BY <1>2 DEF Stocked
<1>3. ASSUME NEW r \in Requests, PlaceOrder(r) PROVE Stocked'
  <2>1. request[r].lines \in Lines
    BY CartsParts DEF Typed, Requested, RequestType
  <2>2. /\ variant' = [v \in Variants |-> [variant[v] EXCEPT !.stock = @ - request[r].lines[v]]]
        /\ due' = Minus(due, request[r].lines) /\ overwritten' = overwritten
    BY <1>3 DEF PlaceOrder
  <2>3. \A v \in Variants : variant'[v].stock = variant[v].stock - request[r].lines[v]
    BY <1>1, <2>2 DEF VariantType
  <2>4. \A v \in Variants : due'[v] = due[v] - request[r].lines[v]
    BY <2>2 DEF Minus
  <2>5. \A v \in Variants : variant'[v].stock >= 0 /\ variant'[v].stock \in Nat
    BY <1>1 DEF VariantType
  <2>6. QED
    BY <2>2, <2>3, <2>4, <2>5 DEF Stocked
<1>4. ASSUME NEW e \in Errands, NEW v \in Variants, NEW n \in Supply \cup {0},
             NEW price \in PriceChoices[v], errand[e].at = v, UpdateVariant(e, price, n)
      PROVE  Stocked'
  <2>1. CASE v \in Sold /\ errand[e].seen + n > 0
    <3>1. /\ variant' = [variant EXCEPT ![v].price = price, ![v].stock = errand[e].seen + n]
          /\ due' = [due EXCEPT ![v] = @ + n]
          /\ overwritten' = IF variant[v].stock = errand[e].seen THEN overwritten
                            ELSE overwritten \cup {v}
      BY <1>4, <2>1 DEF UpdateVariant, SetVariant
    <3>2. \A w \in Variants \ {v} :
            variant'[w] = variant[w] /\ due'[w] = due[w] /\ (w \in overwritten => w \in overwritten')
      BY <1>1, <3>1
    <3>3. variant'[v].stock = errand[e].seen + n /\ due'[v] = due[v] + n
      BY <1>1, <3>1 DEF VariantType
    <3>4. v \in overwritten' \/ (variant'[v].stock = due'[v] /\ due'[v] >= 0)
      <4>1. errand[e].seen \in Nat /\ n \in Nat
        BY CatalogueAssumption, RowFacts DEF Typed, ErrandType
      <4>2. CASE variant[v].stock = errand[e].seen /\ v \notin overwritten
        <5>1. due[v] = errand[e].seen
          BY <4>2 DEF Stocked
        <5>2. QED
          BY <2>1, <3>3, <4>1, <5>1
      <4>3. QED
        BY <3>1, <4>2
    <3>5. QED
      BY <3>2, <3>4 DEF Stocked
  <2>2. CASE ~ (v \in Sold /\ errand[e].seen + n > 0)
    BY <1>2, <1>4, <2>2 DEF UpdateVariant
  <2>3. QED
    BY <2>1, <2>2
<1>5. ASSUME NEW v \in Variants, NEW stock \in Supply, NEW price \in PriceChoices[v],
             AddVariant(v, price, stock)
      PROVE  Stocked'
  <2>1. /\ variant' = [variant EXCEPT ![v] =
                         [status |-> "there", price |-> price, stock |-> stock]]
        /\ due' = [due EXCEPT ![v] = stock] /\ overwritten' = overwritten /\ stock >= 0
    BY <1>5, CatalogueAssumption DEF AddVariant, NewVariant
  <2>2. QED
    BY <1>1, <2>1 DEF Stocked
<1>6. ASSUME NEW gone, variant' = WithoutVariants(gone), UNCHANGED <<due, overwritten>>
      PROVE  Stocked'
  BY <1>1, <1>6 DEF WithoutVariants, VariantType, Stocked
<1>7. ASSUME Office(Referenced) PROVE Stocked'
  BY <1>2, <1>5, <1>6, <1>7 DEF Office, UpdateProduct, CreateProduct, DeleteProduct,
     DeleteVariant, AddImage
<1>8. ASSUME NEW e \in Errands, RunErrand(e) PROVE Stocked'
  BY <1>2, <1>4, <1>8 DEF RunErrand, EditForm, PutFile, GetImage, InsertImage, NoRow, UndoPut,
     DeleteFile, DeleteImage, GiveUp
<1>9. ASSUME CartsStep PROVE Stocked'
  BY <1>2, <1>3, <1>9 DEF CartsStep, officeVars
<1>10. ASSUME Wish PROVE UNCHANGED <<variant, due, overwritten>>
  BY <1>10 DEF Wish, AddWish, RemoveWish
<1>11. QED
  BY <1>2, <1>7, <1>8, <1>9, <1>10, StepCases DEF officeVars

(* Units are neither lost nor doubled, however requests of however many    *)
(* browsers interleave, stop and repeat: a cart holds what is booked for   *)
(* it, but on lines where requests overlapped or were cut off, no line of  *)
(* the account holds more than was added, and the stock is what it should  *)
(* be but for levels that a form has written back.                         *)
THEOREM NoUnitInvented == StorefrontSpec => []UnitsAccounted
<1>1. StorefrontInit => Units /\ Stocked
  <2> SUFFICES ASSUME StorefrontInit PROVE Units /\ Stocked
    OBVIOUS
  <2>1. /\ items = EmptyLines /\ jar = [b \in Browsers |-> EmptyLines]
        /\ request = [r \in Requests |-> NewRequest] /\ booked = [p \in Places |-> EmptyLines]
        /\ added = EmptyLines /\ due = InitialStock
        /\ \A v \in Variants : variant[v].stock = InitialStock[v]
    BY DEF StorefrontInit, CartsInit, CatalogueInit
  <2>2. \A r \in Requests : request[r].pc = "idle" /\ request[r].kind = "none"
    BY <2>1 DEF NewRequest
  <2>3. \A r \in Requests : Reach(request[r]) /\ Touched(request[r]) = {}
    BY <2>2, IsDone
  <2>4. \A p \in Places : Contents(p) = booked[p]
    BY <2>1 DEF Contents, Places
  <2>5. \A p \in Places, v \in Variants : Line(p, v)
    BY <2>3, <2>4 DEF Line
  <2>6. Bounded
    BY <2>1, <2>2 DEF Bounded, EmptyLines
  <2>7. Stocked
    BY <2>1, CatalogueAssumption DEF Stocked
  <2>8. QED
    BY <2>3, <2>5, <2>6, <2>7 DEF Units
<1>2. Typed /\ Typed' /\ Units /\ Stocked /\ [StorefrontNext]_storefrontVars => (Units /\ Stocked)'
  <2> SUFFICES ASSUME Typed, Typed', Units, Stocked, [StorefrontNext]_storefrontVars
               PROVE  (Units /\ Stocked)'
    OBVIOUS
  <2>1. Stocked'
    BY StockStep
  <2>2. Units'
    BY StepCases, UnitsStay, CartsStepUnits DEF Typed, cartsVars
  <2>3. QED
    BY <2>1, <2>2
<1>3. Units /\ Stocked => UnitsAccounted
  BY DEF Units, Stocked, Line, Bounded, UnitsAccounted
<1>4. QED
  BY <1>1, <1>2, <1>3, AlwaysTyped, PTL DEF StorefrontSpec
-----------------------------------------------------------------------------
(* Money.  Close(d, n, x, y, m): in units of 1/d, x is within m halves of  *)
(* y/n'th parts; that is, x is y at the rate n/d, give or take m/2.        *)
Close(d, n, x, y, m) ==
  /\ 2 * (d * x) - 2 * (n * y) <= d * m
  /\ 2 * (n * y) - 2 * (d * x) <= d * m

LEMMA Scale ==
  ASSUME NEW d \in Nat \ {0}, NEW x \in Int, NEW y \in Int, d * x <= d * y
  PROVE  x <= y
<1>1. SUFFICES ASSUME y + 1 <= x PROVE FALSE
  OBVIOUS
<1>2. d * (x - (y + 1)) >= 0
  BY <1>1
<1>3. d * (x - (y + 1)) = d * x - d * y - d
  OBVIOUS
<1>4. QED
  BY <1>2, <1>3

(* math.Round is off by half a cent at most.                               *)
LEMMA Rounded ==
  ASSUME NEW cents \in Nat, NEW rate \in Quotes
  PROVE  /\ Convert(cents, rate) \in Nat
         /\ Close(rate.den, rate.num, Convert(cents, rate), cents, 1)
<1> DEFINE d == rate.den
           n == rate.num
           a == 2 * cents * n + d
           x == a \div (2 * d)
<1>1. d \in Nat \ {0} /\ n \in Nat /\ 2 * d \in Nat \ {0} /\ n * cents \in Nat
  BY DEF Quotes
<1>2. Convert(cents, rate) = x
  BY DEF Convert
<1>3. a = 2 * (n * cents) + d /\ a \in Nat
  BY <1>1
<1> HIDE DEF a, n, d
<1>4. x \in Nat /\ (2 * d) * x <= a /\ a < (2 * d) * x + 2 * d
  BY <1>1, <1>3, Divided
<1> HIDE DEF x
<1>5. (2 * d) * x = 2 * (d * x) /\ d * x \in Int
  BY <1>1, <1>4
<1>6. Close(d, n, x, cents, 1)
  BY <1>1, <1>3, <1>4, <1>5 DEF Close
<1>7. QED
  BY <1>2, <1>4, <1>6 DEF d, n

LEMMA CloseSum ==
  ASSUME NEW d \in Nat, NEW n \in Nat, NEW x \in Int, NEW y \in Int, NEW k \in Int,
         NEW s \in Int, NEW t \in Int, NEW m \in Int,
         Close(d, n, x, y, k), Close(d, n, s, t, m)
  PROVE  Close(d, n, x + s, y + t, k + m)
<1>1. /\ d * (x + s) = d * x + d * s /\ n * (y + t) = n * y + n * t
      /\ d * (k + m) = d * k + d * m
  OBVIOUS
<1>2. /\ d * x \in Int /\ d * s \in Int /\ n * y \in Int /\ n * t \in Int
      /\ d * k \in Int /\ d * m \in Int
  OBVIOUS
<1>3. QED
  BY <1>1, <1>2 DEF Close

(* Two amounts that are close to the same one are close to each other.     *)
LEMMA CloseBoth ==
  ASSUME NEW d \in Nat \ {0}, NEW n \in Nat, NEW x \in Int, NEW s \in Int, NEW y \in Int,
         NEW k \in Int, NEW m \in Int, Close(d, n, x, y, k), Close(d, n, s, y, m)
  PROVE  2 * Distance(x, s) <= k + m /\ 2 * Distance(s, x) <= k + m
<1>1. /\ d * x \in Int /\ d * s \in Int /\ n * y \in Int /\ d * k \in Int /\ d * m \in Int
  OBVIOUS
<1>2. /\ 2 * (d * x) - 2 * (d * s) <= d * k + d * m
      /\ 2 * (d * s) - 2 * (d * x) <= d * k + d * m
  BY <1>1 DEF Close
<1>3. /\ d * (2 * (x - s)) = 2 * (d * x) - 2 * (d * s)
      /\ d * (2 * (s - x)) = 2 * (d * s) - 2 * (d * x)
      /\ d * (k + m) = d * k + d * m
  OBVIOUS
<1>4. 2 * (x - s) <= k + m /\ 2 * (s - x) <= k + m
  BY <1>2, <1>3, Scale
<1>5. QED
  BY <1>4 DEF Distance

(* As many units as there are, each off by as much.                        *)
LEMMA CloseTimes ==
  ASSUME NEW d \in Nat, NEW n \in Nat, NEW x \in Int, NEW y \in Int, NEW q \in Nat,
         Close(d, n, x, y, 1)
  PROVE  Close(d, n, q * x, y * q, q)
<1>1. /\ d * x \in Int /\ n * y \in Int /\ d * 1 = d
  OBVIOUS
<1>2. q * (d - (2 * (d * x) - 2 * (n * y))) >= 0 /\ q * (d - (2 * (n * y) - 2 * (d * x))) >= 0
  BY <1>1 DEF Close
<1>3. /\ q * (d - (2 * (d * x) - 2 * (n * y))) = d * q - (2 * (d * (q * x)) - 2 * (n * (y * q)))
      /\ q * (d - (2 * (n * y) - 2 * (d * x))) = d * q - (2 * (n * (y * q)) - 2 * (d * (q * x)))
  OBVIOUS
<1>4. /\ d * q \in Int /\ d * (q * x) \in Int /\ n * (y * q) \in Int
  OBVIOUS
<1>5. QED
  BY <1>2, <1>3, <1>4 DEF Close

(* Of a sum every term is off by half a cent at most.                      *)
LEMMA SumClose ==
  ASSUME NEW d \in Nat, NEW n \in Nat, NEW S, IsFiniteSet(S), NEW f, NEW g,
         \A x \in S : f[x] \in Int /\ g[x] \in Int /\ Close(d, n, g[x], f[x], 1)
  PROVE  Close(d, n, SumFunctionOnSet(g, S), SumFunctionOnSet(f, S), Cardinality(S))
<1> DEFINE Off(T) == ~ Close(d, n, SumFunctionOnSet(g, T), SumFunctionOnSet(f, T), Cardinality(T))
           F == {T \in SUBSET S : Off(T)}
<1>1. SUFFICES ASSUME F # {} PROVE FALSE
  OBVIOUS
<1>2. PICK T \in F : \A U \in F : U \subseteq T => U = T
  <2>1. F \subseteq SUBSET S
    OBVIOUS
  <2> HIDE DEF F
  <2>2. QED
    BY <1>1, <2>1, LeastSubset
<1>3. \A U \in SUBSET S : /\ IsFiniteSet(U) /\ Cardinality(U) \in Int
                          /\ SumFunctionOnSet(f, U) \in Int /\ SumFunctionOnSet(g, U) \in Int
  BY FS_Subset, FS_CardinalityType, SumType
<1>4. T # {}
  <2>1. CASE T = {}
    <3>1. SumFunctionOnSet(f, T) = 0 /\ SumFunctionOnSet(g, T) = 0 /\ Cardinality(T) = 0
      BY <2>1, SumEmpty, FS_EmptySet
    <3>2. d * 0 = 0 /\ n * 0 = 0
      OBVIOUS
    <3>3. QED
      BY <3>1, <3>2 DEF Close
  <2>2. QED
    BY <2>1
<1>5. PICK x \in T : TRUE
  BY <1>4
<1> DEFINE rest == T \ {x}
<1>6. /\ SumFunctionOnSet(f, T) = f[x] + SumFunctionOnSet(f, rest)
      /\ SumFunctionOnSet(g, T) = g[x] + SumFunctionOnSet(g, rest)
      /\ Cardinality(T) = 1 + Cardinality(rest)
  <2>1. IsFiniteSet(T) /\ \A y \in T : f[y] \in Int /\ g[y] \in Int
    BY <1>3
  <2>2. Cardinality(rest) = Cardinality(T) - 1
    BY <2>1, FS_RemoveElement
  <2>3. Cardinality(T) \in Int
    BY <1>3
  <2>4. /\ SumFunctionOnSet(f, T) = f[x] + SumFunctionOnSet(f, rest)
        /\ SumFunctionOnSet(g, T) = g[x] + SumFunctionOnSet(g, rest)
    BY <2>1, SumRemove
  <2>5. QED
    BY <2>2, <2>3, <2>4
<1>7. rest \in SUBSET S /\ ~ Off(rest)
  BY <1>2
<1> HIDE DEF rest
<1>8. Close(d, n, g[x] + SumFunctionOnSet(g, rest), f[x] + SumFunctionOnSet(f, rest),
            1 + Cardinality(rest))
  BY <1>3, <1>7, CloseSum
<1>9. QED
  BY <1>6, <1>8

(* What is ordered or shown is priced in natural numbers.                  *)
LEMMA SaleFacts ==
  ASSUME NEW sale \in Sales
  PROVE  /\ sale.lines \in [Variants -> Nat] /\ sale.price \in [Variants -> Nat]
         /\ sale.rates \in Rates /\ ShippingCents[sale.method] \in Nat
         /\ NormalizeDisplay(sale.pref) \in Currencies
         /\ \A v \in Variants : LineCents(sale, v) \in Nat
         /\ Items(sale.lines) \subseteq Variants /\ IsFiniteSet(Items(sale.lines))
         /\ Cardinality(Items(sale.lines)) \in Nat
         /\ BaseSubtotal(sale) \in Nat
<1>1. /\ sale.lines \in [Variants -> Nat] /\ sale.price \in [Variants -> Nat]
      /\ sale.rates \in Rates /\ sale.method \in Methods /\ sale.pref \in Currencies
  BY DEF Sales, Lines
<1>2. ShippingCents[sale.method] \in Nat
  BY <1>1, PricingAssumption
<1>3. NormalizeDisplay(sale.pref) \in Currencies
  BY <1>1, PricingAssumption DEF NormalizeDisplay, Configured
<1>4. \A v \in Variants : LineCents(sale, v) \in Nat
  BY <1>1 DEF LineCents
<1>5. Items(sale.lines) \subseteq Variants /\ IsFiniteSet(Items(sale.lines))
      /\ Cardinality(Items(sale.lines)) \in Nat
  BY ItemsTyped, PricingAssumption, FS_Subset, FS_CardinalityType
<1>6. BaseSubtotal(sale) \in Nat
  <2> DEFINE f == [v \in Variants |-> LineCents(sale, v)]
  <2>1. \A v \in Items(sale.lines) : f[v] \in Nat
    BY <1>4, <1>5
  <2> HIDE DEF f
  <2>2. SumFunctionOnSet(f, Items(sale.lines)) \in Nat
    BY <1>5, <2>1, SumNatural
  <2>3. QED
    BY <2>2 DEF BaseSubtotal, f
<1>7. QED
  BY <1>1, <1>2, <1>3, <1>4, <1>5, <1>6

LEMMA RateTyped ==
  ASSUME NEW rates \in Rates, NEW cur \in Currencies, Rate(rates, cur) # NoRate
  PROVE  Rate(rates, cur) \in Quotes
  BY DEF Rates, Rate, Par, Quotes

LEMMA OrderRate ==
  ASSUME NEW sale \in Sales
  PROVE  OrderCurrency(sale) \in Currencies /\ Rate(sale.rates, OrderCurrency(sale)) \in Quotes
<1> DEFINE wish == ChooseChargeCurrency(NormalizeDisplay(sale.pref))
<1>1. wish \in Currencies /\ Base \in Currencies
  BY SaleFacts, PricingAssumption DEF ChooseChargeCurrency, Configured
<1>2. Rate(sale.rates, Base) \in Quotes
  BY DEF Rate, Par, Quotes
<1>3. sale.rates \in Rates
  BY SaleFacts
<1>4. CASE ~ Usable(Rate(sale.rates, wish))
  BY <1>1, <1>2, <1>4 DEF OrderCurrency
<1>5. CASE Usable(Rate(sale.rates, wish))
  <2>1. Rate(sale.rates, wish) # NoRate
    BY <1>5 DEF Usable
  <2>2. Rate(sale.rates, wish) \in Quotes
    BY <1>1, <1>3, <2>1, RateTyped
  <2>3. QED
    BY <1>1, <1>5, <2>2 DEF OrderCurrency
<1>6. QED
  BY <1>4, <1>5

(* The order's own amounts add up, to within the halves of its cents.      *)
LEMMA OrderAddsUp ==
  ASSUME NEW sale \in Sales
  PROVE  LET charged == OrderTotal(sale)
             cur   == OrderCurrency(sale)
             rate  == Rate(sale.rates, cur)
             d     == rate.den
             n     == rate.num
             k     == Cardinality(Items(sale.lines))
             base  == BaseSubtotal(sale)
             ship  == ShippingCents[sale.method]
         IN  /\ charged.currency = cur /\ rate \in Quotes /\ charged.total \in Nat
             /\ \A v \in Items(sale.lines) : charged.lines[v] = Convert(LineCents(sale, v), rate)
             /\ Close(d, n, charged.total, base + ship, 1)
             /\ 2 * Distance(charged.subtotal + charged.shipping, charged.total) <= 3
             /\ 2 * Distance(charged.subtotal, SumFunctionOnSet(charged.lines, Items(sale.lines)))
                  <= k + 1
<1> DEFINE charged == OrderTotal(sale)
           cur   == OrderCurrency(sale)
           rate  == Rate(sale.rates, cur)
           d     == rate.den
           n     == rate.num
           k     == Cardinality(Items(sale.lines))
           base  == BaseSubtotal(sale)
           ship  == ShippingCents[sale.method]
           shop  == Items(sale.lines)
           f     == [v \in Variants |-> LineCents(sale, v)]
<1>1. /\ charged.currency = cur
      /\ charged.lines = [v \in shop |-> Convert(LineCents(sale, v), rate)]
      /\ charged.subtotal = Convert(base, rate) /\ charged.shipping = Convert(ship, rate)
      /\ charged.total = Convert(base + ship, rate)
  BY DEF OrderTotal
<1>2. /\ rate \in Quotes /\ base \in Nat /\ ship \in Nat /\ base + ship \in Nat
      /\ IsFiniteSet(shop) /\ k \in Nat
  BY OrderRate, SaleFacts
<1>3. d \in Nat \ {0} /\ n \in Nat
  BY <1>2 DEF Quotes
<1> HIDE DEF charged
<1>4. /\ charged.total \in Nat /\ Close(d, n, charged.total, base + ship, 1)
      /\ charged.subtotal \in Nat /\ Close(d, n, charged.subtotal, base, 1)
      /\ charged.shipping \in Nat /\ Close(d, n, charged.shipping, ship, 1)
  BY <1>1, <1>2, Rounded
<1>5. \A v \in shop : /\ f[v] \in Nat /\ charged.lines[v] = Convert(f[v], rate)
                      /\ charged.lines[v] \in Nat /\ Close(d, n, charged.lines[v], f[v], 1)
  BY <1>1, <1>2, SaleFacts, Rounded
<1>6. base = SumFunctionOnSet(f, shop)
  BY DEF BaseSubtotal
<1> HIDE DEF f, shop, rate, cur, base, ship, d, n, k
<1>7. /\ SumFunctionOnSet(charged.lines, shop) \in Int
      /\ Close(d, n, SumFunctionOnSet(charged.lines, shop), base, k)
  <2> DEFINE lines == charged.lines
  <2>1. \A v \in shop : f[v] \in Int /\ lines[v] \in Int /\ Close(d, n, lines[v], f[v], 1)
    BY <1>5
  <2>2. k = Cardinality(shop)
    BY DEF k, shop
  <2> HIDE DEF lines
  <2>3. SumFunctionOnSet(lines, shop) \in Int
    BY <1>2, <2>1, SumType
  <2>4. Close(d, n, SumFunctionOnSet(lines, shop), SumFunctionOnSet(f, shop), k)
    BY <1>2, <1>3, <2>1, <2>2, SumClose
  <2>5. QED
    BY <1>6, <2>3, <2>4 DEF lines
<1>8. 2 * Distance(charged.subtotal, SumFunctionOnSet(charged.lines, shop)) <= k + 1
  BY <1>2, <1>3, <1>4, <1>7, CloseBoth
<1>9. 2 * Distance(charged.subtotal + charged.shipping, charged.total) <= (1 + 1) + 1
  <2> DEFINE sub == charged.subtotal
             add == charged.shipping
  <2>1. sub \in Int /\ add \in Int /\ base \in Int /\ ship \in Int /\ 1 \in Int
    BY <1>2, <1>4
  <2>2. Close(d, n, sub, base, 1) /\ Close(d, n, add, ship, 1)
    BY <1>4
  <2> HIDE DEF sub, add
  <2>3. Close(d, n, sub + add, base + ship, 1 + 1)
    BY <1>3, <2>1, <2>2, CloseSum
  <2>4. sub + add \in Int /\ base + ship \in Int /\ charged.total \in Int /\ 1 + 1 \in Int
    BY <1>4, <2>1
  <2>5. 2 * Distance(sub + add, charged.total) <= (1 + 1) + 1
    BY <1>3, <1>4, <2>1, <2>3, <2>4, CloseBoth
  <2>6. QED
    BY <2>5 DEF sub, add
<1>10. 2 * Distance(charged.subtotal + charged.shipping, charged.total) <= 3
  BY <1>9
<1>11. \A v \in shop : charged.lines[v] = Convert(LineCents(sale, v), rate)
  BY <1>1
<1>12. QED
  BY <1>1, <1>2, <1>4, <1>8, <1>10, <1>11 DEF charged, cur, rate, d, n, k, base, ship, shop

(* At a rate above zero the order charges, in the currency of the page,    *)
(* what the page has shown.                                                *)
LEMMA PageIsCharged ==
  ASSUME NEW sale \in Sales, NormalizeDisplay(sale.pref) \in ChargeCurrencies,
         Usable(DisplayRate(sale))
  PROVE  LET charged == OrderTotal(sale)
             shown == PageTotal(sale)
             k     == Cardinality(Items(sale.lines))
         IN  /\ charged.currency = shown.currency
             /\ 2 * Distance(charged.total, shown.total) <= k + 2
             /\ \A v \in Items(sale.lines) :
                  2 * Distance(charged.lines[v], sale.lines[v] * UnitShown(sale, v))
                    <= sale.lines[v] + 1
<1> DEFINE charged == OrderTotal(sale)
           shown == PageTotal(sale)
           cur   == NormalizeDisplay(sale.pref)
           rate  == Rate(sale.rates, cur)
           d     == rate.den
           n     == rate.num
           k     == Cardinality(Items(sale.lines))
           base  == BaseSubtotal(sale)
           ship  == ShippingCents[sale.method]
           shop  == Items(sale.lines)
           f     == [v \in Variants |-> LineCents(sale, v)]
           g     == [v \in Variants |-> PageLine(sale, v)]
<1>1. OrderCurrency(sale) = cur
  BY DEF OrderCurrency, ChooseChargeCurrency, DisplayRate
<1>2. /\ charged.currency = cur /\ rate \in Quotes /\ charged.total \in Nat
      /\ \A v \in shop : charged.lines[v] = Convert(LineCents(sale, v), rate)
      /\ Close(d, n, charged.total, base + ship, 1)
  BY <1>1, OrderAddsUp
<1>3. /\ base \in Nat /\ ship \in Nat /\ IsFiniteSet(shop) /\ k \in Nat /\ shop \subseteq Variants
      /\ \A v \in Variants : LineCents(sale, v) \in Nat
      /\ sale.lines \in [Variants -> Nat] /\ sale.price \in [Variants -> Nat]
  BY SaleFacts
<1>4. d \in Nat \ {0} /\ n \in Nat
  BY <1>2 DEF Quotes
<1>5. /\ \A c \in Nat : Displayed(sale, c) = Convert(c, rate)
      /\ \A v \in Variants : PageLine(sale, v) = Convert(LineCents(sale, v), rate)
  BY DEF Displayed, PageLine, DisplayRate, Usable
<1>6. /\ shown.currency = cur
      /\ shown.total = SumFunctionOnSet(g, shop) + Displayed(sale, ship)
  BY DEF PageTotal, PageShipping
<1>7. base = SumFunctionOnSet(f, shop)
  BY DEF BaseSubtotal
<1>8. \A v \in shop : f[v] \in Nat /\ g[v] \in Nat /\ Close(d, n, g[v], f[v], 1)
  BY <1>2, <1>3, <1>5, Rounded
<1>9. Displayed(sale, ship) \in Nat /\ Close(d, n, Displayed(sale, ship), ship, 1)
  BY <1>2, <1>3, <1>5, Rounded
<1> HIDE DEF charged, shown, f, g, shop, rate, cur, base, ship, d, n, k
<1>10. /\ SumFunctionOnSet(g, shop) \in Int /\ Close(d, n, SumFunctionOnSet(g, shop), base, k)
  <2>1. \A v \in shop : f[v] \in Int /\ g[v] \in Int /\ Close(d, n, g[v], f[v], 1)
    BY <1>8
  <2>2. k = Cardinality(shop)
    BY DEF k, shop
  <2>3. SumFunctionOnSet(g, shop) \in Int
    BY <1>3, <2>1, SumType
  <2>4. Close(d, n, SumFunctionOnSet(g, shop), SumFunctionOnSet(f, shop), k)
    BY <1>3, <1>4, <2>1, <2>2, SumClose
  <2>5. QED
    BY <1>7, <2>3, <2>4
<1>11. shown.total \in Int /\ Close(d, n, shown.total, base + ship, k + 1)
  <2> DEFINE sum == SumFunctionOnSet(g, shop)
             add == Displayed(sale, ship)
  <2>1. sum \in Int /\ add \in Int /\ base \in Int /\ ship \in Int /\ k \in Int /\ 1 \in Int
    BY <1>3, <1>9, <1>10
  <2>2. Close(d, n, sum, base, k) /\ Close(d, n, add, ship, 1) /\ shown.total = sum + add
    BY <1>6, <1>9, <1>10
  <2> HIDE DEF sum, add
  <2>3. Close(d, n, sum + add, base + ship, k + 1)
    BY <1>4, <2>1, <2>2, CloseSum
  <2>4. QED
    BY <2>1, <2>2, <2>3
<1>12. 2 * Distance(charged.total, shown.total) <= 1 + (k + 1)
  BY <1>2, <1>3, <1>4, <1>11, CloseBoth
<1>13. ASSUME NEW v \in shop
       PROVE  2 * Distance(charged.lines[v], sale.lines[v] * UnitShown(sale, v)) <= sale.lines[v] + 1
  <2> DEFINE price == sale.price[v]
             units == sale.lines[v]
             unit  == UnitShown(sale, v)
  <2>1. price \in Nat /\ units \in Nat /\ v \in Variants
    BY <1>3
  <2>2. unit \in Nat /\ Close(d, n, unit, price, 1)
    BY <1>2, <1>5, <2>1, Rounded DEF UnitShown, d, n
  <2>3. charged.lines[v] \in Nat /\ Close(d, n, charged.lines[v], price * units, 1)
    BY <1>2, <1>3, <2>1, Rounded DEF LineCents, d, n
  <2> HIDE DEF price, units, unit
  <2>4. Close(d, n, units * unit, price * units, units) /\ units * unit \in Int
        /\ price * units \in Int
    BY <1>4, <2>1, <2>2, CloseTimes
  <2>5. 2 * Distance(charged.lines[v], units * unit) <= 1 + units
    BY <1>4, <2>1, <2>3, <2>4, CloseBoth
  <2>6. QED
    BY <2>1, <2>5 DEF price, units, unit
<1>14. 2 * Distance(charged.total, shown.total) <= k + 2
  BY <1>3, <1>12
<1>15. QED
  BY <1>2, <1>6, <1>13, <1>14 DEF charged, shown, cur, k, shop

LEMMA ConvertAt ==
  ASSUME NEW c \in Nat
  PROVE  /\ Convert(c, Par) = c
         /\ \A rate \in Quotes : rate.num = 0 => Convert(c, rate) = 0
<1>1. (2 * c * 1 + 1) \div (2 * 1) = c
  OBVIOUS
<1>2. Convert(c, Par) = c
  BY <1>1 DEF Convert, Par
<1>3. ASSUME NEW d \in Nat \ {0}  PROVE (2 * c * 0 + d) \div (2 * d) = 0
  <2>1. 2 * c * 0 = 0
    OBVIOUS
  <2>2. 0 \in Int /\ 2 * d \in Nat \ {0} /\ 2 * d * 0 <= d /\ d < 2 * d * (0 + 1)
    OBVIOUS
  <2>3. QED
    BY <2>1, <2>2
<1>4. QED
  BY <1>2, <1>3 DEF Convert, Quotes

(* With no usable rate the order charges the base currency unconverted;    *)
(* the page shows the same figures, or leaves out the shipping.            *)
LEMMA ChargedInBase ==
  ASSUME NEW sale \in Sales,
         ~ (NormalizeDisplay(sale.pref) \in ChargeCurrencies /\ Usable(DisplayRate(sale)))
  PROVE  LET charged == OrderTotal(sale)
             shown == PageTotal(sale)
             full  == BaseSubtotal(sale) + ShippingCents[sale.method]
         IN  /\ charged.currency = Base /\ charged.total = full
             /\ DisplayRate(sale) = NoRate => shown.total = full
             /\ ~ Usable(DisplayRate(sale)) /\ DisplayRate(sale) # NoRate =>
                  shown.total = BaseSubtotal(sale)
<1> DEFINE full == BaseSubtotal(sale) + ShippingCents[sale.method]
           ship == ShippingCents[sale.method]
           shop == Items(sale.lines)
           f    == [v \in Variants |-> LineCents(sale, v)]
           g    == [v \in Variants |-> PageLine(sale, v)]
<1>1. OrderCurrency(sale) = Base
  BY DEF OrderCurrency, ChooseChargeCurrency, DisplayRate
<1>2. /\ BaseSubtotal(sale) \in Nat /\ ship \in Nat /\ full \in Nat
      /\ shop \subseteq Variants /\ IsFiniteSet(shop)
      /\ \A v \in Variants : LineCents(sale, v) \in Nat
  BY SaleFacts
<1>3. OrderTotal(sale).currency = Base /\ OrderTotal(sale).total = full
  <2>1. /\ OrderTotal(sale).currency = Base
        /\ OrderTotal(sale).total = Convert(full, Par)
    BY <1>1 DEF OrderTotal, Rate
  <2>2. QED
    BY <1>2, <2>1, ConvertAt
<1>4. PageTotal(sale).total = SumFunctionOnSet(g, shop) + Displayed(sale, ship)
  BY DEF PageTotal, PageShipping
<1>5. ASSUME ~ Usable(DisplayRate(sale))
      PROVE  SumFunctionOnSet(g, shop) = BaseSubtotal(sale)
  <2>1. \A v \in Variants : g[v] = f[v]
    BY <1>2, <1>5, ConvertAt DEF PageLine
  <2>2. BaseSubtotal(sale) = SumFunctionOnSet(f, shop)
    BY DEF BaseSubtotal
  <2>3. \A v \in shop : g[v] = f[v]
    BY <1>2, <2>1
  <2> HIDE DEF f, g, shop
  <2>4. SumFunctionOnSet(g, shop) = SumFunctionOnSet(f, shop)
    BY <1>2, <2>3, SumSame
  <2>5. QED
    BY <2>2, <2>4
<1>6. DisplayRate(sale) = NoRate => Displayed(sale, ship) = ship
  BY <1>2, ConvertAt DEF Displayed
<1>7. ~ Usable(DisplayRate(sale)) /\ DisplayRate(sale) # NoRate => Displayed(sale, ship) = 0
  <2> SUFFICES ASSUME ~ Usable(DisplayRate(sale)), DisplayRate(sale) # NoRate
               PROVE  Displayed(sale, ship) = 0
    OBVIOUS
  <2>1. DisplayRate(sale) \in Quotes
    BY SaleFacts, RateTyped DEF DisplayRate
  <2>2. DisplayRate(sale).num = 0
    BY <2>1 DEF Usable, Quotes
  <2>3. QED
    BY <1>2, <2>1, <2>2, ConvertAt DEF Displayed
<1>8. DisplayRate(sale) = NoRate => ~ Usable(DisplayRate(sale))
  BY DEF Usable
<1> HIDE DEF g, shop, ship, full
<1>9. DisplayRate(sale) = NoRate => PageTotal(sale).total = full
  BY <1>4, <1>5, <1>6, <1>8 DEF full, ship
<1>10. ~ Usable(DisplayRate(sale)) /\ DisplayRate(sale) # NoRate =>
         PageTotal(sale).total = BaseSubtotal(sale)
  BY <1>2, <1>4, <1>5, <1>7
<1>11. QED
  BY <1>3, <1>9, <1>10 DEF full

(* What a customer pays for is what the checkout page has shown, at        *)
(* whatever prices, rates above zero and numbers of lines; where there is  *)
(* no such rate the order charges the base currency, unconverted.          *)
THEOREM PaysWhatIsShown == StorefrontSpec => []ChargedAsShown
<1>1. Typed => ChargedAsShown
  <2> SUFFICES ASSUME Typed, NEW r \in Requests, request[r].bill # NoSale
               PROVE  LET q     == request[r]
                          shown == PageTotal(q.page)
                          charged == OrderTotal(q.bill)
                          n     == Cardinality(Items(q.bill.lines))
                      IN  /\ 2 * Distance(charged.subtotal + charged.shipping, charged.total) <= 3
                          /\ 2 * Distance(charged.subtotal,
                                 SumFunctionOnSet(charged.lines, Items(q.bill.lines))) <= n + 1
                          /\ q.bill = q.page =>
                               IF /\ shown.currency \in ChargeCurrencies
                                  /\ Usable(DisplayRate(q.page))
                               THEN /\ charged.currency = shown.currency
                                    /\ 2 * Distance(charged.total, shown.total) <= n + 2
                                    /\ \A v \in Items(q.bill.lines) :
                                         2 * Distance(charged.lines[v],
                                                q.bill.lines[v] * UnitShown(q.page, v))
                                           <= q.bill.lines[v] + 1
                               ELSE /\ charged.currency = Base
                                    /\ charged.total = BaseSubtotal(q.bill)
                                                         + ShippingCents[q.bill.method]
                                    /\ DisplayRate(q.page) = NoRate =>
                                         shown.total = charged.total
                                    /\ ~ Usable(DisplayRate(q.page))
                                       /\ DisplayRate(q.page) # NoRate =>
                                         shown.total = BaseSubtotal(q.bill)
    BY DEF ChargedAsShown
  <2> DEFINE sale == request[r].bill
             cur  == NormalizeDisplay(sale.pref)
  <2>1. sale \in Sales
    BY CartsParts DEF Typed, Requested, RequestType
  <2>2. PageTotal(sale).currency = cur
    BY DEF PageTotal
  <2> HIDE DEF sale, cur
  <2>3. /\ 2 * Distance(OrderTotal(sale).subtotal + OrderTotal(sale).shipping, OrderTotal(sale).total) <= 3
        /\ 2 * Distance(OrderTotal(sale).subtotal,
                 SumFunctionOnSet(OrderTotal(sale).lines, Items(sale.lines)))
             <= Cardinality(Items(sale.lines)) + 1
    BY <2>1, OrderAddsUp
  <2>4. QED
    BY <2>1, <2>2, <2>3, PageIsCharged, ChargedInBase DEF sale, cur
<1>2. QED
  BY <1>1, AlwaysTyped, PTL
-----------------------------------------------------------------------------
Active(w) == w.pc \in {"count", "ids", "load", "facets"}
Paged(w) == w.list \notin WishLists

(* The rows that come before a row, and how many pages' rows are fetched.  *)
Ahead(w, x) == {r \in RowsIn(w) \ {x} : Before(w, r, x)}
Rank(w, x) == Cardinality(Ahead(w, x))
Fetched(w) == w.pc \in {"load", "facets"}
Cut(w) == (IF Fetched(w) THEN w.page ELSE w.page - 1) * PageSize[w.list]
Got(w) == Range(w.shown) \cup (IF Paged(w) THEN Range(w.ids) ELSE {})
Part(w) == IF Paged(w) THEN w.shown \o w.ids ELSE w.shown

Signed(w, n) == IF w.sort = "price_desc" THEN - n ELSE n
Cost(w, p) == Signed(w, CardPrice(p))
Cheaper(w, c) == {r \in RowsIn(w) : Cost(w, r) < c}

WalkShape(w) ==
  /\ Fetched(w) => w.list = "products"
  /\ Paged(w) /\ ~ Fetched(w) => w.ids = <<>>
  /\ w.list = "wish_page" => w.shown = <<>> /\ w.page = 1
  /\ w.list # "products" => w.cards = <<>>
  /\ IsInjective(w.ids)
  /\ w.late => w.came
  /\ Ties(w) => w.tied

Counted(w) ==
  Paged(w) /\ w.pc # "count" =>
    /\ w.pc = "ids" /\ ~ w.late => Cardinality(RowsIn(w)) <= w.total
    /\ ~ w.came => Cardinality(RowsIn(w)) <= w.total

NoneMissed(w) ==
  ~ w.tied /\ ~ w.left /\ ~ w.moved /\ ~ w.late =>
    \A x \in Range(w.start) :
      /\ x \in RowsIn(w)
      /\ x \in Got(w) \/ (Rank(w, x) >= Cut(w) /\ (Fetched(w) => w.total > Cut(w)))

NoneTwice(w) ==
  ~ w.tied /\ ~ w.came /\ ~ w.moved /\ Paged(w) =>
    /\ IsInjective(w.shown) /\ Range(w.shown) \cap Range(w.ids) = {}
    /\ \A x \in Got(w) \cap RowsIn(w) : Rank(w, x) < Cut(w)

InOrder(w) ==
  ~ w.tied /\ ~ w.came /\ ~ w.left /\ ~ w.moved =>
    /\ w.start \in Arrangements(w, RowsIn(w))
    /\ Len(Part(w)) = IF Cut(w) <= Len(w.start) THEN Cut(w) ELSE Len(w.start)
    /\ \A i \in 1 .. Len(Part(w)) : Part(w)[i] = w.start[i]

StillThere(w) == w.pc = "load" /\ ~ w.left => Range(w.ids) \subseteq RowsIn(w)

CardsRise(w) ==
  w.list = "products" /\ w.sort # "newest" /\ ~ w.came /\ ~ w.moved /\ ~ w.priced =>
    /\ \A i, j \in DOMAIN w.cards : i < j => Signed(w, w.cards[i]) <= Signed(w, w.cards[j])
    /\ \A i \in DOMAIN w.cards : Cardinality(Cheaper(w, Signed(w, w.cards[i]))) < Cut(w)
    /\ w.pc = "load" =>
         /\ \A i, j \in DOMAIN w.ids : i < j => Cost(w, w.ids[i]) <= Cost(w, w.ids[j])
         /\ \A i \in DOMAIN w.ids :
              /\ Cardinality(Cheaper(w, Cost(w, w.ids[i]))) < Cut(w)
              /\ \A j \in DOMAIN w.cards : Signed(w, w.cards[j]) <= Cost(w, w.ids[i])

WishesRead(w) ==
  w.list \in WishLists =>
    /\ w.pc = "ids" /\ ~ w.late /\ ~ w.left => Range(w.ids) = RowsIn(w)
    /\ w.pc = "ids" /\ w.list = "wish_page" /\ ~ w.came /\ ~ w.left /\ ~ w.moved =>
         \A a, b \in RowsIn(w) : Precedes(w.ids, a, b) = Before(w, a, b)
    /\ w.list = "wishlist" /\ ~ w.came /\ ~ w.left =>
         w.page <= TotalPages(w.list, Cardinality(RowsIn(w)))

OnTheWay(w) ==
  /\ WalkShape(w) /\ Counted(w) /\ NoneMissed(w) /\ NoneTwice(w) /\ InOrder(w)
  /\ StillThere(w) /\ CardsRise(w) /\ WishesRead(w)

-----------------------------------------------------------------------------
(* The place of a row in its list.                                         *)
LEMMA Images ==
  ASSUME NEW n \in Nat, NEW s, \A i, j \in 1 .. n : s[i] = s[j] => i = j
  PROVE  IsFiniteSet({s[j] : j \in 1 .. n}) /\ Cardinality({s[j] : j \in 1 .. n}) = n
<1> DEFINE T == {s[j] : j \in 1 .. n}
           f == [j \in 1 .. n |-> s[j]]
<1>1. f \in Bijection(1 .. n, T)
  BY DEF Bijection, Injection, Surjection, IsInjective
<1>2. ExistsBijection(1 .. n, T)
  BY <1>1 DEF ExistsBijection
<1>3. IsFiniteSet(1 .. n) /\ Cardinality(1 .. n) = n
  BY CountTo
<1> HIDE DEF T
<1>4. QED
  BY <1>2, <1>3, FS_Bijection DEF T

LEMMA Arranged ==
  ASSUME CatalogueTypeOK, NEW w, NEW s \in Arrangements(w, RowsIn(w))
  PROVE  /\ s \in Seq(RowsIn(w)) /\ Len(s) = Cardinality(RowsIn(w)) /\ Len(s) \in Nat
         /\ DOMAIN s = 1 .. Len(s) /\ Range(s) = RowsIn(w)
         /\ \A x \in RowsIn(w) : \E i \in 1 .. Len(s) : x = s[i]
         /\ \A i \in 1 .. Len(s) : s[i] \in RowsIn(w)
         /\ \A i, j \in 1 .. Len(s) : s[i] = s[j] => i = j
         /\ \A i, j \in 1 .. Len(s) : i < j => ~ Before(w, s[j], s[i])
<1>1. s \in SetToSeqs(RowsIn(w)) /\ \A i, j \in DOMAIN s : i < j => ~ Before(w, s[j], s[i])
  BY DEF Arrangements
<1>2. IsFiniteSet(RowsIn(w))
  BY RowsTyped
<1>3. /\ s \in Seq(RowsIn(w)) /\ Len(s) = Cardinality(RowsIn(w)) /\ Len(s) \in Nat
      /\ DOMAIN s = 1 .. Len(s) /\ Range(s) = RowsIn(w)
      /\ \A i, j \in 1 .. Len(s) : s[i] = s[j] => i = j
  BY <1>1, <1>2, InRow
<1>4. /\ \A x \in RowsIn(w) : \E i \in 1 .. Len(s) : x = s[i]
      /\ \A i \in 1 .. Len(s) : s[i] \in RowsIn(w)
  BY <1>3 DEF Range
<1>5. QED
  BY <1>1, <1>3, <1>4

LEMMA RankTyped ==
  ASSUME CatalogueTypeOK, NEW w, NEW x
  PROVE  /\ IsFiniteSet(Ahead(w, x)) /\ Rank(w, x) \in Nat
         /\ IsFiniteSet(RowsIn(w)) /\ Cardinality(RowsIn(w)) \in Nat
         /\ x \in RowsIn(w) => Rank(w, x) < Cardinality(RowsIn(w))
<1>1. IsFiniteSet(RowsIn(w)) /\ Cardinality(RowsIn(w)) \in Nat
  BY RowsTyped, FS_CardinalityType
<1>2. Ahead(w, x) \in SUBSET RowsIn(w) /\ x \notin Ahead(w, x)
  BY DEF Ahead
<1>3. /\ IsFiniteSet(Ahead(w, x)) /\ Rank(w, x) \in Nat
      /\ Rank(w, x) <= Cardinality(RowsIn(w))
      /\ Rank(w, x) = Cardinality(RowsIn(w)) => Ahead(w, x) = RowsIn(w)
  BY <1>1, <1>2, FS_Subset, FS_CardinalityType DEF Rank
<1>4. QED
  BY <1>1, <1>2, <1>3

LEMMA RankIs ==
  ASSUME CatalogueTypeOK, NEW w, ~ Ties(w), NEW s \in Arrangements(w, RowsIn(w)),
         NEW i \in 1 .. Len(s)
  PROVE  Rank(w, s[i]) = i - 1
<1>1. /\ Len(s) \in Nat
      /\ \A x \in RowsIn(w) : \E j \in 1 .. Len(s) : x = s[j]
      /\ \A j \in 1 .. Len(s) : s[j] \in RowsIn(w)
      /\ \A j, k \in 1 .. Len(s) : s[j] = s[k] => j = k
      /\ \A j, k \in 1 .. Len(s) : j < k => ~ Before(w, s[k], s[j])
  BY Arranged
<1>2. ASSUME NEW j \in 1 .. Len(s) PROVE s[j] \in Ahead(w, s[i]) <=> j < i
  <2>1. CASE j < i
    <3>1. s[j] # s[i] /\ s[j] \in RowsIn(w) /\ s[i] \in RowsIn(w) /\ ~ Before(w, s[i], s[j])
      BY <1>1, <2>1
    <3>2. Before(w, s[j], s[i])
      BY <3>1 DEF Ties
    <3>3. QED
      BY <2>1, <3>1, <3>2 DEF Ahead
  <2>2. CASE i < j
    BY <1>1, <2>2 DEF Ahead
  <2>3. CASE i = j
    BY <2>3 DEF Ahead
  <2>4. QED
    BY <1>1, <2>1, <2>2, <2>3
<1>3. Ahead(w, s[i]) = {s[j] : j \in 1 .. i - 1}
  <2>1. Ahead(w, s[i]) \subseteq RowsIn(w)
    BY DEF Ahead
  <2>2. \A j \in 1 .. Len(s) : j < i <=> j \in 1 .. i - 1
    BY <1>1
  <2>3. \A j \in 1 .. i - 1 : j \in 1 .. Len(s)
    BY <1>1
  <2>4. QED
    BY <1>1, <1>2, <2>1, <2>2, <2>3
<1> DEFINE m == i - 1
<1>4. m \in Nat /\ \A j, k \in 1 .. m : s[j] = s[k] => j = k
  BY <1>1
<1>5. Ahead(w, s[i]) = {s[j] : j \in 1 .. m}
  BY <1>3
<1> HIDE DEF m
<1>6. Cardinality({s[j] : j \in 1 .. m}) = m
  BY <1>4, Images
<1>7. QED
  BY <1>5, <1>6 DEF Rank, m

(* With no ties there is one way to list the rows.                         *)
LEMMA OneArrangement ==
  ASSUME CatalogueTypeOK, NEW w, ~ Ties(w), NEW s \in Arrangements(w, RowsIn(w)),
         NEW t \in Arrangements(w, RowsIn(w))
  PROVE  s = t
<1>1. /\ s \in Seq(RowsIn(w)) /\ t \in Seq(RowsIn(w)) /\ Len(s) = Len(t) /\ Len(s) \in Nat
      /\ \A i \in 1 .. Len(s) : s[i] \in RowsIn(w)
      /\ \A x \in RowsIn(w) : \E j \in 1 .. Len(t) : x = t[j]
  BY Arranged
<1>2. ASSUME NEW i \in 1 .. Len(s) PROVE s[i] = t[i]
  <2>1. PICK j \in 1 .. Len(t) : s[i] = t[j]
    BY <1>1
  <2>2. Rank(w, s[i]) = i - 1 /\ Rank(w, t[j]) = j - 1
    BY RankIs
  <2>3. i = j
    BY <1>1, <2>1, <2>2
  <2>4. QED
    BY <2>1, <2>3
<1>3. QED
  BY <1>1, <1>2, SeqEqual

(* A page holds the rows of some places.                                   *)
LEMMA PageRows ==
  ASSUME CatalogueTypeOK, NEW w, NEW s \in Arrangements(w, RowsIn(w)),
         w.list \in Lists, NEW page \in Nat \ {0}
  PROVE  LET from == (page - 1) * PageSize[w.list]
             upto == page * PageSize[w.list]
             n    == Cardinality(RowsIn(w))
             p    == PageOf(s, w.list, page)
         IN  /\ from \in Nat /\ upto \in Nat /\ from < upto /\ n \in Nat
             /\ p \in Seq(RowsIn(w)) /\ Range(p) \subseteq RowsIn(w)
             /\ Len(p) \in Nat /\ DOMAIN p = 1 .. Len(p)
             /\ Len(p) = IF upto <= n THEN upto - from ELSE IF from < n THEN n - from ELSE 0
             /\ \A i \in 1 .. Len(p) : p[i] = s[from + i] /\ from + i \in 1 .. n
             /\ IsInjective(p)
             /\ ~ Ties(w) => \A x \in RowsIn(w) :
                  x \in Range(p) <=> from <= Rank(w, x) /\ Rank(w, x) < upto
<1> DEFINE size == PageSize[w.list]
           from == (page - 1) * size
           upto == page * size
           n    == Cardinality(RowsIn(w))
           p    == PageOf(s, w.list, page)
<1>1. /\ s \in Seq(RowsIn(w)) /\ Len(s) = n /\ n \in Nat
      /\ \A i, j \in 1 .. n : s[i] = s[j] => i = j
      /\ \A x \in RowsIn(w) : \E i \in 1 .. n : x = s[i]
  BY Arranged
<1>2. size \in Nat \ {0}
  BY ListingsAssumption
<1> DEFINE to == IF upto <= n THEN upto ELSE n
<1>3. /\ from \in Nat /\ to \in Nat /\ upto \in Nat /\ upto = from + size
      /\ p \in Seq(RowsIn(w))
      /\ Len(p) = IF from < to THEN to - from ELSE 0
      /\ \A i \in 1 .. Len(p) : p[i] = s[from + i] /\ from + i \in 1 .. n
  <2> DEFINE end == IF upto <= Len(s) THEN upto ELSE Len(s)
  <2>1. /\ from \in Nat /\ end \in Nat /\ upto \in Nat /\ upto = from + size
        /\ p \in Seq(RowsIn(w))
        /\ Len(p) = IF from < end THEN end - from ELSE 0
        /\ \A i \in 1 .. Len(p) : p[i] = s[from + i] /\ from + i \in 1 .. Len(s)
    <3> DEFINE list == w.list
               S == RowsIn(w)
    <3>1. s \in Seq(S) /\ list \in Lists
      BY <1>1
    <3> HIDE DEF list, S
    <3>2. LET f == (page - 1) * PageSize[list]
              t == IF page * PageSize[list] <= Len(s) THEN page * PageSize[list] ELSE Len(s)
              q == PageOf(s, list, page)
          IN  /\ f \in Nat /\ t \in Nat /\ page * PageSize[list] \in Nat
              /\ page * PageSize[list] = f + PageSize[list]
              /\ q \in Seq(S)
              /\ Len(q) = IF f < t THEN t - f ELSE 0
              /\ \A i \in 1 .. Len(q) : q[i] = s[f + i] /\ f + i \in 1 .. Len(s)
      BY <3>1, PageTyped
    <3>3. QED
      BY <3>2 DEF list, S
  <2>2. end = to /\ Len(s) = n
    BY <1>1
  <2> HIDE DEF p, from, upto, size, n, end, to
  <2>3. QED
    BY <2>1, <2>2
<1> HIDE DEF size, from, upto, p
<1>4. from < upto
  BY <1>2, <1>3
<1>5. Len(p) = IF upto <= n THEN upto - from ELSE IF from < n THEN n - from ELSE 0
  BY <1>1, <1>3, <1>4
<1>6. DOMAIN p = 1 .. Len(p) /\ Len(p) \in Nat /\ Range(p) \subseteq RowsIn(w)
  BY <1>3, LenProperties DEF Range
<1>7. ASSUME NEW i \in 1 .. Len(p), NEW j \in 1 .. Len(p), p[i] = p[j] PROVE i = j
  <2>1. from + i = from + j
    BY <1>1, <1>3, <1>7
  <2>2. QED
    BY <1>3, <1>6, <2>1
<1>8. ASSUME ~ Ties(w), NEW x \in RowsIn(w)
      PROVE  x \in Range(p) <=> from <= Rank(w, x) /\ Rank(w, x) < upto
  <2>1. PICK k \in 1 .. n : x = s[k]
    BY <1>1
  <2>2. Rank(w, x) = k - 1
    BY <1>1, <1>8, <2>1, RankIs
  <2>3. ASSUME x \in Range(p) PROVE from < k /\ k <= upto
    <3>1. PICK i \in 1 .. Len(p) : x = p[i]
      BY <1>6, <2>3 DEF Range
    <3>2. x = s[from + i] /\ from + i \in 1 .. n
      BY <1>3, <3>1
    <3>3. k = from + i
      BY <1>1, <2>1, <3>2
    <3>4. Len(p) <= upto - from
      BY <1>1, <1>3, <1>4, <1>5
    <3>5. QED
      BY <1>3, <1>6, <3>3, <3>4
  <2>4. ASSUME from < k, k <= upto PROVE x \in Range(p)
    <3>1. k - from \in 1 .. Len(p) /\ from + (k - from) = k
      BY <1>1, <1>3, <1>5, <2>4
    <3>2. p[k - from] = s[k]
      BY <1>3, <3>1
    <3>3. QED
      BY <1>6, <2>1, <3>1, <3>2 DEF Range
  <2>5. from < k <=> from <= k - 1
    BY <1>1, <1>3
  <2>6. k <= upto <=> k - 1 < upto
    BY <1>1, <1>3
  <2>7. QED
    BY <2>2, <2>3, <2>4, <2>5, <2>6
<1>9. IsInjective(p)
  BY <1>6, <1>7 DEF IsInjective
<1>10. QED
  BY <1>1, <1>3, <1>4, <1>5, <1>6, <1>8, <1>9 DEF p, upto, from, size

-----------------------------------------------------------------------------
(* What somebody else's step does to the rows of a walk, as its flags tell. *)
LEMMA SameList ==
  ASSUME NEW u, NEW w, u.list = w.list, u.filter = w.filter, u.sort = w.sort
  PROVE  /\ RowsIn(u) = RowsIn(w) /\ Ties(u) = Ties(w)
         /\ \A a, b : Before(u, a, b) = Before(w, a, b)
         /\ \A x : Rank(u, x) = Rank(w, x)
         /\ \A rows : Arrangements(u, rows) = Arrangements(w, rows)
         /\ \A n : Signed(u, n) = Signed(w, n)
         /\ \A c : Cheaper(u, c) = Cheaper(w, c)
<1>1. RowsIn(u) = RowsIn(w)
  BY DEF RowsIn, OrderRows
<1>2. \A a, b : Before(u, a, b) = Before(w, a, b)
  BY DEF Before
<1>3. \A n : Signed(u, n) = Signed(w, n)
  BY DEF Signed
<1>4. (\A x : Rank(u, x) = Rank(w, x)) /\ Ties(u) = Ties(w)
  BY <1>1, <1>2 DEF Rank, Ahead, Ties
<1>5. \A rows : Arrangements(u, rows) = Arrangements(w, rows)
  BY <1>2 DEF Arrangements
<1>6. \A c : Cheaper(u, c) = Cheaper(w, c)
  BY <1>1, <1>3 DEF Cheaper, Cost
<1>7. QED
  BY <1>1, <1>2, <1>3, <1>4, <1>5, <1>6

LEMMA SameListLater ==
  ASSUME NEW u, NEW w, u.list = w.list, u.filter = w.filter, u.sort = w.sort
  PROVE  /\ RowsIn(u)' = RowsIn(w)' /\ Ties(u)' = Ties(w)'
         /\ \A a, b : Before(u, a, b)' = Before(w, a, b)'
         /\ \A x : Rank(u, x)' = Rank(w, x)'
         /\ \A rows : Arrangements(u, rows)' = Arrangements(w, rows)'
         /\ \A c : Cheaper(u, c)' = Cheaper(w, c)'
<1>1. RowsIn(u)' = RowsIn(w)'
  BY DEF RowsIn, OrderRows
<1>2. \A a, b : Before(u, a, b)' = Before(w, a, b)'
  BY DEF Before
<1>3. \A n : Signed(u, n) = Signed(w, n)
  BY DEF Signed
<1>4. (\A x : Rank(u, x)' = Rank(w, x)') /\ Ties(u)' = Ties(w)'
  BY <1>1, <1>2 DEF Rank, Ahead, Ties
<1>5. \A rows : Arrangements(u, rows)' = Arrangements(w, rows)'
  BY <1>2 DEF Arrangements
<1>6. \A c : Cheaper(u, c)' = Cheaper(w, c)'
  BY <1>1, <1>3 DEF Cheaper, Cost
<1>7. QED
  BY <1>1, <1>2, <1>4, <1>5, <1>6

LEMMA RowsTypedLater ==
  ASSUME CatalogueTypeOK', NEW w
  PROVE  /\ RowsIn(w)' \subseteq Products \cup Orders /\ IsFiniteSet(RowsIn(w)')
         /\ Cardinality(RowsIn(w)') \in Nat
         /\ w.list = "products" => RowsIn(w)' \subseteq Products
<1>1. Range(wished') \subseteq Products
  <2>1. wished' \in Seq(Listable') /\ Listable' \subseteq Products
    BY DEF CatalogueTypeOK, Listable
  <2> HIDE DEF Listable
  <2>2. QED
    BY <2>1, LenProperties DEF Range
<1>2. Listed(w.filter)' \subseteq Products /\ OrderRows(w)' \subseteq Orders
  BY DEF Listed, OrderRows
<1>3. IsFiniteSet(Products \cup Orders)
  BY CatalogueAssumption, ListingsAssumption, FS_Union
<1>4. /\ RowsIn(w)' \subseteq Products \cup Orders
      /\ w.list = "products" => RowsIn(w)' \subseteq Products
  BY <1>1, <1>2 DEF RowsIn
<1>5. IsFiniteSet(RowsIn(w)')
  BY <1>3, <1>4, FS_Subset
<1>6. QED
  BY <1>4, <1>5, FS_CardinalityType

LEMMA SmallerSet ==
  ASSUME NEW T, IsFiniteSet(T), NEW S, S \subseteq T
  PROVE  /\ IsFiniteSet(S) /\ Cardinality(S) \in Nat /\ Cardinality(T) \in Nat
         /\ Cardinality(S) <= Cardinality(T)
  BY FS_Subset, FS_CardinalityType

(* Where the order stays, a row that stays moves up when rows go and down  *)
(* when rows come.                                                         *)
LEMMA RankShift ==
  ASSUME CatalogueTypeOK, CatalogueTypeOK', NEW w, NEW x, x \in RowsIn(w), x \in RowsIn(w)',
         \A a, b \in RowsIn(w) \cap RowsIn(w)' : Before(w, a, b) = Before(w, a, b)'
  PROVE  /\ Rank(w, x) \in Nat /\ Rank(w, x)' \in Nat
         /\ RowsIn(w)' \subseteq RowsIn(w) => Rank(w, x)' <= Rank(w, x)
         /\ RowsIn(w) \subseteq RowsIn(w)' => Rank(w, x) <= Rank(w, x)'
<1>1. IsFiniteSet(Ahead(w, x)) /\ Rank(w, x) = Cardinality(Ahead(w, x))
  BY RankTyped DEF Rank
<1>2. IsFiniteSet(Ahead(w, x)') /\ Rank(w, x)' = Cardinality(Ahead(w, x)')
  <2>1. Ahead(w, x)' \subseteq RowsIn(w)'
    BY DEF Ahead
  <2>2. IsFiniteSet(RowsIn(w)')
    BY RowsTypedLater
  <2>3. QED
    BY <2>1, <2>2, SmallerSet DEF Rank
<1>3. ASSUME RowsIn(w)' \subseteq RowsIn(w) PROVE Ahead(w, x)' \subseteq Ahead(w, x)
  BY <1>3 DEF Ahead
<1>4. ASSUME RowsIn(w) \subseteq RowsIn(w)' PROVE Ahead(w, x) \subseteq Ahead(w, x)'
  BY <1>4 DEF Ahead
<1>5. QED
  BY <1>1, <1>2, <1>3, <1>4, SmallerSet

LEMMA SeenFacts ==
  ASSUME NEW w \in WalkType, NEW u, u = Seen(w)
  PROVE  /\ u.pc = w.pc /\ u.list = w.list /\ u.filter = w.filter /\ u.sort = w.sort
         /\ u.page = w.page /\ u.total = w.total /\ u.ids = w.ids /\ u.shown = w.shown
         /\ u.start = w.start /\ u.cards = w.cards /\ u.facets = w.facets
         /\ ~ u.came => ~ w.came /\ RowsIn(w)' \subseteq RowsIn(w)
         /\ ~ u.late => ~ w.late /\ (w.pc = "ids" => RowsIn(w)' \subseteq RowsIn(w))
         /\ ~ u.left => ~ w.left /\ RowsIn(w) \subseteq RowsIn(w)'
         /\ ~ u.moved => ~ w.moved /\ \A a, b \in RowsIn(w) \cap RowsIn(w)' :
                                        Before(w, a, b) = Before(w, a, b)'
         /\ ~ u.priced => ~ w.priced /\ \A p \in Products : CardPrice(p) = CardPrice(p)'
         /\ ~ u.tied => ~ w.tied /\ ~ Ties(w)'
         /\ (w.late => w.came) => (u.late => u.came)
         /\ Ties(w)' => u.tied
<1> DEFINE came  == w.came \/ ~ (RowsIn(w)' \subseteq RowsIn(w))
           late  == w.late \/ (~ (RowsIn(w)' \subseteq RowsIn(w)) /\ w.pc = "ids")
           left  == w.left \/ ~ (RowsIn(w) \subseteq RowsIn(w)')
           moved == w.moved \/ \E a, b \in RowsIn(w) \cap RowsIn(w)' :
                                 Before(w, a, b) # Before(w, a, b)'
           priced == w.priced \/ \E p \in Products : CardPrice(p) # CardPrice(p)'
           tied  == w.tied \/ Ties(w)'
<1>1. Seen(w) = [w EXCEPT !.came = came, !.late = late, !.left = left, !.moved = moved,
                          !.priced = priced, !.tied = tied]
  BY DEF Seen
<1> HIDE DEF came, late, left, moved, priced, tied
<1>2. /\ u.pc = w.pc /\ u.list = w.list /\ u.filter = w.filter /\ u.sort = w.sort
      /\ u.page = w.page /\ u.total = w.total /\ u.ids = w.ids /\ u.shown = w.shown
      /\ u.start = w.start /\ u.cards = w.cards /\ u.facets = w.facets
      /\ u.came = came /\ u.late = late /\ u.left = left /\ u.moved = moved
      /\ u.priced = priced /\ u.tied = tied
  BY <1>1 DEF WalkType
<1>3. QED
  BY <1>2 DEF came, late, left, moved, priced, tied

(* A walk goes on as it should, whatever the others do.                    *)
LEMMA OthersOnTheWay ==
  ASSUME CatalogueTypeOK, CatalogueTypeOK', NEW w \in WalkType, Active(w), OnTheWay(w),
         NEW u, u = Seen(w)
  PROVE  OnTheWay(u)'
<1> DEFINE R == RowsIn(w)
           S == RowsIn(w)'
<1>1. /\ u.pc = w.pc /\ u.list = w.list /\ u.filter = w.filter /\ u.sort = w.sort
      /\ u.page = w.page /\ u.total = w.total /\ u.ids = w.ids /\ u.shown = w.shown
      /\ u.start = w.start /\ u.cards = w.cards
  BY SeenFacts
<1>2. /\ ~ u.came => ~ w.came /\ S \subseteq R
      /\ ~ u.late => ~ w.late /\ (w.pc = "ids" => S \subseteq R)
      /\ ~ u.left => ~ w.left /\ R \subseteq S
      /\ ~ u.moved => ~ w.moved /\ \A a, b \in R \cap S : Before(w, a, b) = Before(w, a, b)'
      /\ ~ u.priced => ~ w.priced /\ \A p \in Products : CardPrice(p) = CardPrice(p)'
      /\ ~ u.tied => ~ w.tied /\ ~ Ties(w)'
      /\ (w.late => w.came) => (u.late => u.came)
      /\ Ties(w)' => u.tied
  BY SeenFacts
<1>3. /\ RowsIn(u)' = S /\ Ties(u)' = Ties(w)'
      /\ \A a, b : Before(u, a, b)' = Before(w, a, b)'
      /\ \A x : Rank(u, x)' = Rank(w, x)'
      /\ \A rows : Arrangements(u, rows)' = Arrangements(w, rows)'
      /\ \A c : Cheaper(u, c)' = Cheaper(w, c)'
  BY <1>1, SameListLater
<1>4. /\ Paged(u)' = Paged(w) /\ Fetched(u)' = Fetched(w) /\ Cut(u)' = Cut(w)
      /\ Got(u)' = Got(w) /\ Part(u)' = Part(w)
      /\ \A n : Signed(u, n)' = Signed(w, n)
  BY <1>1 DEF Paged, Fetched, Cut, Got, Part, Signed
<1>5. /\ IsFiniteSet(R) /\ Cardinality(R) \in Nat /\ IsFiniteSet(S) /\ Cardinality(S) \in Nat
      /\ S \subseteq R => Cardinality(S) <= Cardinality(R)
      /\ R \subseteq S => Cardinality(R) <= Cardinality(S)
  BY RowsTyped, RowsTypedLater, SmallerSet
<1>6. /\ w.total \in Nat /\ w.page \in Nat \ {0} /\ w.list \in Lists
      /\ PageSize[w.list] \in Nat \ {0}
  BY ListingsAssumption DEF WalkType
<1>7. Cut(w) \in Nat
  BY <1>6 DEF Cut
<1>8. ASSUME ~ u.moved, NEW x \in R \cap S
      PROVE  /\ Rank(w, x) \in Nat /\ Rank(w, x)' \in Nat
             /\ S \subseteq R => Rank(w, x)' <= Rank(w, x)
             /\ R \subseteq S => Rank(w, x) <= Rank(w, x)'
  BY <1>2, <1>8, RankShift
<1> HIDE DEF R, S
<1>9. WalkShape(u)'
  <2>1. WalkShape(w)
    BY DEF OnTheWay
  <2>2. QED
    BY <2>1, <1>1, <1>2, <1>3, <1>4 DEF WalkShape
<1>10. Counted(u)'
  <2>1. Counted(w)
    BY DEF OnTheWay
  <2>2. QED
    BY <2>1, <1>1, <1>2, <1>3, <1>4, <1>5, <1>6 DEF Counted, R
<1>11. NoneMissed(u)'
  <2>1. NoneMissed(w)
    BY DEF OnTheWay
  <2>2. ASSUME ~ u.tied, ~ u.left, ~ u.moved, ~ u.late, NEW x \in Range(w.start)
        PROVE  x \in S /\ (x \in Got(w) \/ (Rank(w, x)' >= Cut(w) /\ (Fetched(w) => w.total > Cut(w))))
    <3>1. x \in R /\ (x \in Got(w) \/ (Rank(w, x) >= Cut(w) /\ (Fetched(w) => w.total > Cut(w))))
      BY <1>2, <2>1, <2>2 DEF NoneMissed, R
    <3>2. x \in S /\ R \subseteq S
      BY <1>2, <2>2, <3>1
    <3>3. QED
      BY <1>7, <1>8, <2>2, <3>1, <3>2
  <2>3. QED
    BY <2>2, <1>1, <1>3, <1>4 DEF NoneMissed
<1>12. NoneTwice(u)'
  <2>1. NoneTwice(w)
    BY DEF OnTheWay
  <2>2. ASSUME ~ u.came, ~ u.moved, ~ u.tied, Paged(w), NEW x \in Got(w) \cap S
        PROVE  Rank(w, x)' < Cut(w)
    <3>1. S \subseteq R /\ x \in R
      BY <1>2, <2>2
    <3>2. Rank(w, x) < Cut(w)
      BY <1>2, <2>1, <2>2, <3>1 DEF NoneTwice, R
    <3>3. QED
      BY <1>7, <1>8, <2>2, <3>1, <3>2
  <2>3. QED
    BY <2>1, <2>2, <1>1, <1>2, <1>3, <1>4 DEF NoneTwice
<1>13. InOrder(u)'
  <2>1. InOrder(w)
    BY DEF OnTheWay
  <2>2. ASSUME ~ u.came, ~ u.moved, ~ u.tied, ~ u.left
        PROVE  /\ w.start \in SetToSeqs(S)
               /\ \A i, j \in DOMAIN w.start :
                    i < j => ~ Before(w, w.start[j], w.start[i])'
               /\ Len(Part(w)) = IF Cut(w) <= Len(w.start) THEN Cut(w) ELSE Len(w.start)
               /\ \A i \in 1 .. Len(Part(w)) : Part(w)[i] = w.start[i]
    <3>1. R = S
      BY <1>2, <2>2
    <3>2. /\ w.start \in Arrangements(w, R)
          /\ Len(Part(w)) = IF Cut(w) <= Len(w.start) THEN Cut(w) ELSE Len(w.start)
          /\ \A i \in 1 .. Len(Part(w)) : Part(w)[i] = w.start[i]
      BY <1>2, <2>1, <2>2 DEF InOrder, R
    <3>3. \A i \in DOMAIN w.start : w.start[i] \in R
      BY <3>2, Arranged DEF R
    <3>4. /\ w.start \in SetToSeqs(S)
          /\ \A i, j \in DOMAIN w.start : i < j => ~ Before(w, w.start[j], w.start[i])'
      BY <1>2, <2>2, <3>1, <3>2, <3>3 DEF Arrangements
    <3>5. QED
      BY <3>1, <3>2, <3>4
  <2>3. QED
    BY <2>2, <1>1, <1>3, <1>4 DEF InOrder, Arrangements
<1>14. StillThere(u)'
  <2>1. StillThere(w)
    BY DEF OnTheWay
  <2>2. QED
    BY <2>1, <1>1, <1>2, <1>3 DEF StillThere, R
<1>15. CardsRise(u)'
  <2>1. CardsRise(w)
    BY DEF OnTheWay
  <2>2. SUFFICES ASSUME w.list = "products", w.sort # "newest", ~ u.came, ~ u.moved, ~ u.priced
                 PROVE  CardsRise(u)'
    BY <1>1 DEF CardsRise
  <2>3. ~ w.came /\ ~ w.moved /\ ~ w.priced /\ S \subseteq R
    BY <1>2, <2>2
  <2>4. \A p \in Products : Cost(w, p)' = Cost(w, p)
    BY <1>2, <2>2 DEF Cost, Signed
  <2>5. R \subseteq Products /\ S \subseteq Products
    BY <2>2, RowsTyped, RowsTypedLater DEF R, S
  <2>6. ASSUME NEW c, Cardinality(Cheaper(w, c)) < Cut(w)
        PROVE  Cardinality(Cheaper(w, c)') < Cut(w)
    <3>1. Cheaper(w, c)' = {r \in S : Cost(w, r)' < c} /\ Cheaper(w, c) = {r \in R : Cost(w, r) < c}
      BY DEF Cheaper, S, R
    <3>2. Cheaper(w, c)' \subseteq Cheaper(w, c)
      BY <2>3, <2>4, <2>5, <3>1
    <3>3. IsFiniteSet(Cheaper(w, c))
      BY <1>5, <3>1, FS_Subset
    <3>4. QED
      BY <1>7, <2>6, <3>2, <3>3, SmallerSet
  <2>7. w.ids \in Seq(Products)
    BY DEF WalkType
  <2>8. \A i \in DOMAIN w.ids : w.ids[i] \in Products /\ Cost(u, w.ids[i])' = Cost(w, w.ids[i])
    <3>1. \A i \in DOMAIN w.ids : w.ids[i] \in Products
      BY <2>7, LenProperties
    <3>2. \A p : Cost(u, p)' = Cost(w, p)'
      BY <1>1 DEF Cost, Signed
    <3>3. QED
      BY <2>4, <3>1, <3>2
  <2>9. /\ \A i, j \in DOMAIN w.cards : i < j => Signed(w, w.cards[i]) <= Signed(w, w.cards[j])
        /\ \A i \in DOMAIN w.cards : Cardinality(Cheaper(w, Signed(w, w.cards[i]))') < Cut(w)
    BY <2>1, <2>2, <2>3, <2>6 DEF CardsRise
  <2>10. ASSUME w.pc = "load"
         PROVE  /\ \A i, j \in DOMAIN w.ids : i < j => Cost(w, w.ids[i]) <= Cost(w, w.ids[j])
                /\ \A i \in DOMAIN w.ids :
                     /\ Cardinality(Cheaper(w, Cost(w, w.ids[i]))) < Cut(w)
                     /\ \A j \in DOMAIN w.cards : Signed(w, w.cards[j]) <= Cost(w, w.ids[i])
    BY <2>1, <2>2, <2>3, <2>10 DEF CardsRise
  <2>11. QED
    BY <1>1, <1>3, <1>4, <2>6, <2>8, <2>9, <2>10 DEF CardsRise
<1>16. WishesRead(u)'
  <2>1. WishesRead(w)
    BY DEF OnTheWay
  <2>2. SUFFICES ASSUME w.list \in WishLists PROVE WishesRead(u)'
    BY <1>1 DEF WishesRead
  <2>3. ASSUME w.pc = "ids", ~ u.late, ~ u.left PROVE Range(w.ids) = S
    BY <1>2, <2>1, <2>2, <2>3 DEF WishesRead, R
  <2>4. ASSUME w.pc = "ids", w.list = "wish_page", ~ u.came, ~ u.left, ~ u.moved,
               NEW a \in S, NEW b \in S
        PROVE  Precedes(w.ids, a, b) = Before(w, a, b)'
    BY <1>2, <2>1, <2>2, <2>4 DEF WishesRead, R
  <2>5. ASSUME w.list = "wishlist", ~ u.came, ~ u.left
        PROVE  w.page <= TotalPages(w.list, Cardinality(S))
    <3>1. S = R
      BY <1>2, <2>5
    <3>2. QED
      BY <1>2, <2>1, <2>2, <2>5, <3>1 DEF WishesRead, R
  <2>6. /\ TotalPages(u.list, Cardinality(RowsIn(u)))' = TotalPages(w.list, Cardinality(S))
        /\ \A a, b : Precedes(u.ids, a, b)' = Precedes(w.ids, a, b)
    BY <1>1, <1>3 DEF TotalPages, Precedes
  <2>7. (u.pc = "ids" /\ ~ u.late /\ ~ u.left => Range(u.ids) = RowsIn(u))'
    BY <1>1, <1>3, <2>3
  <2>8. (u.pc = "ids" /\ u.list = "wish_page" /\ ~ u.came /\ ~ u.left /\ ~ u.moved =>
           \A a, b \in RowsIn(u) : Precedes(u.ids, a, b) = Before(u, a, b))'
    <3>1. ASSUME w.pc = "ids", w.list = "wish_page", ~ u.came, ~ u.left, ~ u.moved,
                 NEW a \in S, NEW b \in S
          PROVE  Precedes(u.ids, a, b)' = Before(u, a, b)'
      <4>1. Precedes(u.ids, a, b)' = Precedes(w.ids, a, b)
        BY <2>6
      <4>2. Before(u, a, b)' = Before(w, a, b)'
        BY <1>3
      <4>3. QED
        BY <2>4, <3>1, <4>1, <4>2
    <3>2. QED
      BY <1>1, <1>3, <3>1
  <2>9. (u.list = "wishlist" /\ ~ u.came /\ ~ u.left =>
           u.page <= TotalPages(u.list, Cardinality(RowsIn(u))))'
    BY <1>1, <2>5, <2>6
  <2>10. QED
    BY <2>7, <2>8, <2>9 DEF WishesRead
<1>17. QED
  BY <1>9, <1>10, <1>11, <1>12, <1>13, <1>14, <1>15, <1>16 DEF OnTheWay

-----------------------------------------------------------------------------
(* A page of rows that fits to what was shown before.                      *)
PageFits(w, rows) ==
  LET upto == w.page * PageSize[w.list]
      seen == Range(w.shown) \cup Range(rows)
      all  == w.shown \o rows
  IN  /\ ~ w.tied /\ ~ w.left /\ ~ w.moved /\ ~ w.late =>
           \A x \in Range(w.start) : x \in RowsIn(w) /\ (x \in seen \/ Rank(w, x) >= upto)
      /\ ~ w.tied /\ ~ w.came /\ ~ w.moved /\ Paged(w) =>
           /\ IsInjective(w.shown) /\ Range(w.shown) \cap Range(rows) = {}
           /\ \A x \in seen \cap RowsIn(w) : Rank(w, x) < upto
      /\ ~ w.tied /\ ~ w.came /\ ~ w.left /\ ~ w.moved =>
           /\ w.start \in Arrangements(w, RowsIn(w))
           /\ Len(all) = IF upto <= Len(w.start) THEN upto ELSE Len(w.start)
           /\ \A i \in 1 .. Len(all) : all[i] = w.start[i]

LEMMA Joined ==
  ASSUME NEW S, NEW s \in Seq(S), NEW t \in Seq(S)
  PROVE  /\ s \o t \in Seq(S) /\ Len(s \o t) = Len(s) + Len(t)
         /\ Len(s) \in Nat /\ Len(t) \in Nat
         /\ DOMAIN s = 1 .. Len(s) /\ DOMAIN t = 1 .. Len(t)
         /\ DOMAIN (s \o t) = 1 .. Len(s) + Len(t)
         /\ \A i \in 1 .. Len(s) : (s \o t)[i] = s[i]
         /\ \A i \in 1 .. Len(t) : (s \o t)[Len(s) + i] = t[i]
         /\ Range(s \o t) = Range(s) \cup Range(t)
         /\ IsInjective(s) /\ IsInjective(t) /\ Range(s) \cap Range(t) = {} =>
              IsInjective(s \o t)
<1> DEFINE a == s \o t
           m == Len(s)
           n == Len(t)
<1>1. /\ a \in Seq(S) /\ Len(a) = m + n
      /\ \A i \in 1 .. m + n : a[i] = IF i <= m THEN s[i] ELSE t[i - m]
  BY ConcatProperties
<1>2. m \in Nat /\ n \in Nat /\ DOMAIN s = 1 .. m /\ DOMAIN t = 1 .. n
  BY LenProperties
<1>3. DOMAIN a = 1 .. m + n
  BY <1>1, LenProperties
<1> HIDE DEF a, m, n
<1>4. \A i \in 1 .. m : a[i] = s[i] /\ i \in 1 .. m + n
  BY <1>1, <1>2
<1>5. \A i \in 1 .. n : a[m + i] = t[i] /\ m + i \in 1 .. m + n
  <2>1. ASSUME NEW i \in 1 .. n PROVE a[m + i] = t[i] /\ m + i \in 1 .. m + n
    <3>1. m + i \in 1 .. m + n /\ ~ (m + i <= m) /\ (m + i) - m = i
      BY <1>2
    <3>2. QED
      BY <1>1, <3>1
  <2>2. QED
    BY <2>1
<1>6. \A i \in 1 .. m + n : i \in 1 .. m \/ \E j \in 1 .. n : i = m + j
  <2>1. ASSUME NEW i \in 1 .. m + n, i \notin 1 .. m PROVE \E j \in 1 .. n : i = m + j
    <3>1. i - m \in 1 .. n /\ i = m + (i - m)
      BY <1>2, <2>1
    <3>2. QED
      BY <3>1
  <2>2. QED
    BY <2>1
<1>7. Range(a) = Range(s) \cup Range(t)
  <2>1. ASSUME NEW x \in Range(a) PROVE x \in Range(s) \cup Range(t)
    <3>1. PICK i \in 1 .. m + n : x = a[i]
      BY <1>3 DEF Range
    <3>2. CASE i \in 1 .. m
      BY <1>2, <1>4, <3>1, <3>2 DEF Range
    <3>3. ASSUME NEW j \in 1 .. n, i = m + j PROVE x \in Range(t)
      BY <1>2, <1>5, <3>1, <3>3 DEF Range
    <3>4. QED
      BY <1>6, <3>2, <3>3
  <2>2. Range(s) \subseteq Range(a)
    BY <1>2, <1>3, <1>4 DEF Range
  <2>3. Range(t) \subseteq Range(a)
    <3>1. ASSUME NEW j \in 1 .. n PROVE t[j] \in Range(a)
      <4>1. a[m + j] = t[j] /\ m + j \in DOMAIN a
        BY <1>3, <1>5
      <4>2. QED
        BY <4>1 DEF Range
    <3>2. QED
      BY <1>2, <3>1 DEF Range
  <2>4. QED
    BY <2>1, <2>2, <2>3
<1>8. ASSUME IsInjective(s), IsInjective(t), Range(s) \cap Range(t) = {} PROVE IsInjective(a)
  <2>1. ASSUME NEW i \in 1 .. m, NEW j \in 1 .. n PROVE s[i] # t[j]
    BY <1>2, <1>8 DEF Range
  <2>2. ASSUME NEW i \in 1 .. m + n, NEW j \in 1 .. m + n, a[i] = a[j] PROVE i = j
    <3>1. CASE i \in 1 .. m /\ j \in 1 .. m
      BY <1>2, <1>4, <1>8, <2>2, <3>1 DEF IsInjective
    <3>2. ASSUME i \in 1 .. m, NEW k \in 1 .. n, j = m + k PROVE FALSE
      BY <1>4, <1>5, <2>1, <2>2, <3>2
    <3>3. ASSUME j \in 1 .. m, NEW k \in 1 .. n, i = m + k PROVE FALSE
      BY <1>4, <1>5, <2>1, <2>2, <3>3
    <3>4. ASSUME NEW k \in 1 .. n, i = m + k, NEW l \in 1 .. n, j = m + l PROVE i = j
      <4>1. t[k] = t[l]
        BY <1>5, <2>2, <3>4
      <4>2. k = l
        BY <1>2, <1>8, <4>1 DEF IsInjective
      <4>3. QED
        BY <3>4, <4>2
    <3>5. QED
      BY <1>6, <3>1, <3>2, <3>3, <3>4
  <2>3. QED
    BY <1>3, <2>2 DEF IsInjective
<1>9. QED
  BY <1>1, <1>2, <1>3, <1>4, <1>5, <1>7, <1>8 DEF a, m, n

(* The next page of the rows as they are now fits.                         *)
LEMMA NextPageFits ==
  ASSUME CatalogueTypeOK, NEW w \in WalkType, OnTheWay(w), ~ Fetched(w),
         Paged(w) => w.ids = <<>>, NEW s \in Arrangements(w, RowsIn(w))
  PROVE  PageFits(w, PageOf(s, w.list, w.page))
<1> DEFINE from == (w.page - 1) * PageSize[w.list]
           upto == w.page * PageSize[w.list]
           R == RowsIn(w)
           n == Cardinality(R)
           p == PageOf(s, w.list, w.page)
<1>1. w.list \in Lists /\ w.page \in Nat \ {0} /\ w.shown \in Seq(Products \cup Orders)
  BY DEF WalkType
<1>2. /\ from \in Nat /\ upto \in Nat /\ from < upto /\ n \in Nat
      /\ p \in Seq(R) /\ Range(p) \subseteq R
      /\ Len(p) = IF upto <= n THEN upto - from ELSE IF from < n THEN n - from ELSE 0
      /\ \A i \in 1 .. Len(p) : p[i] = s[from + i] /\ from + i \in 1 .. n
      /\ ~ Ties(w) => \A x \in R : x \in Range(p) <=> from <= Rank(w, x) /\ Rank(w, x) < upto
  BY <1>1, PageRows
<1>3. Cut(w) = from
  BY DEF Cut
<1>4. w.shown \o <<>> = w.shown
  BY <1>1, ConcatEmptySeq
<1>5. Range(<<>>) = {}
  BY DEF Range
<1>6. Got(w) = Range(w.shown) /\ Part(w) = w.shown
  BY <1>4, <1>5 DEF Got, Part
<1>7. ~ w.tied => ~ Ties(w)
  BY DEF OnTheWay, WalkShape
<1>8. \A x \in R : Rank(w, x) \in Nat
  BY RankTyped
<1> HIDE DEF from, upto, p, R, n
<1>9. ASSUME ~ w.tied, ~ w.left, ~ w.moved, ~ w.late, NEW x \in Range(w.start)
      PROVE  x \in R /\ (x \in Range(w.shown) \cup Range(p) \/ Rank(w, x) >= upto)
  <2>1. x \in R /\ (x \in Range(w.shown) \/ Rank(w, x) >= from)
    BY <1>3, <1>6, <1>9 DEF OnTheWay, NoneMissed, R
  <2>2. QED
    BY <1>2, <1>7, <1>8, <1>9, <2>1
<1>10. ASSUME ~ w.tied, ~ w.came, ~ w.moved, Paged(w)
       PROVE  /\ IsInjective(w.shown) /\ Range(w.shown) \cap Range(p) = {}
              /\ \A x \in (Range(w.shown) \cup Range(p)) \cap R : Rank(w, x) < upto
  <2>1. IsInjective(w.shown) /\ \A x \in Range(w.shown) \cap R : Rank(w, x) < from
    BY <1>3, <1>6, <1>10 DEF OnTheWay, NoneTwice, R
  <2>2. \A x \in Range(p) : x \in R /\ from <= Rank(w, x) /\ Rank(w, x) < upto
    BY <1>2, <1>7, <1>10
  <2>3. QED
    BY <1>2, <1>8, <2>1, <2>2
<1>11. ASSUME ~ w.tied, ~ w.came, ~ w.left, ~ w.moved
       PROVE  LET all == w.shown \o p
              IN  /\ w.start \in Arrangements(w, R)
                  /\ Len(all) = IF upto <= Len(w.start) THEN upto ELSE Len(w.start)
                  /\ \A i \in 1 .. Len(all) : all[i] = w.start[i]
  <2> DEFINE m == Len(w.shown)
             all == w.shown \o p
  <2>1. /\ w.start \in Arrangements(w, R)
        /\ m = IF from <= Len(w.start) THEN from ELSE Len(w.start)
        /\ \A i \in 1 .. m : w.shown[i] = w.start[i]
    BY <1>3, <1>6, <1>11 DEF OnTheWay, InOrder, R
  <2>2. w.start = s /\ Len(s) = n
    BY <1>7, <1>11, <2>1, OneArrangement, Arranged DEF R, n
  <2>3. p \in Seq(Products \cup Orders)
    BY <1>2, RowsTyped, SeqMonotonic DEF R
  <2>4. /\ Len(all) = m + Len(p) /\ m \in Nat /\ Len(p) \in Nat
        /\ \A i \in 1 .. m : all[i] = w.shown[i]
        /\ \A i \in 1 .. Len(p) : all[m + i] = p[i]
    BY <1>1, <2>3, Joined
  <2> HIDE DEF m, all
  <2>5. Len(all) = IF upto <= n THEN upto ELSE n
    BY <1>2, <2>1, <2>2, <2>4
  <2>6. ASSUME NEW i \in 1 .. Len(all) PROVE all[i] = s[i]
    <3>1. CASE i <= m
      <4>1. i \in 1 .. m
        BY <2>4, <3>1
      <4>2. QED
        BY <2>1, <2>2, <2>4, <4>1
    <3>2. CASE m < i
      <4>1. i - m \in 1 .. Len(p) /\ m + (i - m) = i
        BY <2>4, <3>2
      <4>2. m = from
        BY <1>2, <2>1, <2>2, <2>4, <4>1
      <4>3. all[i] = p[i - m] /\ p[i - m] = s[from + (i - m)]
        BY <1>2, <2>4, <4>1
      <4>4. QED
        BY <4>1, <4>2, <4>3
    <3>3. QED
      BY <2>4, <3>1, <3>2
  <2>7. QED
    BY <2>1, <2>2, <2>5, <2>6 DEF all
<1>12. QED
  BY <1>9, <1>10, <1>11 DEF PageFits, R, p, upto

-----------------------------------------------------------------------------
(* What a step of the walk itself leaves as it is.                         *)
SameWalk(u, w) ==
  /\ u.list = w.list /\ u.filter = w.filter /\ u.sort = w.sort
  /\ u.start = w.start /\ u.cards = w.cards /\ u.priced = w.priced
  /\ u.came = w.came /\ u.late = w.late /\ u.left = w.left
  /\ u.moved = w.moved /\ u.tied = w.tied

OnePage(w, rows) == rows \in Seq(Products \cup Orders) /\ (Paged(w) => IsInjective(rows))
Turned(u, w, rows) ==
  u.pc = "count" /\ u.page = w.page + 1 /\ u.ids = <<>> /\ u.shown = w.shown \o rows

(* A page that fits is shown, and the walk goes on to the next one.        *)
LEMMA NextPage ==
  ASSUME CatalogueTypeOK, NEW w \in WalkType, OnTheWay(w),
         w.list # "wish_page", w.list = "products" => w.pc = "facets",
         NEW rows, OnePage(w, rows), PageFits(w, rows),
         NEW u, SameWalk(u, w), Turned(u, w, rows),
         w.list = "wishlist" /\ ~ w.came /\ ~ w.left =>
           w.page + 1 <= TotalPages(w.list, Cardinality(RowsIn(w)))
  PROVE  OnTheWay(u)
<1> DEFINE upto == w.page * PageSize[w.list]
           seen == Range(w.shown) \cup Range(rows)
           all  == w.shown \o rows
           R    == RowsIn(w)
<1>1. /\ w.shown \in Seq(Products \cup Orders) /\ w.page \in Nat \ {0} /\ w.list \in Lists
  BY DEF WalkType
<1>2. /\ u.list = w.list /\ u.filter = w.filter /\ u.sort = w.sort
      /\ u.start = w.start /\ u.cards = w.cards /\ u.priced = w.priced
      /\ u.came = w.came /\ u.late = w.late /\ u.left = w.left
      /\ u.moved = w.moved /\ u.tied = w.tied
      /\ u.pc = "count" /\ u.page = w.page + 1 /\ u.ids = <<>> /\ u.shown = all
  BY DEF SameWalk, Turned
<1>3. /\ RowsIn(u) = R /\ Ties(u) = Ties(w)
      /\ \A x : Rank(u, x) = Rank(w, x)
      /\ \A s : Arrangements(u, s) = Arrangements(w, s)
      /\ \A n : Signed(u, n) = Signed(w, n)
      /\ \A c : Cheaper(u, c) = Cheaper(w, c)
  BY <1>2, SameList
<1>4. /\ all \in Seq(Products \cup Orders) /\ Range(all) = seen
      /\ Paged(w) /\ IsInjective(w.shown) /\ Range(w.shown) \cap Range(rows) = {} =>
           IsInjective(all)
  BY <1>1, Joined DEF OnePage
<1>5. ~ Fetched(u) /\ Cut(u) = upto /\ Paged(u) = Paged(w)
  <2>1. u.page - 1 = w.page
    BY <1>1, <1>2
  <2>2. ~ Fetched(u) /\ Paged(u) = Paged(w)
    BY <1>2 DEF Fetched, Paged
  <2>3. Cut(u) = (u.page - 1) * PageSize[u.list]
    BY <2>2 DEF Cut
  <2>4. QED
    BY <1>2, <2>1, <2>2, <2>3
<1>6. Range(<<>>) = {} /\ IsInjective(<<>>)
  BY DEF Range, IsInjective
<1> HIDE DEF upto, seen, all, R
<1>7. Got(u) = seen /\ Part(u) = all
  <2>1. all \o <<>> = all
    BY <1>4, ConcatEmptySeq
  <2>2. QED
    BY <1>2, <1>4, <1>6, <2>1 DEF Got, Part
<1>8. WalkShape(u)
  BY <1>2, <1>3, <1>5, <1>6 DEF OnTheWay, WalkShape
<1>9. Counted(u)
  BY <1>2 DEF Counted
<1>10. NoneMissed(u)
  <2>1. ~ w.tied /\ ~ w.left /\ ~ w.moved /\ ~ w.late =>
          \A x \in Range(w.start) : x \in R /\ (x \in seen \/ Rank(w, x) >= upto)
    BY DEF PageFits, upto, seen, R
  <2>2. QED
    BY <1>2, <1>3, <1>5, <1>7, <2>1 DEF NoneMissed
<1>11. NoneTwice(u)
  <2>1. ~ w.tied /\ ~ w.came /\ ~ w.moved /\ Paged(w) =>
          /\ IsInjective(w.shown) /\ Range(w.shown) \cap Range(rows) = {}
          /\ \A x \in seen \cap R : Rank(w, x) < upto
    BY DEF PageFits, upto, seen, R
  <2>2. QED
    BY <1>2, <1>3, <1>4, <1>5, <1>6, <1>7, <2>1 DEF NoneTwice
<1>12. InOrder(u)
  <2>1. ~ w.tied /\ ~ w.came /\ ~ w.left /\ ~ w.moved =>
          /\ w.start \in Arrangements(w, R)
          /\ Len(all) = IF upto <= Len(w.start) THEN upto ELSE Len(w.start)
          /\ \A i \in 1 .. Len(all) : all[i] = w.start[i]
    BY DEF PageFits, upto, all, R
  <2>2. QED
    BY <1>2, <1>3, <1>5, <1>7, <2>1 DEF InOrder
<1>13. StillThere(u)
  BY <1>2 DEF StillThere
<1>14. CardsRise(u)
  <2>1. w.list = "products" => Cut(w) = upto
    BY DEF Cut, Fetched, upto
  <2>2. QED
    BY <1>2, <1>3, <1>5, <2>1 DEF OnTheWay, CardsRise
<1>15. WishesRead(u)
  BY <1>2, <1>3 DEF WishesRead, R
<1>16. QED
  BY <1>8, <1>9, <1>10, <1>11, <1>12, <1>13, <1>14, <1>15 DEF OnTheWay

(* What is said of a walk that has ended.                                  *)
Complete(w) ==
  /\ w.pc = "failed" => w.left
  /\ w.pc = "done" /\ ~ w.came /\ ~ w.moved /\ ~ w.priced =>
       \A i, j \in DOMAIN w.cards : i < j =>
         /\ w.sort = "price_asc" => w.cards[i] <= w.cards[j]
         /\ w.sort = "price_desc" => w.cards[i] >= w.cards[j]
  /\ w.pc = "done" /\ ~ w.tied =>
    /\ ~ w.left /\ ~ w.moved /\ ~ w.late => Range(w.start) \subseteq ShownRows(w)
    /\ ~ w.came /\ ~ w.moved /\ w.list # "wishlist" => IsInjective(w.shown)
    /\ ~ w.came /\ ~ w.left /\ ~ w.moved =>
         /\ w.shown = w.start
         /\ w.list = "products" =>
              \A c \in DOMAIN w.facets :
                w.facets[c] = Cardinality({p \in ShownRows(w) : CategoryOf[p] = c})

LEMMA CardsInOrder ==
  ASSUME NEW w \in WalkType, OnTheWay(w), ~ w.came, ~ w.moved, ~ w.priced,
         NEW i \in DOMAIN w.cards, NEW j \in DOMAIN w.cards, i < j
  PROVE  /\ w.sort = "price_asc" => w.cards[i] <= w.cards[j]
         /\ w.sort = "price_desc" => w.cards[i] >= w.cards[j]
<1>1. w.cards[i] \in Nat /\ w.cards[j] \in Nat
  <2>1. w.cards \in Seq(Nat)
    BY DEF WalkType
  <2>2. QED
    BY <2>1, LenProperties
<1>2. CASE w.list # "products"
  <2>1. w.cards = <<>>
    BY <1>2 DEF OnTheWay, WalkShape
  <2>2. QED
    BY <2>1
<1>3. CASE w.list = "products" /\ w.sort # "newest"
  <2>1. Signed(w, w.cards[i]) <= Signed(w, w.cards[j])
    BY <1>3 DEF OnTheWay, CardsRise
  <2>2. QED
    BY <1>1, <2>1 DEF Signed
<1>4. QED
  BY <1>2, <1>3

(* The last page of a walk.                                                *)
LastOne(w, rows) ==
  LET upto == w.page * PageSize[w.list]
  IN  /\ ~ w.tied /\ ~ w.left /\ ~ w.moved /\ ~ w.late =>
           \A x \in Range(w.start) :
             x \in Range(w.shown) \cup Range(rows) \/ Rank(w, x) < upto
      /\ ~ w.tied /\ ~ w.came /\ ~ w.left /\ ~ w.moved => Cardinality(RowsIn(w)) <= upto

LEMMA LastPage ==
  ASSUME CatalogueTypeOK, NEW w \in WalkType, OnTheWay(w), w.list # "wish_page",
         NEW rows, OnePage(w, rows), PageFits(w, rows), LastOne(w, rows),
         NEW u, SameWalk(u, w), u.pc = "done", u.shown = w.shown \o rows,
         w.list = "products" => u.facets = Facets(w.filter)
  PROVE  Complete(u)
<1> DEFINE upto == w.page * PageSize[w.list]
           seen == Range(w.shown) \cup Range(rows)
           all  == w.shown \o rows
           R    == RowsIn(w)
<1>1. /\ w.shown \in Seq(Products \cup Orders) /\ w.page \in Nat \ {0} /\ w.list \in Lists
      /\ w.start \in Seq(Products \cup Orders)
  BY DEF WalkType
<1>2. /\ u.list = w.list /\ u.filter = w.filter /\ u.sort = w.sort
      /\ u.start = w.start /\ u.cards = w.cards /\ u.priced = w.priced
      /\ u.came = w.came /\ u.late = w.late /\ u.left = w.left
      /\ u.moved = w.moved /\ u.tied = w.tied
      /\ u.pc = "done" /\ u.shown = all
  BY DEF SameWalk
<1>3. /\ all \in Seq(Products \cup Orders) /\ Range(all) = seen
      /\ Paged(w) /\ IsInjective(w.shown) /\ Range(w.shown) \cap Range(rows) = {} =>
           IsInjective(all)
  BY <1>1, Joined DEF OnePage
<1>4. upto \in Nat
  BY <1>1, ListingsAssumption
<1> HIDE DEF upto, seen, all, R
<1>5. ASSUME ~ w.came, ~ w.moved, ~ w.priced, NEW i \in DOMAIN w.cards, NEW j \in DOMAIN w.cards,
             i < j
      PROVE  /\ w.sort = "price_asc" => w.cards[i] <= w.cards[j]
             /\ w.sort = "price_desc" => w.cards[i] >= w.cards[j]
  BY <1>5, CardsInOrder
<1>6. ASSUME ~ w.tied, ~ w.left, ~ w.moved, ~ w.late, NEW x \in Range(w.start)
      PROVE  x \in seen
  <2>1. x \in R /\ (x \in seen \/ Rank(w, x) >= upto)
    BY <1>6 DEF PageFits, R, seen, upto
  <2>2. x \in seen \/ Rank(w, x) < upto
    BY <1>6 DEF LastOne, seen, upto
  <2>3. Rank(w, x) \in Nat
    BY RankTyped
  <2>4. QED
    BY <1>4, <2>1, <2>2, <2>3
<1>7. ASSUME ~ w.tied, ~ w.came, ~ w.moved, w.list # "wishlist" PROVE IsInjective(all)
  <2>1. Paged(w)
    BY <1>7 DEF Paged, WishLists
  <2>2. IsInjective(w.shown) /\ Range(w.shown) \cap Range(rows) = {}
    BY <1>7, <2>1 DEF PageFits
  <2>3. QED
    BY <1>3, <2>1, <2>2
<1>8. ASSUME ~ w.tied, ~ w.came, ~ w.left, ~ w.moved
      PROVE  all = w.start /\ Range(w.start) = R
  <2>1. /\ w.start \in Arrangements(w, R)
        /\ Len(all) = IF upto <= Len(w.start) THEN upto ELSE Len(w.start)
        /\ \A i \in 1 .. Len(all) : all[i] = w.start[i]
    BY <1>8 DEF PageFits, R, upto, all
  <2>2. Len(w.start) = Cardinality(R) /\ Len(w.start) \in Nat /\ Range(w.start) = R
    BY <2>1, Arranged DEF R
  <2>3. Cardinality(R) <= upto
    BY <1>8 DEF LastOne, R, upto
  <2>4. Len(all) = Len(w.start)
    BY <1>4, <2>1, <2>2, <2>3
  <2>5. all = w.start
    BY <1>1, <1>3, <2>1, <2>4, SeqEqual
  <2>6. QED
    BY <2>2, <2>5
<1>9. ASSUME w.list = "products", Range(all) = R, NEW c \in DOMAIN u.facets
      PROVE  u.facets[c] = Cardinality({p \in Range(all) : CategoryOf[p] = c})
  <2>1. R = Listed(w.filter) /\ u.facets = Facets(w.filter)
    BY <1>9 DEF R, RowsIn
  <2>2. c \in Categories \cup {NoCategory}
    BY <1>9, <2>1 DEF Facets
  <2>3. u.facets[c] = Cardinality({p \in Listed(w.filter) : CategoryOf[p] = c})
    BY <2>1, <2>2 DEF Facets
  <2>4. QED
    BY <1>9, <2>1, <2>3
<1>10. QED
  BY <1>2, <1>3, <1>5, <1>6, <1>7, <1>8, <1>9 DEF Complete, ShownRows

-----------------------------------------------------------------------------
(* A walk begins ...                                                       *)
LEMMA VisitOnTheWay ==
  ASSUME CatalogueTypeOK, NEW w \in WalkType, w.pc = "count", w.page = 1, w.ids = <<>>,
         w.shown = <<>>, w.cards = <<>>, ~ w.late, w.start \in Arrangements(w, RowsIn(w)),
         w.tied = Ties(w)
  PROVE  OnTheWay(w)
<1>1. ~ Fetched(w) /\ Cut(w) = 0
  <2>1. w.list \in Lists
    BY DEF WalkType
  <2>2. PageSize[w.list] \in Nat
    BY <2>1, ListingsAssumption
  <2>3. (1 - 1) * PageSize[w.list] = 0
    BY <2>2
  <2>4. QED
    BY <2>3 DEF Fetched, Cut
<1>2. Range(<<>>) = {} /\ IsInjective(<<>>) /\ DOMAIN <<>> = {} /\ Len(<<>>) = 0
  BY DEF Range, IsInjective
<1>3. Got(w) = {} /\ Part(w) = <<>>
  <2>1. <<>> \o <<>> = <<>>
    OBVIOUS
  <2>2. QED
    BY <1>2, <2>1 DEF Got, Part
<1>4. /\ Len(w.start) \in Nat /\ Range(w.start) = RowsIn(w)
      /\ \A x \in RowsIn(w) : Rank(w, x) \in Nat
  BY Arranged, RankTyped
<1>5. WalkShape(w)
  BY <1>1, <1>2 DEF WalkShape
<1>6. Counted(w) /\ StillThere(w)
  BY DEF Counted, StillThere
<1>7. NoneMissed(w)
  BY <1>1, <1>4 DEF NoneMissed
<1>8. NoneTwice(w)
  BY <1>2, <1>3 DEF NoneTwice
<1>9. InOrder(w)
  <2>1. 0 <= Len(w.start) /\ \A i \in 1 .. 0 : FALSE
    BY <1>4
  <2>2. QED
    BY <1>1, <1>2, <1>3, <2>1 DEF InOrder
<1>10. CardsRise(w)
  BY <1>2 DEF CardsRise
<1>11. WishesRead(w)
  <2>1. 1 <= TotalPages(w.list, Cardinality(RowsIn(w)))
    <3>1. w.list \in Lists /\ Cardinality(RowsIn(w)) \in Nat
      BY RankTyped DEF WalkType
    <3>2. TotalPages(w.list, Cardinality(RowsIn(w))) \in Nat \ {0}
      BY <3>1, PagesTyped
    <3>3. QED
      BY <3>2
  <2>2. QED
    BY <2>1 DEF WishesRead
<1>12. QED
  BY <1>5, <1>6, <1>7, <1>8, <1>9, <1>10, <1>11 DEF OnTheWay

(* ... and reads the first of what a page takes: the number of its rows,   *)
(* or the whole wishlist.                                                  *)
LEMMA ReadOnTheWay ==
  ASSUME CatalogueTypeOK, NEW w \in WalkType, OnTheWay(w), w.pc = "count",
         NEW u, SameWalk(u, w), u.pc = "ids", u.page = w.page, u.shown = w.shown,
         Paged(w) => u.ids = w.ids /\ Cardinality(RowsIn(w)) <= u.total,
         ~ Paged(w) => u.ids = wished
  PROVE  OnTheWay(u)
<1>1. /\ u.list = w.list /\ u.filter = w.filter /\ u.sort = w.sort
      /\ u.start = w.start /\ u.cards = w.cards /\ u.priced = w.priced
      /\ u.came = w.came /\ u.late = w.late /\ u.left = w.left
      /\ u.moved = w.moved /\ u.tied = w.tied
  BY DEF SameWalk
<1>2. /\ RowsIn(u) = RowsIn(w) /\ Ties(u) = Ties(w)
      /\ \A a, b : Before(u, a, b) = Before(w, a, b)
      /\ \A x : Rank(u, x) = Rank(w, x)
      /\ \A s : Arrangements(u, s) = Arrangements(w, s)
      /\ \A n : Signed(u, n) = Signed(w, n)
      /\ \A c : Cheaper(u, c) = Cheaper(w, c)
  BY <1>1, SameList
<1>3. /\ ~ Fetched(w) /\ ~ Fetched(u) /\ Cut(u) = Cut(w) /\ Paged(u) = Paged(w)
      /\ Got(u) = Got(w) /\ Part(u) = Part(w)
  BY <1>1 DEF Fetched, Cut, Paged, Got, Part
<1>4. IsInjective(wished) /\ (~ Paged(w) => RowsIn(w) = Range(wished))
  BY RowsTyped DEF CatalogueTypeOK, Paged
<1>5. WalkShape(u)
  BY <1>1, <1>2, <1>3, <1>4 DEF OnTheWay, WalkShape
<1>6. Counted(u)
  BY <1>2, <1>3 DEF Counted
<1>7. NoneMissed(u)
  BY <1>1, <1>2, <1>3 DEF OnTheWay, NoneMissed
<1>8. NoneTwice(u)
  BY <1>1, <1>2, <1>3 DEF OnTheWay, NoneTwice, Got
<1>9. InOrder(u)
  BY <1>1, <1>2, <1>3 DEF OnTheWay, InOrder
<1>10. StillThere(u)
  BY DEF StillThere
<1>11. CardsRise(u)
  BY <1>1, <1>2, <1>3 DEF OnTheWay, CardsRise
<1>12. WishesRead(u)
  <2>1. w.list = "wish_page" => \A a, b : Precedes(wished, a, b) = Before(w, a, b)
    BY DEF Before, WishLists
  <2>2. w.list \in WishLists => u.ids = wished /\ Range(wished) = RowsIn(w)
    BY <1>4 DEF Paged
  <2>3. w.list = "wishlist" /\ ~ w.came /\ ~ w.left =>
          w.page <= TotalPages(w.list, Cardinality(RowsIn(w)))
    BY DEF OnTheWay, WishesRead, WishLists
  <2>4. QED
    BY <1>1, <1>2, <2>1, <2>2, <2>3 DEF WishesRead
<1>13. QED
  BY <1>5, <1>6, <1>7, <1>8, <1>9, <1>10, <1>11, <1>12 DEF OnTheWay

-----------------------------------------------------------------------------
(* Products come by their prices, and few are cheaper than the first ones. *)
LEMMA CostRises ==
  ASSUME CatalogueTypeOK, NEW w \in WalkType, w.list = "products", w.sort # "newest",
         NEW s \in Arrangements(w, RowsIn(w))
  PROVE  /\ \A p : Cost(w, p) \in Int
         /\ \A i, j \in 1 .. Len(s) : i < j => Cost(w, s[i]) <= Cost(w, s[j])
<1>1. ASSUME NEW p
      PROVE  /\ MinPrice(p) \in Int
             /\ CardPrice(p) = IF 0 <= MinPrice(p) THEN MinPrice(p) ELSE 0
             /\ Cost(w, p) = IF w.sort = "price_desc" THEN - CardPrice(p) ELSE CardPrice(p)
  BY PriceTyped DEF Cost, Signed
<1>2. w.sort \in {"price_asc", "price_desc"}
  BY DEF WalkType, Sorts
<1>3. ASSUME NEW i \in 1 .. Len(s), NEW j \in 1 .. Len(s), i < j
      PROVE  Cost(w, s[i]) <= Cost(w, s[j])
  <2> DEFINE a == s[i]
             b == s[j]
  <2>1. ~ Before(w, b, a)
    BY <1>3, Arranged
  <2> HIDE DEF a, b
  <2>2. ~ ProductBefore(w.sort, b, a)
    BY <2>1 DEF Before
  <2>3. CASE w.sort = "price_asc"
    <3>1. ~ (MinPrice(b) < MinPrice(a))
      BY <2>2, <2>3 DEF ProductBefore
    <3>2. CardPrice(a) <= CardPrice(b)
      BY <1>1, <3>1
    <3>3. QED
      BY <1>1, <2>3, <3>2 DEF a, b
  <2>4. CASE w.sort = "price_desc"
    <3>1. ~ (MinPrice(b) > MinPrice(a))
      BY <2>2, <2>4 DEF ProductBefore
    <3>2. CardPrice(b) <= CardPrice(a) /\ CardPrice(a) \in Int /\ CardPrice(b) \in Int
      BY <1>1, <3>1
    <3>3. - CardPrice(a) <= - CardPrice(b)
      BY <3>2
    <3>4. QED
      BY <1>1, <2>4, <3>3 DEF a, b
  <2>5. QED
    BY <1>2, <2>3, <2>4
<1>4. \A p : Cost(w, p) \in Int
  BY <1>1
<1>5. QED
  BY <1>3, <1>4

LEMMA FewCheaper ==
  ASSUME CatalogueTypeOK, NEW w \in WalkType, w.list = "products", w.sort # "newest",
         NEW s \in Arrangements(w, RowsIn(w)), NEW k \in 1 .. Len(s)
  PROVE  /\ Cardinality(Cheaper(w, Cost(w, s[k]))) \in Nat
         /\ Cardinality(Cheaper(w, Cost(w, s[k]))) <= k - 1
         /\ \A c \in Int : Cost(w, s[k]) < c => k <= Cardinality(Cheaper(w, c))
<1> DEFINE T(n) == {s[j] : j \in 1 .. n}
<1>1. /\ Len(s) \in Nat
      /\ \A x \in RowsIn(w) : \E i \in 1 .. Len(s) : x = s[i]
      /\ \A i \in 1 .. Len(s) : s[i] \in RowsIn(w)
      /\ \A i, j \in 1 .. Len(s) : s[i] = s[j] => i = j
  BY Arranged
<1>2. /\ \A p : Cost(w, p) \in Int
      /\ \A i, j \in 1 .. Len(s) : i < j => Cost(w, s[i]) <= Cost(w, s[j])
  BY CostRises
<1>3. ASSUME NEW n \in Nat, n <= Len(s) PROVE IsFiniteSet(T(n)) /\ Cardinality(T(n)) = n
  <2>1. \A i, j \in 1 .. n : s[i] = s[j] => i = j
    BY <1>1, <1>3
  <2>2. QED
    BY <2>1, Images
<1>4. Cheaper(w, Cost(w, s[k])) \subseteq T(k - 1)
  <2>1. ASSUME NEW r \in RowsIn(w), Cost(w, r) < Cost(w, s[k]) PROVE r \in T(k - 1)
    <3>1. PICK j \in 1 .. Len(s) : r = s[j]
      BY <1>1
    <3>2. ~ (k <= j)
      BY <1>1, <1>2, <2>1, <3>1
    <3>3. j \in 1 .. k - 1
      BY <1>1, <3>2
    <3>4. QED
      BY <3>1, <3>3
  <2>2. QED
    BY <2>1 DEF Cheaper
<1>5. ASSUME NEW c \in Int, Cost(w, s[k]) < c PROVE T(k) \subseteq Cheaper(w, c)
  <2>1. ASSUME NEW j \in 1 .. k PROVE s[j] \in RowsIn(w) /\ Cost(w, s[j]) < c
    <3>1. j \in 1 .. Len(s) /\ j <= k
      BY <1>1
    <3>2. Cost(w, s[j]) <= Cost(w, s[k])
      <4>1. j = k \/ j < k
        BY <1>1, <3>1
      <4>2. QED
        BY <1>2, <3>1, <4>1
    <3>3. QED
      BY <1>1, <1>2, <1>5, <3>1, <3>2
  <2>2. QED
    BY <2>1 DEF Cheaper
<1> HIDE DEF T
<1>6. k - 1 \in Nat /\ k - 1 <= Len(s) /\ k \in Nat /\ k <= Len(s)
  BY <1>1
<1>7. \A c : IsFiniteSet(Cheaper(w, c))
  <2>1. IsFiniteSet(RowsIn(w)) /\ \A c : Cheaper(w, c) \subseteq RowsIn(w)
    BY RowsTyped DEF Cheaper
  <2>2. QED
    BY <2>1, FS_Subset
<1>8. IsFiniteSet(T(k - 1)) /\ Cardinality(T(k - 1)) = k - 1 /\ Cardinality(T(k)) = k
  BY <1>3, <1>6
<1>9. QED
  BY <1>4, <1>5, <1>7, <1>8, SmallerSet

LEMMA FetchIdsOnTheWay ==
  ASSUME CatalogueTypeOK, NEW w \in WalkType, OnTheWay(w), w.pc = "ids", w.list = "products",
         NEW s \in Arrangements(w, RowsIn(w)), NEW u, SameWalk(u, w),
         u.pc = "load", u.page = w.page, u.shown = w.shown, u.total = w.total,
         u.ids = PageOf(s, w.list, w.page)
  PROVE  OnTheWay(u)
<1> DEFINE from == (w.page - 1) * PageSize[w.list]
           upto == w.page * PageSize[w.list]
           R == RowsIn(w)
           n == Cardinality(R)
           p == PageOf(s, w.list, w.page)
<1>1. /\ u.list = w.list /\ u.filter = w.filter /\ u.sort = w.sort
      /\ u.start = w.start /\ u.cards = w.cards /\ u.priced = w.priced
      /\ u.came = w.came /\ u.late = w.late /\ u.left = w.left
      /\ u.moved = w.moved /\ u.tied = w.tied
  BY DEF SameWalk
<1>2. /\ RowsIn(u) = R /\ Ties(u) = Ties(w)
      /\ \A x : Rank(u, x) = Rank(w, x)
      /\ \A t : Arrangements(u, t) = Arrangements(w, t)
      /\ \A m : Signed(u, m) = Signed(w, m)
      /\ \A c : Cheaper(u, c) = Cheaper(w, c)
  BY <1>1, SameList
<1>3. w.list \in Lists /\ w.page \in Nat \ {0} /\ w.shown \in Seq(Products \cup Orders)
      /\ w.total \in Nat
  BY DEF WalkType
<1>4. /\ from \in Nat /\ upto \in Nat /\ from < upto /\ n \in Nat
      /\ p \in Seq(R) /\ Range(p) \subseteq R /\ IsInjective(p)
      /\ Len(p) \in Nat /\ DOMAIN p = 1 .. Len(p)
      /\ Len(p) = IF upto <= n THEN upto - from ELSE IF from < n THEN n - from ELSE 0
      /\ \A i \in 1 .. Len(p) : p[i] = s[from + i] /\ from + i \in 1 .. n
  BY <1>3, PageRows
<1>5. ~ Fetched(w) /\ Fetched(u) /\ Paged(w) /\ Paged(u)
  BY <1>1 DEF Fetched, Paged, WishLists
<1>6. Cut(w) = from /\ Cut(u) = upto
  BY <1>1, <1>5 DEF Cut
<1>7. Got(u) = Range(w.shown) \cup Range(p) /\ Part(u) = w.shown \o p
  BY <1>5 DEF Got, Part
<1>8. PageFits(w, p)
  <2>1. w.ids = <<>>
    BY <1>5 DEF OnTheWay, WalkShape
  <2>2. QED
    BY <1>5, <2>1, NextPageFits
<1>9. ~ w.late => n <= w.total
  BY <1>5 DEF OnTheWay, Counted
<1>10. Len(s) = n
  BY Arranged
<1> HIDE DEF from, upto, R, n, p
<1>11. WalkShape(u)
  BY <1>1, <1>2, <1>4, <1>5 DEF OnTheWay, WalkShape, p
<1>12. Counted(u)
  BY <1>1, <1>2, <1>5 DEF OnTheWay, Counted, R
<1>13. NoneMissed(u)
  <2>1. ASSUME ~ w.tied, ~ w.left, ~ w.moved, ~ w.late, NEW x \in Range(w.start)
        PROVE  /\ x \in R
               /\ x \in Range(w.shown) \cup Range(p) \/ (Rank(w, x) >= upto /\ w.total > upto)
    <3>1. x \in R /\ (x \in Range(w.shown) \cup Range(p) \/ Rank(w, x) >= upto)
      BY <1>8, <2>1 DEF PageFits, R, upto, p
    <3>2. Rank(w, x) \in Nat /\ Rank(w, x) < n
      BY <3>1, RankTyped DEF R, n
    <3>3. QED
      BY <1>3, <1>4, <1>9, <2>1, <3>1, <3>2
  <2>2. QED
    BY <1>1, <1>2, <1>6, <1>7, <2>1 DEF NoneMissed
<1>14. NoneTwice(u)
  <2>1. ASSUME ~ w.tied, ~ w.came, ~ w.moved
        PROVE  /\ IsInjective(w.shown) /\ Range(w.shown) \cap Range(p) = {}
               /\ \A x \in (Range(w.shown) \cup Range(p)) \cap R : Rank(w, x) < upto
    BY <1>5, <1>8, <2>1 DEF PageFits, R, upto, p
  <2>2. u.ids = p
    BY DEF p
  <2>3. QED
    BY <1>1, <1>2, <1>6, <1>7, <2>1, <2>2 DEF NoneTwice
<1>15. InOrder(u)
  <2>1. ASSUME ~ w.tied, ~ w.came, ~ w.left, ~ w.moved
        PROVE  LET all == w.shown \o p
               IN  /\ w.start \in Arrangements(w, R)
                   /\ Len(all) = IF upto <= Len(w.start) THEN upto ELSE Len(w.start)
                   /\ \A i \in 1 .. Len(all) : all[i] = w.start[i]
    BY <1>8, <2>1 DEF PageFits, R, upto, p
  <2>2. QED
    BY <1>1, <1>2, <1>6, <1>7, <2>1 DEF InOrder
<1>16. StillThere(u)
  BY <1>2, <1>4 DEF StillThere, p
<1>17. CardsRise(u)
  <2>1. SUFFICES ASSUME w.sort # "newest", ~ w.came, ~ w.moved, ~ w.priced
                 PROVE  CardsRise(u)
    BY <1>1 DEF CardsRise
  <2>2. /\ \A q : Cost(w, q) \in Int
        /\ \A i, j \in 1 .. n : i < j => Cost(w, s[i]) <= Cost(w, s[j])
    BY <1>10, <2>1, CostRises
  <2>3. ASSUME NEW k \in 1 .. n
        PROVE  /\ Cardinality(Cheaper(w, Cost(w, s[k]))) \in Nat
               /\ Cardinality(Cheaper(w, Cost(w, s[k]))) <= k - 1
               /\ \A c \in Int : Cost(w, s[k]) < c => k <= Cardinality(Cheaper(w, c))
    BY <1>10, <2>1, FewCheaper
  <2>4. /\ \A i, j \in DOMAIN w.cards : i < j => Signed(w, w.cards[i]) <= Signed(w, w.cards[j])
        /\ \A i \in DOMAIN w.cards : Cardinality(Cheaper(w, Signed(w, w.cards[i]))) < from
    BY <1>6, <2>1 DEF OnTheWay, CardsRise
  <2>5. ASSUME NEW c PROVE Cardinality(Cheaper(w, c)) \in Nat
    <3>1. IsFiniteSet(R) /\ Cheaper(w, c) \subseteq R
      BY RowsTyped DEF Cheaper, R
    <3>2. QED
      BY <3>1, SmallerSet
  <2>6. ASSUME NEW i \in 1 .. Len(p), NEW j \in 1 .. Len(p), i < j
        PROVE  Cost(w, p[i]) <= Cost(w, p[j])
    <3>1. from + i < from + j
      BY <1>4, <2>6
    <3>2. QED
      BY <1>4, <2>2, <3>1
  <2>7. ASSUME NEW i \in 1 .. Len(p)
        PROVE  /\ Cardinality(Cheaper(w, Cost(w, p[i]))) < upto
               /\ \A j \in DOMAIN w.cards : Signed(w, w.cards[j]) <= Cost(w, p[i])
    <3> DEFINE k == from + i
    <3>1. /\ k \in 1 .. n /\ p[i] = s[k] /\ k \in Nat /\ from < k
      BY <1>4
    <3>2. k <= upto
      BY <1>4
    <3> HIDE DEF k
    <3>3. Cardinality(Cheaper(w, Cost(w, s[k]))) < upto
      BY <1>4, <2>3, <3>1, <3>2
    <3>4. ASSUME NEW j \in DOMAIN w.cards PROVE Signed(w, w.cards[j]) <= Cost(w, s[k])
      <4> DEFINE c == Signed(w, w.cards[j])
      <4>1. c \in Int
        <5>1. w.cards[j] \in Nat
          <6>1. w.cards \in Seq(Nat)
            BY DEF WalkType
          <6>2. QED
            BY <6>1, LenProperties
        <5>2. QED
          BY <5>1 DEF Signed
      <4>2. Cardinality(Cheaper(w, c)) < from
        BY <2>4
      <4> HIDE DEF c
      <4>3. ~ (Cost(w, s[k]) < c)
        BY <1>4, <2>3, <2>5, <3>1, <4>1, <4>2
      <4>4. QED
        BY <2>2, <4>1, <4>3 DEF c
    <3>5. QED
      BY <3>1, <3>3, <3>4
  <2>8. \A i \in DOMAIN w.cards : Cardinality(Cheaper(w, Signed(w, w.cards[i]))) < upto
    BY <1>4, <2>4, <2>5
  <2>9. u.ids = p /\ \A q : Cost(u, q) = Cost(w, q)
    BY <1>2 DEF p, Cost
  <2>10. /\ \A i, j \in DOMAIN u.cards : i < j => Signed(u, u.cards[i]) <= Signed(u, u.cards[j])
         /\ \A i \in DOMAIN u.cards : Cardinality(Cheaper(u, Signed(u, u.cards[i]))) < Cut(u)
    BY <1>1, <1>2, <1>6, <2>4, <2>8
  <2>11. /\ \A i, j \in DOMAIN u.ids : i < j => Cost(u, u.ids[i]) <= Cost(u, u.ids[j])
         /\ \A i \in DOMAIN u.ids :
              /\ Cardinality(Cheaper(u, Cost(u, u.ids[i]))) < Cut(u)
              /\ \A j \in DOMAIN u.cards : Signed(u, u.cards[j]) <= Cost(u, u.ids[i])
    <3>1. DOMAIN u.ids = 1 .. Len(p)
      BY <1>4, <2>9
    <3>2. ASSUME NEW i \in 1 .. Len(p)
          PROVE  /\ \A j \in 1 .. Len(p) : i < j => Cost(u, u.ids[i]) <= Cost(u, u.ids[j])
                 /\ Cardinality(Cheaper(u, Cost(u, u.ids[i]))) < Cut(u)
                 /\ \A j \in DOMAIN u.cards : Signed(u, u.cards[j]) <= Cost(u, u.ids[i])
      BY <1>1, <1>2, <1>6, <2>6, <2>7, <2>9
    <3>3. QED
      BY <3>1, <3>2
  <2>12. QED
    BY <2>10, <2>11 DEF CardsRise
<1>18. WishesRead(u)
  BY <1>1 DEF WishesRead, WishLists
<1>19. QED
  BY <1>11, <1>12, <1>13, <1>14, <1>15, <1>16, <1>17, <1>18 DEF OnTheWay

-----------------------------------------------------------------------------
(* While no row has gone, all the ids of a page are found.                 *)
LEMMA RangeSize ==
  ASSUME NEW s, IsInjective(s), Len(s) \in Nat, DOMAIN s = 1 .. Len(s)
  PROVE  Cardinality(Range(s)) = Len(s)
<1> DEFINE n == Len(s)
<1>1. n \in Nat /\ \A i, j \in 1 .. n : s[i] = s[j] => i = j
  BY DEF IsInjective
<1>2. Range(s) = {s[j] : j \in 1 .. n}
  BY DEF Range
<1> HIDE DEF n
<1>3. Cardinality({s[j] : j \in 1 .. n}) = n
  BY <1>1, Images
<1>4. QED
  BY <1>2, <1>3 DEF n

LEMMA AllFound ==
  ASSUME CatalogueTypeOK, NEW w \in WalkType, OnTheWay(w), w.pc = "load", ~ w.left
  PROVE  ListByIDs(w.ids) = Range(w.ids) /\ Cardinality(ListByIDs(w.ids)) = Len(w.ids)
<1>1. w.list = "products" /\ Range(w.ids) \subseteq RowsIn(w) /\ IsInjective(w.ids)
  BY DEF OnTheWay, WalkShape, StillThere, Fetched
<1>2. RowsIn(w) \subseteq Listable
  BY <1>1, RowsTyped
<1>3. ListByIDs(w.ids) = Range(w.ids)
  BY <1>1, <1>2 DEF ListByIDs
<1>4. DOMAIN w.ids = 1 .. Len(w.ids) /\ Len(w.ids) \in Nat
  <2>1. w.ids \in Seq(Products)
    BY DEF WalkType
  <2>2. QED
    BY <2>1, LenProperties
<1>5. Cardinality(Range(w.ids)) = Len(w.ids)
  BY <1>1, <1>4, RangeSize
<1>6. QED
  BY <1>3, <1>5

LEMMA PanicExplained ==
  ASSUME CatalogueTypeOK, NEW w \in WalkType, OnTheWay(w), w.pc = "load", Overflows(w.ids)
  PROVE  w.left
<1>1. PICK i \in DOMAIN w.ids : i > Cardinality(ListByIDs(w.ids))
  BY DEF Overflows
<1>2. i \in 1 .. Len(w.ids) /\ Len(w.ids) \in Nat
  <2>1. w.ids \in Seq(Products)
    BY DEF WalkType
  <2>2. QED
    BY <2>1, LenProperties
<1>3. ASSUME ~ w.left PROVE FALSE
  <2>1. Cardinality(ListByIDs(w.ids)) = Len(w.ids)
    BY <1>3, AllFound
  <2>2. QED
    BY <1>1, <1>2, <2>1
<1>4. QED
  BY <1>3

Loaded(u, w, rows) ==
  /\ rows = SubSeq(w.ids, 1, Cardinality(ListByIDs(w.ids)))
  /\ u = [w EXCEPT !.pc = "facets", !.ids = rows,
                   !.cards = @ \o [i \in DOMAIN rows |-> CardPrice(rows[i])]]

LEMMA LoadOnTheWay ==
  ASSUME CatalogueTypeOK, NEW w \in WalkType, OnTheWay(w), w.pc = "load",
         NEW rows, NEW u, Loaded(u, w, rows)
  PROVE  OnTheWay(u)
<1> DEFINE cards == [i \in DOMAIN rows |-> CardPrice(rows[i])]
           all == w.cards \o cards
<1>1. /\ u.list = w.list /\ u.filter = w.filter /\ u.sort = w.sort /\ u.page = w.page
      /\ u.start = w.start /\ u.cards = all /\ u.priced = w.priced
      /\ u.came = w.came /\ u.late = w.late /\ u.left = w.left
      /\ u.moved = w.moved /\ u.tied = w.tied
      /\ u.pc = "facets" /\ u.ids = rows /\ u.shown = w.shown /\ u.total = w.total
  <2> HIDE DEF cards
  <2>1. u = [w EXCEPT !.pc = "facets", !.ids = rows, !.cards = @ \o cards]
    BY DEF Loaded, cards
  <2>2. QED
    BY <2>1 DEF WalkType
<1>2. w.ids \in Seq(Products) /\ w.cards \in Seq(Nat)
  BY DEF WalkType
<1>3. DOMAIN w.ids = 1 .. Len(w.ids) /\ Len(w.ids) \in Nat
  BY <1>2, LenProperties
<1>4. /\ rows \in Seq(Products) /\ Len(rows) = Cardinality(ListByIDs(w.ids))
      /\ \A i \in 1 .. Len(rows) : rows[i] = w.ids[i]
      /\ cards \in Seq(Nat) /\ Len(cards) = Len(rows) /\ DOMAIN cards = 1 .. Len(rows)
      /\ DOMAIN rows = 1 .. Len(rows) /\ Len(rows) \in Nat /\ Len(rows) <= Len(w.ids)
  <2> DEFINE ids == w.ids
  <2>1. ids \in Seq(Products) /\ rows = SubSeq(ids, 1, Cardinality(ListByIDs(ids)))
    BY <1>2 DEF Loaded
  <2> HIDE DEF ids
  <2>2. /\ rows \in Seq(Products) /\ Len(rows) = Cardinality(ListByIDs(ids))
        /\ \A i \in 1 .. Len(rows) : rows[i] = ids[i]
        /\ cards \in Seq(Nat) /\ Len(cards) = Len(rows) /\ DOMAIN cards = 1 .. Len(rows)
    BY <2>1, LoadTyped
  <2>3. Len(rows) <= Len(ids)
    BY <2>1, <2>2, FoundTyped
  <2>4. DOMAIN rows = 1 .. Len(rows) /\ Len(rows) \in Nat
    BY <2>2, LenProperties
  <2>5. QED
    BY <2>2, <2>3, <2>4 DEF ids
<1>5. \A j \in 1 .. Len(rows) : cards[j] = CardPrice(w.ids[j]) /\ j \in DOMAIN w.ids
  BY <1>3, <1>4
<1>6. /\ all \in Seq(Nat) /\ DOMAIN all = 1 .. Len(w.cards) + Len(cards)
      /\ Len(w.cards) \in Nat /\ DOMAIN w.cards = 1 .. Len(w.cards)
      /\ \A i \in 1 .. Len(w.cards) : all[i] = w.cards[i]
      /\ \A i \in 1 .. Len(cards) : all[Len(w.cards) + i] = cards[i]
  <2> DEFINE s == w.cards
  <2>1. s \in Seq(Nat) /\ cards \in Seq(Nat)
    BY <1>2, <1>4
  <2> HIDE DEF s, cards
  <2>2. /\ s \o cards \in Seq(Nat) /\ DOMAIN (s \o cards) = 1 .. Len(s) + Len(cards)
        /\ Len(s) \in Nat /\ DOMAIN s = 1 .. Len(s)
        /\ \A i \in 1 .. Len(s) : (s \o cards)[i] = s[i]
        /\ \A i \in 1 .. Len(cards) : (s \o cards)[Len(s) + i] = cards[i]
    BY <2>1, Joined
  <2>3. QED
    BY <2>2 DEF s
<1> HIDE DEF cards, all
<1>7. ~ w.left => rows = w.ids
  <2>1. ASSUME ~ w.left PROVE Len(rows) = Len(w.ids)
    BY <1>4, <2>1, AllFound
  <2>2. QED
    BY <1>2, <1>4, <2>1, SeqEqual
<1>8. IsInjective(w.ids) /\ w.list = "products" /\ Paged(w) /\ Fetched(w)
  BY DEF OnTheWay, WalkShape, Fetched, Paged, WishLists
<1>9. IsInjective(rows) /\ Range(rows) \subseteq Range(w.ids)
  <2>1. \A i \in DOMAIN rows : rows[i] = w.ids[i] /\ i \in DOMAIN w.ids
    BY <1>3, <1>4
  <2>2. QED
    BY <1>8, <2>1 DEF IsInjective, Range
<1>10. /\ RowsIn(u) = RowsIn(w) /\ Ties(u) = Ties(w)
       /\ \A x : Rank(u, x) = Rank(w, x)
       /\ \A t : Arrangements(u, t) = Arrangements(w, t)
       /\ \A m : Signed(u, m) = Signed(w, m)
       /\ \A c : Cheaper(u, c) = Cheaper(w, c)
  BY <1>1, SameList
<1>11. Fetched(u) /\ Paged(u) /\ Cut(u) = Cut(w)
  BY <1>1, <1>8 DEF Fetched, Paged, Cut
<1>12. /\ Got(u) = Range(w.shown) \cup Range(rows) /\ Got(w) = Range(w.shown) \cup Range(w.ids)
       /\ Part(u) = w.shown \o rows /\ Part(w) = w.shown \o w.ids
  BY <1>1, <1>8, <1>11 DEF Got, Part
<1>13. WalkShape(u)
  BY <1>1, <1>8, <1>9, <1>10, <1>11 DEF OnTheWay, WalkShape
<1>14. Counted(u)
  BY <1>1, <1>8, <1>10 DEF OnTheWay, Counted
<1>15. NoneMissed(u)
  BY <1>1, <1>7, <1>8, <1>10, <1>11, <1>12 DEF OnTheWay, NoneMissed
<1>16. NoneTwice(u)
  BY <1>1, <1>8, <1>9, <1>10, <1>11, <1>12 DEF OnTheWay, NoneTwice
<1>17. InOrder(u)
  BY <1>1, <1>7, <1>10, <1>11, <1>12 DEF OnTheWay, InOrder
<1>18. StillThere(u)
  BY <1>1 DEF StillThere
<1>19. CardsRise(u)
  <2>1. SUFFICES ASSUME w.sort # "newest", ~ w.came, ~ w.moved, ~ w.priced
                 PROVE  CardsRise(u)
    BY <1>1 DEF CardsRise
  <2> DEFINE m == Len(w.cards)
             n == Len(rows)
             sum == m + n
  <2>2. /\ m \in Nat /\ n \in Nat /\ DOMAIN all = 1 .. sum
        /\ \A i \in 1 .. m : all[i] = w.cards[i] /\ i \in DOMAIN w.cards
        /\ \A i \in 1 .. n : all[m + i] = CardPrice(w.ids[i]) /\ i \in DOMAIN w.ids
    BY <1>4, <1>5, <1>6
  <2>3. /\ \A i, j \in DOMAIN w.cards : i < j => Signed(w, w.cards[i]) <= Signed(w, w.cards[j])
        /\ \A i \in DOMAIN w.cards : Cardinality(Cheaper(w, Signed(w, w.cards[i]))) < Cut(w)
        /\ \A i, j \in DOMAIN w.ids : i < j => Cost(w, w.ids[i]) <= Cost(w, w.ids[j])
        /\ \A i \in DOMAIN w.ids :
             /\ Cardinality(Cheaper(w, Cost(w, w.ids[i]))) < Cut(w)
             /\ \A j \in DOMAIN w.cards : Signed(w, w.cards[j]) <= Cost(w, w.ids[i])
    BY <1>8, <2>1 DEF OnTheWay, CardsRise
  <2> HIDE DEF m, n
  <2>4. /\ \A i \in 1 .. m : Signed(w, all[i]) = Signed(w, w.cards[i]) /\ i \in DOMAIN w.cards
        /\ \A i \in 1 .. n : Signed(w, all[m + i]) = Cost(w, w.ids[i]) /\ i \in DOMAIN w.ids
    BY <2>2 DEF Cost
  <2>5. \A i \in 1 .. sum : i \in 1 .. m \/ \E k \in 1 .. n : i = m + k
    <3>1. ASSUME NEW i \in 1 .. sum, i \notin 1 .. m PROVE \E k \in 1 .. n : i = m + k
      <4>1. i - m \in 1 .. n /\ i = m + (i - m)
        BY <2>2, <3>1
      <4>2. QED
        BY <4>1
    <3>2. QED
      BY <3>1
  <2>6. ASSUME NEW i \in 1 .. sum PROVE Cardinality(Cheaper(w, Signed(w, all[i]))) < Cut(w)
    <3>1. CASE i \in 1 .. m
      BY <2>3, <2>4, <3>1
    <3>2. ASSUME NEW k \in 1 .. n, i = m + k
          PROVE  Cardinality(Cheaper(w, Signed(w, all[i]))) < Cut(w)
      BY <2>3, <2>4, <3>2
    <3>3. QED
      BY <2>5, <3>1, <3>2
  <2>7. ASSUME NEW i \in 1 .. sum, NEW j \in 1 .. sum, i < j
        PROVE  Signed(w, all[i]) <= Signed(w, all[j])
    <3>1. CASE i \in 1 .. m /\ j \in 1 .. m
      BY <2>3, <2>4, <2>7, <3>1
    <3>2. ASSUME i \in 1 .. m, NEW k \in 1 .. n, j = m + k
          PROVE  Signed(w, all[i]) <= Signed(w, all[j])
      BY <2>3, <2>4, <3>2
    <3>3. ASSUME NEW k \in 1 .. n, i = m + k, NEW l \in 1 .. n, j = m + l
          PROVE  Signed(w, all[i]) <= Signed(w, all[j])
      <4>1. k < l
        BY <2>2, <2>7, <3>3
      <4>2. QED
        BY <2>3, <2>4, <3>3, <4>1
    <3>4. ASSUME NEW k \in 1 .. n, i = m + k, j \in 1 .. m PROVE FALSE
      BY <2>2, <2>7, <3>4
    <3>5. QED
      BY <2>5, <3>1, <3>2, <3>3, <3>4
  <2>8. QED
    BY <1>1, <1>10, <1>11, <2>2, <2>6, <2>7 DEF CardsRise
<1>20. WishesRead(u)
  BY <1>1, <1>8 DEF WishesRead, WishLists
<1>21. QED
  BY <1>13, <1>14, <1>15, <1>16, <1>17, <1>18, <1>19, <1>20 DEF OnTheWay

-----------------------------------------------------------------------------
(* The pages that are shown fit, and where no next one is offered all is   *)
(* seen: of the products, ...                                              *)
LEMMA EnoughPages ==
  ASSUME NEW list \in Lists, NEW total \in Nat, NEW page \in Nat,
         ~ (page < TotalPages(list, total))
  PROVE  total <= page * PageSize[list]
<1> DEFINE size == PageSize[list]
           pages == TotalPages(list, total)
<1>1. size \in Nat
  BY ListingsAssumption
<1>2. pages \in Nat /\ total <= pages * size
  BY PagesTyped
<1> HIDE DEF size, pages
<1>3. pages <= page
  BY <1>2 DEF pages
<1>4. pages * size <= page * size /\ pages * size \in Nat /\ page * size \in Nat
  <2>1. PICK d \in Nat : page = pages + d
    <3>1. page - pages \in Nat /\ page = pages + (page - pages)
      BY <1>2, <1>3
    <3>2. QED
      BY <3>1
  <2>2. page * size = pages * size + d * size /\ d * size \in Nat /\ pages * size \in Nat
    BY <1>1, <1>2, <2>1
  <2>3. QED
    BY <2>2
<1>5. QED
  BY <1>2, <1>4 DEF size

LEMMA ProductsFit ==
  ASSUME CatalogueTypeOK, NEW w \in WalkType, OnTheWay(w), w.pc = "facets"
  PROVE  /\ w.list = "products" /\ OnePage(w, w.ids) /\ PageFits(w, w.ids)
         /\ ~ NextOfProducts(w) => LastOne(w, w.ids)
<1> DEFINE upto == w.page * PageSize[w.list]
           R == RowsIn(w)
<1>1. w.list = "products" /\ IsInjective(w.ids) /\ Fetched(w) /\ Paged(w)
  BY DEF OnTheWay, WalkShape, Fetched, Paged, WishLists
<1>2. /\ w.list \in Lists /\ w.page \in Nat /\ w.total \in Nat /\ w.ids \in Seq(Products)
  BY DEF WalkType
<1>3. OnePage(w, w.ids)
  BY <1>1, <1>2, SeqMonotonic DEF OnePage
<1>4. /\ Cut(w) = upto
      /\ Got(w) = Range(w.shown) \cup Range(w.ids) /\ Part(w) = w.shown \o w.ids
  BY <1>1 DEF Cut, Got, Part
<1>5. upto \in Nat
  BY <1>2, ListingsAssumption
<1> HIDE DEF upto, R
<1>6. ~ w.tied /\ ~ w.left /\ ~ w.moved /\ ~ w.late =>
        \A x \in Range(w.start) :
          /\ x \in R
          /\ x \in Got(w) \/ (Rank(w, x) >= upto /\ w.total > upto)
  BY <1>1, <1>4 DEF OnTheWay, NoneMissed, R
<1>7. PageFits(w, w.ids)
  <2>1. ~ w.tied /\ ~ w.came /\ ~ w.moved /\ Paged(w) =>
          /\ IsInjective(w.shown) /\ Range(w.shown) \cap Range(w.ids) = {}
          /\ \A x \in Got(w) \cap R : Rank(w, x) < upto
    BY <1>4 DEF OnTheWay, NoneTwice, R
  <2>2. ~ w.tied /\ ~ w.came /\ ~ w.left /\ ~ w.moved =>
          /\ w.start \in Arrangements(w, R)
          /\ Len(Part(w)) = IF upto <= Len(w.start) THEN upto ELSE Len(w.start)
          /\ \A i \in 1 .. Len(Part(w)) : Part(w)[i] = w.start[i]
    BY <1>4 DEF OnTheWay, InOrder, R
  <2>3. QED
    BY <1>4, <1>6, <2>1, <2>2 DEF PageFits, upto, R
<1>8. ASSUME ~ NextOfProducts(w) PROVE LastOne(w, w.ids)
  <2>1. w.total <= upto
    BY <1>2, <1>8, EnoughPages DEF NextOfProducts, upto
  <2>2. ~ w.came => Cardinality(R) <= w.total /\ Cardinality(R) \in Nat
    BY <1>1, RankTyped DEF OnTheWay, Counted, R
  <2>3. ~ w.came => Cardinality(R) <= upto
    BY <1>2, <1>5, <2>1, <2>2
  <2>4. ~ (w.total > upto)
    BY <1>2, <1>5, <2>1
  <2>5. QED
    BY <1>4, <1>6, <2>3, <2>4 DEF LastOne, upto, R
<1>9. QED
  BY <1>1, <1>3, <1>7, <1>8

(* ... of the orders, ...                                                  *)
LEMMA OrdersFit ==
  ASSUME CatalogueTypeOK, NEW w \in WalkType, OnTheWay(w), w.pc = "ids",
         w.list \in {"account_orders", "all_orders"},
         NEW s \in Arrangements(w, RowsIn(w)), NEW p, p = PageOf(s, w.list, w.page)
  PROVE  /\ OnePage(w, p) /\ PageFits(w, p)
         /\ w.list = "all_orders" /\ ~ NextOfAllOrders(w) => LastOne(w, p)
         /\ w.list = "account_orders" /\ ~ NextOfAccountOrders(w, p) => LastOne(w, p)
<1> DEFINE from == (w.page - 1) * PageSize[w.list]
           upto == w.page * PageSize[w.list]
           R == RowsIn(w)
           n == Cardinality(R)
<1>1. w.list \in Lists /\ w.page \in Nat \ {0} /\ w.total \in Nat
  BY DEF WalkType
<1>2. /\ from \in Nat /\ upto \in Nat /\ from < upto /\ n \in Nat
      /\ p \in Seq(R) /\ IsInjective(p) /\ Len(p) \in Nat
      /\ Len(p) = IF upto <= n THEN upto - from ELSE IF from < n THEN n - from ELSE 0
  BY <1>1, PageRows
<1>3. ~ Fetched(w) /\ Paged(w)
  BY DEF Fetched, Paged, WishLists
<1>4. PageFits(w, p)
  <2>1. w.ids = <<>>
    BY <1>3 DEF OnTheWay, WalkShape
  <2>2. QED
    BY <1>3, <2>1, NextPageFits
<1>5. OnePage(w, p)
  <2>1. p \in Seq(Products \cup Orders)
    BY <1>2, RowsTyped, SeqMonotonic
  <2>2. QED
    BY <1>2, <2>1 DEF OnePage
<1>6. (~ w.late => n <= w.total) /\ (w.late => w.came)
  BY <1>3 DEF OnTheWay, Counted, WalkShape
<1> HIDE DEF from, upto, R, n
<1>7. ASSUME ~ w.late => n <= upto PROVE LastOne(w, p)
  <2>1. ASSUME ~ w.tied, ~ w.left, ~ w.moved, ~ w.late, NEW x \in Range(w.start)
        PROVE  Rank(w, x) < upto
    <3>1. x \in R
      BY <1>4, <2>1 DEF PageFits, R
    <3>2. Rank(w, x) \in Nat /\ Rank(w, x) < n
      BY <3>1, RankTyped DEF R, n
    <3>3. QED
      BY <1>2, <1>7, <2>1, <3>2
  <2>2. QED
    BY <1>6, <1>7, <2>1 DEF LastOne, upto, n, R
<1>8. ASSUME w.total <= upto PROVE ~ w.late => n <= upto
  BY <1>1, <1>2, <1>6, <1>8
<1>9. ASSUME w.list = "all_orders", ~ NextOfAllOrders(w) PROVE w.total <= upto
  <2>1. w.page \in Nat /\ ~ (w.page < TotalPages(w.list, w.total))
    BY <1>1, <1>9 DEF NextOfAllOrders
  <2>2. QED
    BY <1>1, <2>1, EnoughPages DEF upto
<1>10. ASSUME w.list = "account_orders", ~ NextOfAccountOrders(w, p) PROVE ~ w.late => n <= upto
  <2>1. p = <<>> \/ ~ (upto < w.total)
    BY <1>10 DEF NextOfAccountOrders, upto
  <2>2. CASE p = <<>>
    <3>1. Len(p) = 0
      BY <2>2
    <3>2. QED
      BY <1>2, <3>1
  <2>3. CASE ~ (upto < w.total)
    <3>1. w.total <= upto
      BY <1>1, <1>2, <2>3
    <3>2. QED
      BY <1>8, <3>1
  <2>4. QED
    BY <2>1, <2>2, <2>3
<1>11. QED
  BY <1>4, <1>5, <1>7, <1>8, <1>9, <1>10

(* ... and of the wishlist, of which all is read.                          *)
LEMMA WishesFound ==
  ASSUME CatalogueTypeOK, NEW w \in WalkType, OnTheWay(w), w.pc = "ids",
         w.list \in WishLists, ~ w.late, ~ w.left
  PROVE  ListByIDs(w.ids) = RowsIn(w)
<1>1. Range(w.ids) = RowsIn(w)
  BY DEF OnTheWay, WishesRead
<1>2. RowsIn(w) \subseteq Listable
  <2>1. wished \in Seq(Listable) /\ RowsIn(w) = Range(wished)
    BY RowsTyped DEF CatalogueTypeOK
  <2> HIDE DEF Listable
  <2>2. QED
    BY <2>1, LenProperties DEF Range
<1>3. QED
  BY <1>1, <1>2 DEF ListByIDs

LEMMA WishesFit ==
  ASSUME CatalogueTypeOK, NEW w \in WalkType, OnTheWay(w), w.pc = "ids",
         w.list = "wishlist", NEW found, found = ListByIDs(w.ids),
         NEW s \in Arrangements(w, found), NEW p, p = PageOf(s, w.list, w.page)
  PROVE  /\ OnePage(w, p) /\ PageFits(w, p)
         /\ w.page < TotalPages(w.list, Cardinality(found)) /\ ~ w.came /\ ~ w.left =>
              w.page + 1 <= TotalPages(w.list, Cardinality(RowsIn(w)))
         /\ ~ (w.page < TotalPages(w.list, Cardinality(found))) => LastOne(w, p)
<1> DEFINE upto == w.page * PageSize[w.list]
           R == RowsIn(w)
           n == Cardinality(R)
<1>1. /\ w.list \in Lists /\ w.page \in Nat \ {0} /\ w.page \in Nat
      /\ w.ids \in Seq(Products)
  BY DEF WalkType
<1>2. ~ Fetched(w) /\ ~ Paged(w) /\ w.list \in WishLists
  BY DEF Fetched, Paged, WishLists
<1>3. (w.late => w.came) /\ (~ w.late /\ ~ w.left => found = R)
  <2>1. w.late => w.came
    BY DEF OnTheWay, WalkShape
  <2>2. QED
    BY <1>2, <2>1, WishesFound
<1>4. n \in Nat /\ \A x \in R : Rank(w, x) \in Nat /\ Rank(w, x) < n
  BY RankTyped
<1>5. OnePage(w, p)
  <2>1. s \in SetToSeqs(found) /\ IsFiniteSet(found) /\ found \subseteq Products
    BY <1>1, FoundTyped DEF Arrangements
  <2>2. s \in Seq(Products \cup Orders)
    BY <2>1, InRow, SeqMonotonic
  <2> DEFINE list == w.list
  <2>3. list \in Lists /\ p = PageOf(s, list, w.page)
    BY <1>1
  <2> HIDE DEF list
  <2>4. p \in Seq(Products \cup Orders)
    BY <1>1, <2>2, <2>3, PageTyped
  <2>5. QED
    BY <1>2, <2>4 DEF OnePage
<1>6. PageFits(w, p)
  <2>1. CASE ~ w.late /\ ~ w.left
    BY <1>2, <1>3, <2>1, NextPageFits
  <2>2. CASE w.late \/ w.left
    BY <1>2, <1>3, <2>2 DEF PageFits
  <2>3. QED
    BY <2>1, <2>2
<1>7. upto \in Nat
  BY <1>1, ListingsAssumption
<1> HIDE DEF upto, R, n
<1>8. ASSUME w.page < TotalPages(w.list, Cardinality(found)), ~ w.came, ~ w.left
      PROVE  w.page + 1 <= TotalPages(w.list, n)
  <2>1. TotalPages(w.list, n) \in Nat
    BY <1>1, <1>4, PagesTyped
  <2>2. w.page < TotalPages(w.list, n)
    BY <1>3, <1>8 DEF n
  <2>3. QED
    BY <1>1, <2>1, <2>2
<1>9. ASSUME ~ (w.page < TotalPages(w.list, Cardinality(found))) PROVE LastOne(w, p)
  <2>1. ASSUME ~ w.late, ~ w.left PROVE n <= upto
    <3>1. ~ (w.page < TotalPages(w.list, n))
      BY <1>3, <1>9, <2>1 DEF n
    <3>2. QED
      BY <1>1, <1>4, <3>1, EnoughPages DEF upto
  <2>2. ASSUME ~ w.tied, ~ w.left, ~ w.moved, ~ w.late, NEW x \in Range(w.start)
        PROVE  Rank(w, x) < upto
    <3>1. x \in R
      BY <1>6, <2>2 DEF PageFits, R
    <3>2. QED
      BY <1>4, <1>7, <2>1, <2>2, <3>1
  <2>3. QED
    BY <1>3, <2>1, <2>2 DEF LastOne, upto, n, R
<1>10. QED
  BY <1>5, <1>6, <1>8, <1>9 DEF n, R

(* A page after the last one is the last one again: the walk has seen all  *)
(* before, unless something went or came too late.                         *)
LEMMA BeyondTheLast ==
  ASSUME CatalogueTypeOK, NEW w \in WalkType, OnTheWay(w), w.pc = "ids", w.list = "wishlist",
         TotalPages(w.list, Cardinality(ListByIDs(w.ids))) < w.page,
         NEW rows \in Seq(Products \cup Orders),
         NEW u, SameWalk(u, w), u.pc = "done", u.shown = w.shown \o rows
  PROVE  Complete(u)
<1> DEFINE R == RowsIn(w)
           n == Cardinality(R)
           size == PageSize[w.list]
           pages == TotalPages(w.list, n)
<1>1. /\ w.list \in Lists /\ w.page \in Nat \ {0} /\ w.shown \in Seq(Products \cup Orders)
  BY DEF WalkType
<1>2. /\ u.list = w.list /\ u.filter = w.filter /\ u.sort = w.sort
      /\ u.start = w.start /\ u.cards = w.cards /\ u.priced = w.priced
      /\ u.came = w.came /\ u.late = w.late /\ u.left = w.left
      /\ u.moved = w.moved /\ u.tied = w.tied
  BY DEF SameWalk
<1>3. w.list \in WishLists /\ ~ Fetched(w) /\ ~ Paged(w) /\ (w.late => w.came)
  BY DEF OnTheWay, WalkShape, WishLists, Fetched, Paged
<1>4. n \in Nat /\ size \in Nat /\ \A x \in R : Rank(w, x) \in Nat /\ Rank(w, x) < n
  BY <1>1, RankTyped, ListingsAssumption
<1>5. pages \in Nat /\ n <= pages * size
  BY <1>1, <1>4, PagesTyped
<1> HIDE DEF R, n, size, pages
<1>6. ASSUME ~ w.late, ~ w.left PROVE pages < w.page
  BY <1>3, <1>6, WishesFound DEF pages, n, R
<1>7. ASSUME ~ w.tied, ~ w.left, ~ w.moved, ~ w.late, NEW x \in Range(w.start)
      PROVE  x \in Range(w.shown)
  <2> DEFINE before == w.page - 1
  <2>1. x \in R /\ (x \in Range(w.shown) \/ Rank(w, x) >= before * size)
    BY <1>3, <1>7 DEF OnTheWay, NoneMissed, Got, Cut, R, size
  <2>2. before \in Nat /\ pages <= before
    BY <1>1, <1>5, <1>6, <1>7
  <2> HIDE DEF before
  <2>3. PICK d \in Nat : before = pages + d
    <3>1. before - pages \in Nat /\ before = pages + (before - pages)
      BY <1>5, <2>2
    <3>2. QED
      BY <3>1
  <2>4. before * size = pages * size + d * size /\ d * size \in Nat /\ pages * size \in Nat
    BY <1>4, <1>5, <2>3
  <2>5. ~ (Rank(w, x) >= before * size)
    BY <1>4, <1>5, <2>1, <2>4
  <2>6. QED
    BY <2>1, <2>5
<1>8. Range(w.shown) \subseteq Range(u.shown)
  BY <1>1, Joined
<1>9. ASSUME ~ w.came, ~ w.left PROVE FALSE
  <2>1. w.page <= pages
    BY <1>3, <1>9 DEF OnTheWay, WishesRead, pages, n, R
  <2>2. QED
    BY <1>1, <1>3, <1>5, <1>6, <1>9, <2>1
<1>10. ASSUME ~ w.came, ~ w.moved, ~ w.priced, NEW i \in DOMAIN w.cards, NEW j \in DOMAIN w.cards,
              i < j
       PROVE  /\ w.sort = "price_asc" => w.cards[i] <= w.cards[j]
              /\ w.sort = "price_desc" => w.cards[i] >= w.cards[j]
  BY <1>10, CardsInOrder
<1>11. QED
  BY <1>2, <1>7, <1>8, <1>9, <1>10 DEF Complete, ShownRows

(* The page of the wishlist shows it in the order in which it was read.    *)
LEMMA WishPageComplete ==
  ASSUME CatalogueTypeOK, NEW w \in WalkType, OnTheWay(w), w.pc = "ids", w.list = "wish_page",
         NEW rows \in SetToSeqs(ListByIDs(w.ids)),
         \A i, j \in DOMAIN rows : i < j => Precedes(w.ids, rows[i], rows[j]),
         NEW u, SameWalk(u, w), u.pc = "done", u.shown = w.shown \o rows
  PROVE  Complete(u)
<1> DEFINE R == RowsIn(w)
           found == ListByIDs(w.ids)
<1>1. w.ids \in Seq(Products) /\ IsFiniteSet(found) /\ found \subseteq Products
  BY FoundTyped DEF WalkType
<1>2. /\ u.list = w.list /\ u.filter = w.filter /\ u.sort = w.sort
      /\ u.start = w.start /\ u.cards = w.cards /\ u.priced = w.priced
      /\ u.came = w.came /\ u.late = w.late /\ u.left = w.left
      /\ u.moved = w.moved /\ u.tied = w.tied
  BY DEF SameWalk
<1>3. /\ w.list \in WishLists /\ ~ Fetched(w) /\ (w.late => w.came) /\ w.shown = <<>>
      /\ IsInjective(w.ids) /\ (Ties(w) => w.tied)
  BY DEF OnTheWay, WalkShape, WishLists, Fetched
<1>4. /\ rows \in Seq(found) /\ Range(rows) = found /\ DOMAIN rows = 1 .. Len(rows)
      /\ \A i, j \in 1 .. Len(rows) : rows[i] = rows[j] => i = j
  <2> HIDE DEF found
  <2>1. rows \in SetToSeqs(found)
    BY DEF found
  <2>2. QED
    BY <1>1, <2>1, InRow
<1>5. u.shown = rows
  BY <1>3, <1>4, ConcatEmptySeq
<1>6. ~ w.late /\ ~ w.left => found = R
  BY <1>3, WishesFound
<1> HIDE DEF R, found
<1>7. ASSUME ~ w.tied, ~ w.left, ~ w.moved, ~ w.late PROVE Range(w.start) \subseteq Range(rows)
  BY <1>4, <1>6, <1>7 DEF OnTheWay, NoneMissed, R
<1>8. IsInjective(rows)
  BY <1>4 DEF IsInjective
<1>9. ASSUME ~ w.tied, ~ w.came, ~ w.left, ~ w.moved PROVE rows = w.start
  <2>1. found = R
    BY <1>3, <1>6, <1>9
  <2>2. w.start \in Arrangements(w, R)
    BY <1>9 DEF OnTheWay, InOrder, R
  <2>3. \A a, b \in R : Precedes(w.ids, a, b) = Before(w, a, b)
    BY <1>3, <1>9 DEF OnTheWay, WishesRead, R
  <2>4. ASSUME NEW a, NEW b, Precedes(w.ids, a, b), Precedes(w.ids, b, a) PROVE FALSE
    <3>1. PICK i, j \in DOMAIN w.ids : i < j /\ w.ids[i] = a /\ w.ids[j] = b
      BY <2>4 DEF Precedes
    <3>2. PICK k, l \in DOMAIN w.ids : k < l /\ w.ids[k] = b /\ w.ids[l] = a
      BY <2>4 DEF Precedes
    <3>3. i = l /\ j = k
      BY <1>3, <3>1, <3>2 DEF IsInjective
    <3>4. i \in Nat /\ j \in Nat
      <4>1. DOMAIN w.ids = 1 .. Len(w.ids) /\ Len(w.ids) \in Nat
        BY <1>1, LenProperties
      <4>2. QED
        BY <4>1
    <3>5. QED
      BY <3>1, <3>2, <3>3, <3>4
  <2>5. ASSUME NEW i \in DOMAIN rows, NEW j \in DOMAIN rows, i < j
        PROVE  ~ Before(w, rows[j], rows[i])
    <3>1. rows[i] \in R /\ rows[j] \in R
      BY <1>4, <2>1 DEF Range
    <3>2. ~ Precedes(w.ids, rows[j], rows[i])
      BY <2>4, <2>5
    <3>3. QED
      BY <2>3, <3>1, <3>2
  <2>6. rows \in Arrangements(w, R)
    BY <2>1, <2>5 DEF Arrangements, found
  <2>7. QED
    BY <1>3, <1>9, <2>2, <2>6, OneArrangement DEF R
<1>10. ASSUME ~ w.came, ~ w.moved, ~ w.priced, NEW i \in DOMAIN w.cards, NEW j \in DOMAIN w.cards,
              i < j
       PROVE  /\ w.sort = "price_asc" => w.cards[i] <= w.cards[j]
              /\ w.sort = "price_desc" => w.cards[i] >= w.cards[j]
  BY <1>10, CardsInOrder
<1>11. QED
  BY <1>2, <1>5, <1>7, <1>8, <1>9, <1>10 DEF Complete, ShownRows

-----------------------------------------------------------------------------
(* A step of a walk changes none of the lists, so that what is true of     *)
(* where a walk is stays true.                                             *)
LEMMA StillLists ==
  ASSUME UNCHANGED officeVars, UNCHANGED order, NEW w
  PROVE  /\ RowsIn(w)' = RowsIn(w) /\ Ties(w)' = Ties(w)
         /\ \A a, b : Before(w, a, b)' = Before(w, a, b)
         /\ \A x : Rank(w, x)' = Rank(w, x)
         /\ \A rows : Arrangements(w, rows)' = Arrangements(w, rows)
         /\ \A p : Cost(w, p)' = Cost(w, p)
         /\ \A c : Cheaper(w, c)' = Cheaper(w, c)
<1>1. \A p : VariantsOf(p)' = VariantsOf(p)
  BY DEF officeVars, VariantsOf, Sold
<1>2. \A p : MinPrice(p)' = MinPrice(p)
  BY <1>1 DEF MinPrice, officeVars
<1>3. \A p : Cost(w, p)' = Cost(w, p)
  BY <1>2 DEF Cost, Signed, CardPrice
<1>4. Listed(w.filter)' = Listed(w.filter)
  BY <1>1 DEF Listed, officeVars
<1>5. RowsIn(w)' = RowsIn(w)
  BY <1>4 DEF RowsIn, OrderRows, officeVars
<1>6. \A a, b : Before(w, a, b)' = Before(w, a, b)
  BY <1>2 DEF Before, ProductBefore, Precedes, officeVars
<1>7. (\A x : Rank(w, x)' = Rank(w, x)) /\ Ties(w)' = Ties(w)
  BY <1>5, <1>6 DEF Rank, Ahead, Ties
<1>8. \A rows : Arrangements(w, rows)' = Arrangements(w, rows)
  BY <1>6 DEF Arrangements
<1>9. \A c : Cheaper(w, c)' = Cheaper(w, c)
  BY <1>3, <1>5 DEF Cheaper
<1>10. QED
  BY <1>3, <1>5, <1>6, <1>7, <1>8, <1>9

LEMMA StillOnTheWay ==
  ASSUME UNCHANGED officeVars, UNCHANGED order, NEW w, OnTheWay(w)
  PROVE  OnTheWay(w)'
<1>1. /\ RowsIn(w)' = RowsIn(w) /\ Ties(w)' = Ties(w)
      /\ \A a, b : Before(w, a, b)' = Before(w, a, b)
      /\ \A x : Rank(w, x)' = Rank(w, x)
      /\ \A rows : Arrangements(w, rows)' = Arrangements(w, rows)
      /\ \A p : Cost(w, p)' = Cost(w, p)
      /\ \A c : Cheaper(w, c)' = Cheaper(w, c)
  BY StillLists
<1>2. /\ Cut(w)' = Cut(w) /\ Got(w)' = Got(w) /\ Part(w)' = Part(w)
      /\ Fetched(w)' = Fetched(w) /\ Paged(w)' = Paged(w)
      /\ \A n : Signed(w, n)' = Signed(w, n)
  BY DEF Cut, Got, Part, Fetched, Paged, Signed
<1>3. WalkShape(w)' /\ Counted(w)' /\ StillThere(w)'
  BY <1>1, <1>2 DEF OnTheWay, WalkShape, Counted, StillThere
<1>4. NoneMissed(w)'
  BY <1>1, <1>2 DEF OnTheWay, NoneMissed
<1>5. NoneTwice(w)'
  BY <1>1, <1>2 DEF OnTheWay, NoneTwice
<1>6. InOrder(w)'
  BY <1>1, <1>2 DEF OnTheWay, InOrder
<1>7. CardsRise(w)'
  BY <1>1, <1>2 DEF OnTheWay, CardsRise
<1>8. WishesRead(w)'
  <2>1. /\ \A a, b : Precedes(w.ids, a, b)' = Precedes(w.ids, a, b)
        /\ TotalPages(w.list, Cardinality(RowsIn(w)))' = TotalPages(w.list, Cardinality(RowsIn(w)))
    BY <1>1 DEF Precedes, TotalPages
  <2>2. QED
    BY <1>1, <2>1 DEF OnTheWay, WishesRead
<1>9. QED
  BY <1>3, <1>4, <1>5, <1>6, <1>7, <1>8 DEF OnTheWay

-----------------------------------------------------------------------------
(* A step of a walk leaves it on its way, or ends it completely.           *)
Fine(w) == (Active(w) => OnTheWay(w)) /\ Complete(w)

LEMMA VisitFine ==
  ASSUME CatalogueTypeOK, NEW k \in Walks, NEW list \in Lists, NEW f \in Filters,
         NEW sort \in Sorts, Visit(k, list, f, sort)
  PROVE  \E u : Step(k, u) /\ Fine(u)
<1> DEFINE w == [NewWalk EXCEPT !.pc = "count", !.list = list, !.filter = Normal(f),
                                !.sort = sort]
<1>1. /\ w \in WalkType /\ w.pc = "count" /\ w.page = 1 /\ w.ids = <<>> /\ w.shown = <<>>
      /\ w.cards = <<>> /\ ~ w.late
  BY NewWalkTyped, NormalTyped DEF WalkType, NewWalk
<1> HIDE DEF w
<1>2. PICK s \in Arrangements(w, RowsIn(w)) :
        Step(k, [w EXCEPT !.start = s, !.tied = Ties(w)])
  BY DEF Visit, w
<1> DEFINE u == [w EXCEPT !.start = s, !.tied = Ties(w)]
<1>3. s \in Seq(Products \cup Orders) /\ Ties(w) \in BOOLEAN
  BY ArrangedTyped DEF Ties
<1>4. /\ u \in WalkType /\ u.list = w.list /\ u.filter = w.filter /\ u.sort = w.sort
      /\ u.pc = "count" /\ u.page = 1 /\ u.ids = <<>> /\ u.shown = <<>> /\ u.cards = <<>>
      /\ ~ u.late /\ u.start = s /\ u.tied = Ties(w)
  BY <1>1, <1>3 DEF WalkType
<1>5. Step(k, u)
  BY <1>2
<1> HIDE DEF u
<1>6. u.start \in Arrangements(u, RowsIn(u)) /\ u.tied = Ties(u)
  <2>1. /\ RowsIn(u) = RowsIn(w) /\ Ties(u) = Ties(w)
        /\ \A rows : Arrangements(u, rows) = Arrangements(w, rows)
    BY <1>4, SameList
  <2>2. QED
    BY <1>2, <1>4, <2>1
<1>7. OnTheWay(u)
  BY <1>4, <1>6, VisitOnTheWay
<1>8. Fine(u)
  BY <1>4, <1>7 DEF Fine, Complete
<1>9. QED
  BY <1>5, <1>8

LEMMA CountFine ==
  ASSUME CatalogueTypeOK, NEW k \in Walks, NEW w \in WalkType, w = walk[k], Fine(w),
         CountRows(k)
  PROVE  \E u : Step(k, u) /\ Fine(u)
<1> DEFINE n == Cardinality(IF w.list = "products" THEN Listable ELSE RowsIn(w))
           u == [w EXCEPT !.pc = "ids", !.total = n]
<1>1. w.pc = "count" /\ w.list \notin WishLists /\ Step(k, u)
  BY DEF CountRows
<1>2. Cardinality(RowsIn(w)) <= n
  <2>1. IsFiniteSet(Listable)
    <3>1. Listable \in SUBSET Products
      BY DEF Listable
    <3> HIDE DEF Listable
    <3>2. QED
      BY <3>1, CatalogueAssumption, FS_Subset
  <2>2. IsFiniteSet(RowsIn(w)) /\ (w.list = "products" => RowsIn(w) \subseteq Listable)
    BY RowsTyped
  <2> HIDE DEF Listable
  <2>3. QED
    BY <2>1, <2>2, SmallerSet
<1> HIDE DEF n
<1>3. /\ SameWalk(u, w) /\ u.pc = "ids" /\ u.page = w.page /\ u.shown = w.shown
      /\ u.ids = w.ids /\ u.total = n
  BY DEF WalkType, SameWalk
<1> HIDE DEF u
<1>4. Paged(w)
  BY <1>1 DEF Paged
<1>5. OnTheWay(w)
  BY <1>1 DEF Fine, Active
<1>6. OnTheWay(u)
  BY <1>1, <1>2, <1>3, <1>4, <1>5, ReadOnTheWay
<1>7. Fine(u)
  BY <1>3, <1>6 DEF Fine, Complete
<1>8. QED
  BY <1>1, <1>7

LEMMA FetchOrdersFine ==
  ASSUME CatalogueTypeOK, NEW k \in Walks, NEW w \in WalkType, w = walk[k], Fine(w),
         FetchOrders(k)
  PROVE  \E u : Step(k, u) /\ Fine(u)
<1>1. PICK s \in Arrangements(w, RowsIn(w)) :
        LET rows == PageOf(s, w.list, w.page)
        IN  Step(k, Shown(w, rows, IF w.list = "all_orders" THEN NextOfAllOrders(w)
                                   ELSE NextOfAccountOrders(w, rows)))
  BY DEF FetchOrders
<1> DEFINE rows == PageOf(s, w.list, w.page)
           more == IF w.list = "all_orders" THEN NextOfAllOrders(w)
                   ELSE NextOfAccountOrders(w, rows)
           u == Shown(w, rows, more)
<1>2. w.pc = "ids" /\ w.list \in {"account_orders", "all_orders"} /\ Step(k, u)
  BY <1>1 DEF FetchOrders
<1>3. OnTheWay(w)
  BY <1>2 DEF Fine, Active
<1>4. /\ OnePage(w, rows) /\ PageFits(w, rows)
      /\ w.list = "all_orders" /\ ~ NextOfAllOrders(w) => LastOne(w, rows)
      /\ w.list = "account_orders" /\ ~ NextOfAccountOrders(w, rows) => LastOne(w, rows)
  BY <1>2, <1>3, OrdersFit
<1>5. ~ more => LastOne(w, rows)
  BY <1>2, <1>4
<1> HIDE DEF rows, more
<1>6. /\ SameWalk(u, w) /\ u.shown = w.shown \o rows /\ u.ids = <<>>
      /\ u.pc = (IF more THEN "count" ELSE "done")
      /\ u.page = (IF more THEN w.page + 1 ELSE w.page)
  BY DEF WalkType, SameWalk, Shown
<1> HIDE DEF u
<1>7. CASE more
  <2>1. Turned(u, w, rows)
    BY <1>6, <1>7 DEF Turned
  <2>2. OnTheWay(u)
    BY <1>2, <1>3, <1>4, <1>6, <2>1, NextPage
  <2>3. Fine(u)
    BY <1>6, <1>7, <2>2 DEF Fine, Complete
  <2>4. QED
    BY <1>2, <2>3
<1>8. CASE ~ more
  <2>1. Complete(u)
    BY <1>2, <1>3, <1>4, <1>5, <1>6, <1>8, LastPage
  <2>2. Fine(u)
    BY <1>6, <1>8, <2>1 DEF Fine, Active
  <2>3. QED
    BY <1>2, <2>2
<1>9. QED
  BY <1>7, <1>8

LEMMA FetchIdsFine ==
  ASSUME CatalogueTypeOK, NEW k \in Walks, NEW w \in WalkType, w = walk[k], Fine(w),
         FetchIds(k)
  PROVE  \E u : Step(k, u) /\ Fine(u)
<1>1. PICK s \in Arrangements(w, RowsIn(w)) :
        Step(k, [w EXCEPT !.pc = "load", !.ids = PageOf(s, w.list, w.page)])
  BY DEF FetchIds
<1> DEFINE rows == PageOf(s, w.list, w.page)
           u == [w EXCEPT !.pc = "load", !.ids = rows]
<1>2. w.pc = "ids" /\ w.list = "products" /\ Step(k, u)
  BY <1>1 DEF FetchIds
<1>3. OnTheWay(w)
  BY <1>2 DEF Fine, Active
<1>4. rows = PageOf(s, w.list, w.page)
  OBVIOUS
<1> HIDE DEF rows
<1>5. /\ SameWalk(u, w) /\ u.pc = "load" /\ u.page = w.page /\ u.shown = w.shown
      /\ u.total = w.total /\ u.ids = rows
  BY DEF WalkType, SameWalk
<1> HIDE DEF u
<1>6. OnTheWay(u)
  BY <1>2, <1>3, <1>4, <1>5, FetchIdsOnTheWay
<1>7. Fine(u)
  BY <1>5, <1>6 DEF Fine, Complete
<1>8. QED
  BY <1>2, <1>7

LEMMA LoadsFine ==
  ASSUME CatalogueTypeOK, NEW k \in Walks, NEW w \in WalkType, w = walk[k], Fine(w),
         LoadRows(k) \/ LoadPanics(k)
  PROVE  \E u : Step(k, u) /\ Fine(u)
<1>1. w.pc = "load" /\ OnTheWay(w)
  BY DEF LoadRows, LoadPanics, Fine, Active
<1>2. ASSUME LoadRows(k) PROVE \E u : Step(k, u) /\ Fine(u)
  <2> DEFINE rows == SubSeq(w.ids, 1, Cardinality(ListByIDs(w.ids)))
             u == [w EXCEPT !.pc = "facets", !.ids = rows,
                            !.cards = @ \o [i \in DOMAIN rows |-> CardPrice(rows[i])]]
  <2>1. Step(k, u) /\ Loaded(u, w, rows)
    BY <1>2 DEF LoadRows, Loaded
  <2> HIDE DEF rows
  <2>2. u.pc = "facets"
    BY DEF WalkType
  <2> HIDE DEF u
  <2>3. OnTheWay(u)
    BY <1>1, <2>1, LoadOnTheWay
  <2>4. Fine(u)
    BY <2>2, <2>3 DEF Fine, Complete
  <2>5. QED
    BY <2>1, <2>4
<1>3. ASSUME LoadPanics(k) PROVE \E u : Step(k, u) /\ Fine(u)
  <2> DEFINE u == [w EXCEPT !.pc = "failed", !.ids = <<>>]
  <2>1. Step(k, u) /\ Overflows(w.ids)
    BY <1>3 DEF LoadPanics
  <2>2. u.pc = "failed" /\ u.left = w.left
    BY DEF WalkType
  <2> HIDE DEF u
  <2>3. w.left
    BY <1>1, <2>1, PanicExplained
  <2>4. Fine(u)
    BY <2>2, <2>3 DEF Fine, Active, Complete
  <2>5. QED
    BY <2>1, <2>4
<1>4. QED
  BY <1>2, <1>3

LEMMA FacetsFine ==
  ASSUME CatalogueTypeOK, NEW k \in Walks, NEW w \in WalkType, w = walk[k], Fine(w),
         LoadFacets(k)
  PROVE  \E u : Step(k, u) /\ Fine(u)
<1> DEFINE more == NextOfProducts(w)
           v == Shown(w, w.ids, more)
           u == [v EXCEPT !.facets = Facets(w.filter)]
<1>1. w.pc = "facets" /\ Step(k, u)
  BY DEF LoadFacets
<1>2. OnTheWay(w)
  BY <1>1 DEF Fine, Active
<1>3. /\ w.list = "products" /\ OnePage(w, w.ids) /\ PageFits(w, w.ids)
      /\ ~ more => LastOne(w, w.ids)
  BY <1>1, <1>2, ProductsFit
<1>4. more \in BOOLEAN
  BY DEF NextOfProducts
<1> HIDE DEF more
<1>5. v \in WalkType
  BY <1>3, <1>4, ShownTyped, SeqMonotonic DEF WalkType
<1>6. /\ SameWalk(v, w) /\ v.shown = w.shown \o w.ids /\ v.ids = <<>>
      /\ v.pc = (IF more THEN "count" ELSE "done")
      /\ v.page = (IF more THEN w.page + 1 ELSE w.page)
  BY DEF WalkType, SameWalk, Shown
<1> HIDE DEF v
<1>7. /\ SameWalk(u, w) /\ u.shown = w.shown \o w.ids /\ u.ids = <<>>
      /\ u.pc = (IF more THEN "count" ELSE "done")
      /\ u.page = (IF more THEN w.page + 1 ELSE w.page)
      /\ u.facets = Facets(w.filter)
  BY <1>5, <1>6 DEF WalkType, SameWalk
<1> HIDE DEF u
<1>8. CASE more
  <2>1. Turned(u, w, w.ids)
    BY <1>7, <1>8 DEF Turned
  <2>2. OnTheWay(u)
    BY <1>1, <1>2, <1>3, <1>7, <2>1, NextPage
  <2>3. Fine(u)
    BY <1>7, <1>8, <2>2 DEF Fine, Complete
  <2>4. QED
    BY <1>1, <2>3
<1>9. CASE ~ more
  <2>1. Complete(u)
    BY <1>2, <1>3, <1>7, <1>9, LastPage
  <2>2. Fine(u)
    BY <1>7, <1>9, <2>1 DEF Fine, Active
  <2>3. QED
    BY <1>1, <2>2
<1>10. QED
  BY <1>8, <1>9

LEMMA ReadWishesFine ==
  ASSUME CatalogueTypeOK, NEW k \in Walks, NEW w \in WalkType, w = walk[k], Fine(w),
         ReadWishes(k)
  PROVE  \E u : Step(k, u) /\ Fine(u)
<1> DEFINE u == [w EXCEPT !.pc = "ids", !.ids = wished]
<1>1. w.pc = "count" /\ w.list \in WishLists /\ Step(k, u)
  BY DEF ReadWishes
<1>2. SameWalk(u, w) /\ u.pc = "ids" /\ u.page = w.page /\ u.shown = w.shown /\ u.ids = wished
  BY DEF WalkType, SameWalk
<1> HIDE DEF u
<1>3. ~ Paged(w) /\ OnTheWay(w)
  BY <1>1 DEF Paged, Fine, Active
<1>4. OnTheWay(u)
  BY <1>1, <1>2, <1>3, ReadOnTheWay
<1>5. Fine(u)
  BY <1>2, <1>4 DEF Fine, Complete
<1>6. QED
  BY <1>1, <1>5

LEMMA WishPageFine ==
  ASSUME CatalogueTypeOK, NEW k \in Walks, NEW w \in WalkType, w = walk[k], Fine(w),
         ShowWishPage(k)
  PROVE  \E u : Step(k, u) /\ Fine(u)
<1>1. PICK rows \in SetToSeqs(ListByIDs(w.ids)) :
        /\ \A i, j \in DOMAIN rows : i < j => Precedes(w.ids, rows[i], rows[j])
        /\ Step(k, Shown(w, rows, FALSE))
  BY DEF ShowWishPage
<1>2. w.pc = "ids" /\ w.list = "wish_page"
  BY DEF ShowWishPage
<1> DEFINE u == Shown(w, rows, FALSE)
<1>3. SameWalk(u, w) /\ u.pc = "done" /\ u.shown = w.shown \o rows
  BY DEF WalkType, SameWalk, Shown
<1>4. Step(k, u)
  BY <1>1
<1> HIDE DEF u
<1>5. OnTheWay(w)
  BY <1>2 DEF Fine, Active
<1>6. Complete(u)
  BY <1>1, <1>2, <1>3, <1>5, WishPageComplete
<1>7. Fine(u)
  BY <1>3, <1>6 DEF Fine, Active
<1>8. QED
  BY <1>4, <1>7

LEMMA WishesFine ==
  ASSUME CatalogueTypeOK, NEW k \in Walks, NEW w \in WalkType, w = walk[k], Fine(w),
         ShowWishes(k)
  PROVE  \E u : Step(k, u) /\ Fine(u)
<1> DEFINE found == ListByIDs(w.ids)
           pages == TotalPages(w.list, Cardinality(found))
           page  == Min({w.page, pages})
           more  == NextOfWishes(page, pages)
<1>1. PICK s \in Arrangements(w, found) :
        Step(k, [Shown(w, PageOf(s, w.list, page), more) EXCEPT
                   !.page = IF more THEN page + 1 ELSE page])
  BY DEF ShowWishes
<1>2. w.pc = "ids" /\ w.list = "wishlist"
  BY DEF ShowWishes
<1>3. OnTheWay(w)
  BY <1>2 DEF Fine, Active
<1>4. /\ w.list \in Lists /\ w.page \in Nat \ {0} /\ w.ids \in Seq(Products)
  BY DEF WalkType
<1>5. IsFiniteSet(found) /\ found \subseteq Products /\ Cardinality(found) \in Nat
  BY <1>4, FoundTyped
<1>6. pages \in Nat \ {0}
  BY <1>4, <1>5, PagesTyped
<1>7. page = (IF w.page <= pages THEN w.page ELSE pages) /\ page \in Nat \ {0}
      /\ (more <=> page < pages) /\ more \in BOOLEAN
  <2>1. more \in BOOLEAN /\ (more <=> page < pages)
    BY DEF NextOfWishes
  <2> HIDE DEF pages, more
  <2>2. page = IF w.page <= pages THEN w.page ELSE pages
    BY <1>4, <1>6, NaturalMin
  <2>3. QED
    BY <1>4, <1>6, <2>1, <2>2
<1> DEFINE rows == PageOf(s, w.list, page)
           v == Shown(w, rows, more)
           u == [v EXCEPT !.page = IF more THEN page + 1 ELSE page]
<1>8. Step(k, u)
  BY <1>1
<1>9. rows \in Seq(Products \cup Orders)
  <2>1. s \in SetToSeqs(found)
    BY <1>1 DEF Arrangements
  <2> HIDE DEF found
  <2>2. s \in Seq(Products \cup Orders)
    BY <1>5, <2>1, InRow, SeqMonotonic
  <2> DEFINE list == w.list
  <2>3. list \in Lists /\ page \in Nat \ {0}
    BY <1>4, <1>7
  <2> HIDE DEF list, page
  <2>4. PageOf(s, list, page) \in Seq(Products \cup Orders)
    BY <2>2, <2>3, PageTyped
  <2>5. QED
    BY <2>4 DEF list
<1>10. found = ListByIDs(w.ids) /\ pages = TotalPages(w.list, Cardinality(found))
       /\ rows = PageOf(s, w.list, page)
  OBVIOUS
<1> HIDE DEF rows, more, page, pages, found
<1>11. v \in WalkType
  BY <1>7, <1>9, ShownTyped
<1>12. /\ SameWalk(v, w) /\ v.shown = w.shown \o rows /\ v.ids = <<>>
       /\ v.pc = (IF more THEN "count" ELSE "done")
  BY DEF WalkType, SameWalk, Shown
<1> HIDE DEF v
<1>13. /\ SameWalk(u, w) /\ u.shown = w.shown \o rows /\ u.ids = <<>>
       /\ u.pc = (IF more THEN "count" ELSE "done")
       /\ u.page = (IF more THEN page + 1 ELSE page)
  <2> DEFINE next == IF more THEN page + 1 ELSE page
  <2> HIDE DEF next
  <2>1. u = [v EXCEPT !.page = next]
    BY DEF next
  <2>2. QED
    BY <1>11, <1>12, <2>1 DEF WalkType, SameWalk, next
<1> HIDE DEF u
<1>14. CASE w.page <= pages
  <2>1. page = w.page
    BY <1>7, <1>14
  <2>2. /\ OnePage(w, rows) /\ PageFits(w, rows)
        /\ w.page < pages /\ ~ w.came /\ ~ w.left =>
             w.page + 1 <= TotalPages(w.list, Cardinality(RowsIn(w)))
        /\ ~ (w.page < pages) => LastOne(w, rows)
    BY <1>2, <1>3, <1>10, <2>1, WishesFit
  <2>3. CASE more
    <3>1. Turned(u, w, rows)
      BY <1>13, <2>1, <2>3 DEF Turned
    <3>2. w.page < pages
      BY <1>7, <2>1, <2>3
    <3>3. w.list # "wish_page" /\ w.list # "products"
      BY <1>2
    <3>4. w.list = "wishlist" /\ ~ w.came /\ ~ w.left =>
            w.page + 1 <= TotalPages(w.list, Cardinality(RowsIn(w)))
      BY <2>2, <3>2
    <3>5. OnTheWay(u)
      BY <1>3, <1>13, <2>2, <3>1, <3>3, <3>4, NextPage
    <3>6. Fine(u)
      BY <1>13, <2>3, <3>5 DEF Fine, Complete
    <3>7. QED
      BY <1>8, <3>6
  <2>4. CASE ~ more
    <3>1. LastOne(w, rows)
      BY <1>7, <2>1, <2>2, <2>4
    <3>2. Complete(u)
      BY <1>2, <1>3, <1>13, <2>2, <2>4, <3>1, LastPage
    <3>3. Fine(u)
      BY <1>13, <2>4, <3>2 DEF Fine, Active
    <3>4. QED
      BY <1>8, <3>3
  <2>5. QED
    BY <2>3, <2>4
<1>15. CASE ~ (w.page <= pages)
  <2>1. page = pages /\ ~ more /\ pages < w.page
    BY <1>4, <1>6, <1>7, <1>15
  <2>2. Complete(u)
    BY <1>2, <1>3, <1>9, <1>10, <1>13, <2>1, BeyondTheLast
  <2>3. Fine(u)
    BY <1>13, <2>1, <2>2 DEF Fine, Active
  <2>4. QED
    BY <1>8, <2>3
<1>16. QED
  BY <1>14, <1>15

WalksFine == \A k \in Walks : Fine(walk[k])

LEMMA BrowseFine ==
  ASSUME CatalogueTypeOK, ListingsTypeOK, WalksFine, NEW k \in Walks, Browse(k)
  PROVE  WalksFine'
<1>1. walk \in [Walks -> WalkType]
  BY DEF ListingsTypeOK, WalkType
<1>2. PICK w \in WalkType : w = walk[k]
  BY <1>1
<1>3. Fine(w)
  BY <1>2 DEF WalksFine
<1>4. \E u : Step(k, u) /\ Fine(u)
  <2>1. CASE FilterForm(k)
    <3>1. PICK f \in FormFilters, sort \in Sorts : Visit(k, "products", f, sort)
      BY <2>1 DEF FilterForm
    <3>2. f \in Filters /\ "products" \in Lists
      BY ListingsAssumption DEF Lists
    <3>3. QED
      BY <3>1, <3>2, VisitFine
  <2>2. CASE StatusForm(k)
    <3>1. PICK list \in {"account_orders", "all_orders"}, s \in Statuses \cup {NoStatus} :
            Visit(k, list, [NoFilter EXCEPT !.status = s], "newest")
      BY <2>2 DEF StatusForm
    <3>2. [NoFilter EXCEPT !.status = s] \in Filters /\ list \in Lists /\ "newest" \in Sorts
      BY NewWalkTyped DEF Filters, Lists, Sorts
    <3>3. QED
      BY <3>1, <3>2, VisitFine
  <2>3. ASSUME NEW list \in WishLists, Visit(k, list, NoFilter, "newest")
        PROVE  \E u : Step(k, u) /\ Fine(u)
    <3>1. list \in Lists /\ "newest" \in Sorts
      BY DEF WishLists, Lists, Sorts
    <3>2. QED
      BY <2>3, <3>1, NewWalkTyped, VisitFine
  <2>4. CASE CountRows(k)
    BY <1>2, <1>3, <2>4, CountFine
  <2>5. CASE FetchOrders(k)
    BY <1>2, <1>3, <2>5, FetchOrdersFine
  <2>6. CASE FetchIds(k)
    BY <1>2, <1>3, <2>6, FetchIdsFine
  <2>7. CASE LoadRows(k) \/ LoadPanics(k)
    BY <1>2, <1>3, <2>7, LoadsFine
  <2>8. CASE LoadFacets(k)
    BY <1>2, <1>3, <2>8, FacetsFine
  <2>9. CASE ReadWishes(k)
    BY <1>2, <1>3, <2>9, ReadWishesFine
  <2>10. CASE ShowWishes(k)
    BY <1>2, <1>3, <2>10, WishesFine
  <2>11. CASE ShowWishPage(k)
    BY <1>2, <1>3, <2>11, WishPageFine
  <2>12. QED
    BY <2>1, <2>2, <2>3, <2>4, <2>5, <2>6, <2>7, <2>8, <2>9, <2>10, <2>11 DEF Browse
<1>5. PICK u : Step(k, u) /\ Fine(u)
  BY <1>4
<1>6. UNCHANGED officeVars /\ UNCHANGED order /\ walk' = [walk EXCEPT ![k] = u]
  BY <1>5 DEF Step
<1>7. ASSUME NEW j \in Walks PROVE Fine(walk[j])'
  <2>1. PICK v : v = walk'[j]
    OBVIOUS
  <2>2. Fine(v)
    <3>1. v = u \/ v = walk[j]
      BY <1>1, <1>6, <2>1
    <3>2. Fine(walk[j])
      BY DEF WalksFine
    <3>3. QED
      BY <1>5, <3>1, <3>2
  <2>3. Fine(v)'
    <3>1. Complete(v)' /\ Active(v)' = Active(v)
      BY <2>2 DEF Fine, Complete, Active, ShownRows
    <3>2. OnTheWay(v) => OnTheWay(v)'
      BY <1>6, StillOnTheWay
    <3>3. QED
      BY <2>2, <3>1, <3>2 DEF Fine
  <2>4. QED
    BY <2>1, <2>3
<1>8. QED
  BY <1>7 DEF WalksFine

LEMMA WatchFine ==
  ASSUME CatalogueTypeOK, CatalogueTypeOK', ListingsTypeOK, WalksFine, Watch
  PROVE  WalksFine'
<1>1. walk \in [Walks -> WalkType]
  BY DEF ListingsTypeOK, WalkType
<1>2. ASSUME NEW k \in Walks PROVE Fine(walk[k])'
  <2>1. PICK w \in WalkType : w = walk[k]
    BY <1>1
  <2>2. PICK v : v = walk'[k]
    OBVIOUS
  <2>3. v = IF w.pc \in {"idle", "failed", "done"} THEN w ELSE Seen(w)
    BY <2>1, <2>2, Watches
  <2>4. Fine(w)
    BY <2>1 DEF WalksFine
  <2>5. CASE Active(w)
    <3>1. v = Seen(w)
      BY <2>3, <2>5 DEF Active
    <3>2. v.pc = w.pc
      BY <3>1, SeenFacts
    <3>3. OnTheWay(v)'
      BY <2>4, <2>5, <3>1, OthersOnTheWay DEF Fine
    <3>4. Complete(v)'
      BY <2>5, <3>2 DEF Active, Complete
    <3>5. Fine(v)'
      BY <3>3, <3>4 DEF Fine
    <3>6. QED
      BY <2>2, <3>5
  <2>6. CASE ~ Active(w)
    <3>1. w.pc \in {"idle", "failed", "done"}
      BY <2>6 DEF Active, WalkType
    <3>2. v = w
      BY <2>3, <3>1
    <3>3. Complete(v)'
      BY <2>4, <3>2 DEF Fine, Complete, ShownRows
    <3>4. ~ Active(v)'
      BY <2>6, <3>2 DEF Active
    <3>5. Fine(v)'
      BY <3>3, <3>4 DEF Fine
    <3>6. QED
      BY <2>2, <3>5
  <2>7. QED
    BY <2>5, <2>6
<1>3. QED
  BY <1>2 DEF WalksFine

LEMMA WalksFineStep ==
  ASSUME Typed, Typed', ListingsTypeOK, WalksFine, [StorefrontNext]_storefrontVars
  PROVE  WalksFine'
<1>1. CatalogueTypeOK /\ CatalogueTypeOK'
  BY DEF Typed
<1>2. ASSUME NEW k \in Walks, Browse(k) PROVE WalksFine'
  BY <1>1, <1>2, BrowseFine
<1>3. CASE Watch
  BY <1>1, <1>3, WatchFine
<1>4. CASE UNCHANGED storefrontVars
  <2>1. UNCHANGED officeVars /\ UNCHANGED order /\ UNCHANGED walk
    BY <1>4 DEF storefrontVars
  <2>2. ASSUME NEW j \in Walks PROVE Fine(walk[j])'
    <3>1. PICK v : v = walk[j]
      OBVIOUS
    <3>2. Fine(v)
      BY <3>1 DEF WalksFine
    <3>3. Complete(v)' /\ Active(v)' = Active(v)
      BY <3>2 DEF Fine, Complete, Active, ShownRows
    <3>4. OnTheWay(v) => OnTheWay(v)'
      BY <2>1, StillOnTheWay
    <3>5. Fine(v)'
      BY <3>2, <3>3, <3>4 DEF Fine
    <3>6. v = walk'[j]
      BY <2>1, <3>1
    <3>7. QED
      BY <3>5, <3>6
  <2>3. QED
    BY <2>2 DEF WalksFine
<1>5. QED
  BY <1>2, <1>3, <1>4 DEF StorefrontNext

LEMMA WalksFineAtFirst ==
  ASSUME StorefrontInit
  PROVE  WalksFine
<1>1. \A k \in Walks : walk[k].pc = "idle"
  BY DEF StorefrontInit, ListingsInit, NewWalk
<1>2. QED
  BY <1>1 DEF WalksFine, Fine, Active, Complete

(* Whoever walks through a list to its last page has seen it (WalksComplete *)
(* in Listings): with no ties, no row that was there is missed, unless one  *)
(* comes between the count of a page and the page itself; none is shown     *)
(* twice while only rows go; a list that stays is shown as it is, with its  *)
(* facets; the cards of a walk by price rise, or fall; and a walk ends with *)
(* an error only if a row went.                                             *)
THEOREM WalksSeeAll == StorefrontSpec => []WalksComplete
<1>1. StorefrontInit => ListingsTypeOK /\ WalksFine
  BY ListingsInitTyped, WalksFineAtFirst DEF StorefrontInit
<1>2. /\ Typed /\ Typed' /\ ListingsTypeOK /\ WalksFine /\ [StorefrontNext]_storefrontVars
      => ListingsTypeOK' /\ WalksFine'
  BY ListingsStepTyped, WalksFineStep
<1>3. WalksFine => WalksComplete
  BY DEF WalksFine, Fine, Complete, WalksComplete
<1>4. QED
  BY <1>1, <1>2, <1>3, AlwaysTyped, PTL DEF StorefrontSpec
=============================================================================
