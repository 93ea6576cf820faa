------------------------------ MODULE Listings ------------------------------
(***************************************************************************)
(* Lists that are shown page by page: the products of the shop, with       *)
(* filters and a sort order (internal/modules/products/repository.go,      *)
(* internal/http/handlers/products.go), the orders of an account and of    *)
(* the back office (internal/modules/orders), the wishlist on the account  *)
(* page (internal/http/handlers/account.go) and on its own (wishlist.go).  *)
(* A page is several SELECTs, and nothing holds between two of them: rows  *)
(* come, go and move while a visitor walks from page to page.              *)
(***************************************************************************)
EXTENDS Catalogue

CONSTANTS
  Walks,         \* visitors who go through a list to its last page
  PageSize,      \* rows of a page of each list
  Categories, NoCategory,
  CategoryOf,    \* the category of each product, which no request changes
  IdRank,        \* the order of the products' ids
  FormFilters,   \* bound: what visitors enter in the filter form
  Orders,        \* bound: orders that are, or will be, in the database
  Statuses,      \* of an order
  InitialOrders, \* bound: rows of orders at the start
  NoStatus       \* no filter by status; an order that is not placed yet

Lists == {"products", "account_orders", "all_orders", "wishlist", "wish_page"}
WishLists == {"wishlist", "wish_page"}
Sorts == {"newest", "price_asc", "price_desc"}
Filters == [query : BOOLEAN, category : Categories \cup {NoCategory},
            min : Nat, max : Nat, inStock : BOOLEAN, status : Statuses \cup {NoStatus}]

ASSUME ListingsAssumption ==
  /\ IsFiniteSet(Orders) /\ IdRank \in [Products -> Nat]
  /\ PageSize \in [Lists -> Nat \ {0}] /\ Orders \cap Products = {}
  /\ NoCategory \notin Categories /\ NoStatus \notin Statuses
  /\ CategoryOf \in [Products -> Categories \cup {NoCategory}]
  /\ FormFilters \subseteq Filters
  /\ InitialOrders \in [Orders -> [status : Statuses \cup {NoStatus}, mine : BOOLEAN, born : Nat]]

VARIABLES
  order,  \* rows of orders: status, whether the account lists it, time of creation
  walk    \* the walks: where they are, what they have read and shown, and
          \* as history what happened to their list meanwhile
-----------------------------------------------------------------------------
(* buildListFilters: two prices in the wrong order are swapped.            *)
Normal(f) == IF f.max > 0 /\ f.min > f.max THEN [f EXCEPT !.min = f.max, !.max = f.min] ELSE f

(* The WHERE of ListFiltered: one variant may be dear enough and another   *)
(* one cheap enough.                                                       *)
Listed(f) ==
  {p \in Products :
     /\ product[p].status = "active"
     /\ f.query => product[p].named
     /\ f.category # NoCategory => CategoryOf[p] = f.category
     /\ f.min > 0 => \E v \in VariantsOf(p) : variant[v].price >= f.min
     /\ f.max > 0 => \E v \in VariantsOf(p) : variant[v].price <= f.max
     /\ f.inStock => \E v \in VariantsOf(p) : variant[v].stock > 0}

Facets(f) == [c \in Categories \cup {NoCategory} |->
                Cardinality({p \in Listed(f) : CategoryOf[p] = c})]

(* The aggregate of a product with no variants is NULL, which comes first. *)
MinPrice(p) == IF VariantsOf(p) = {} THEN -1 ELSE Min({variant[v].price : v \in VariantsOf(p)})

(* The price on a product's card is that of its cheapest variant, 0 with   *)
(* none.  (Its conversion keeps the order of prices and is left out.)      *)
CardPrice(p) == Max({0, MinPrice(p)})

ProductBefore(sort, p, q) ==
  LET newer == product[p].born > product[q].born
  IN  \/ sort = "newest" /\ newer
      \/ sort = "price_asc" /\ MinPrice(p) < MinPrice(q)
      \/ sort = "price_desc" /\ MinPrice(p) > MinPrice(q)
      \/ sort # "newest" /\ MinPrice(p) = MinPrice(q) /\ newer

(* ListByUser: the orders of the account and a guest's with its address.   *)
(* AdminList: all of them.                                                 *)
OrderRows(w) ==
  {o \in Orders : /\ order[o].status # NoStatus
                  /\ w.list = "account_orders" => order[o].mine
                  /\ w.filter.status # NoStatus => order[o].status = w.filter.status}

RowsIn(w) == IF w.list = "products" THEN Listed(w.filter)
             ELSE IF w.list \in WishLists THEN Range(wished) ELSE OrderRows(w)

Precedes(ids, a, b) == \E i, j \in DOMAIN ids : i < j /\ ids[i] = a /\ ids[j] = b

Before(w, a, b) == IF w.list = "products" THEN ProductBefore(w.sort, a, b)
                   ELSE IF w.list = "wishlist" THEN IdRank[a] < IdRank[b]
                   ELSE IF w.list = "wish_page" THEN Precedes(wished, a, b)
                   ELSE order[a].born > order[b].born

(* ORDER BY decides nothing between rows that tie.                         *)
Arrangements(w, rows) ==
  {s \in SetToSeqs(rows) : \A i, j \in DOMAIN s : i < j => ~ Before(w, s[j], s[i])}

(* A faulty PageOf: the offset counts the page itself.                     *)
PageOfSkipped(s, list, page) ==
  SubSeq(s, page * PageSize[list] + 1, Min({(page + 1) * PageSize[list], Len(s)}))

(* LIMIT and OFFSET.                                                       *)
PageOf(s, list, page) ==
  SubSeq(s, (page - 1) * PageSize[list] + 1, Min({page * PageSize[list], Len(s)}))

TotalPages(list, n) == Max({1, (n + PageSize[list] - 1) \div PageSize[list]})
-----------------------------------------------------------------------------
NoFilter == [query |-> FALSE, category |-> NoCategory, min |-> 0, max |-> 0,
             inStock |-> FALSE, status |-> NoStatus]
NewWalk == [pc |-> "idle", list |-> "products", filter |-> NoFilter, sort |-> "newest",
            page |-> 1, total |-> 0, ids |-> <<>>, shown |-> <<>>,
            facets |-> [c \in Categories \cup {NoCategory} |-> 0], start |-> <<>>,
            cards |-> <<>>, priced |-> FALSE,
            came |-> FALSE, late |-> FALSE, left |-> FALSE, moved |-> FALSE, tied |-> FALSE]

ListingsTypeOK ==
  /\ order \in [Orders -> [status : Statuses \cup {NoStatus}, mine : BOOLEAN, born : Nat]]
  /\ walk \in [Walks ->
       [pc : {"idle", "count", "ids", "load", "facets", "failed", "done"}, list : Lists,
        filter : Filters, sort : Sorts, page : Nat \ {0}, total : Nat,
        ids : Seq(Products), shown : Seq(Products \cup Orders),
        facets : [Categories \cup {NoCategory} -> 0 .. Cardinality(Products)],
        start : Seq(Products \cup Orders), cards : Seq(Nat), priced : BOOLEAN,
        came : BOOLEAN, late : BOOLEAN,
        left : BOOLEAN, moved : BOOLEAN, tied : BOOLEAN]]

ListingsInit ==
  /\ order = InitialOrders
  /\ walk = [k \in Walks |-> NewWalk]

Ties(w) == \E a, b \in RowsIn(w) : a # b /\ ~ Before(w, a, b) /\ ~ Before(w, b, a)
-----------------------------------------------------------------------------
Step(k, w) == walk' = [walk EXCEPT ![k] = w] /\ UNCHANGED <<order, used, officeVars>>

Visit(k, list, f, sort) ==
  LET w == [NewWalk EXCEPT !.pc = "count", !.list = list, !.filter = Normal(f), !.sort = sort]
  IN  /\ walk[k].pc = "idle"
      /\ Cardinality({j \in Walks : walk[j].pc # "idle"}) < limit.walks
      /\ \E s \in Arrangements(w, RowsIn(w)) :
           Step(k, [w EXCEPT !.start = s, !.tied = Ties(w)])

(* The count of the products has lost the filters; that of the orders has  *)
(* them.                                                                   *)
CountRows(k) ==
  LET w == walk[k]
  IN  /\ w.pc = "count" /\ w.list \notin WishLists
      /\ Step(k, [w EXCEPT !.pc = "ids",
           !.total = Cardinality(IF w.list = "products" THEN Listable ELSE RowsIn(w))])

(* What a page offers a link to the next one for: as many pages as the     *)
(* count makes, and in an account's orders not below an empty table.       *)
NextOfProducts(w) == w.page < TotalPages(w.list, w.total)
NextOfAccountOrders(w, rows) == rows # <<>> /\ w.page * PageSize[w.list] < w.total
NextOfAllOrders(w) == w.page < TotalPages(w.list, w.total)
NextOfWishes(page, pages) == page < pages

(* The page is on the screen.  The visitor goes on while there is a next   *)
(* one.                                                                    *)
Shown(w, rows, more) ==
  [w EXCEPT !.shown = @ \o rows, !.ids = <<>>, !.total = 0,
            !.pc = IF more THEN "count" ELSE "done",
            !.page = IF more THEN @ + 1 ELSE @]

FetchOrders(k) ==
  LET w == walk[k]
  IN  /\ w.pc = "ids" /\ w.list \in {"account_orders", "all_orders"}
      /\ \E s \in Arrangements(w, RowsIn(w)) :
           LET rows == PageOf(s, w.list, w.page)
           IN  Step(k, Shown(w, rows, IF w.list = "all_orders" THEN NextOfAllOrders(w)
                                      ELSE NextOfAccountOrders(w, rows)))

(* ListFiltered: the ids of the page, ...                                  *)
FetchIds(k) ==
  LET w == walk[k]
  IN  /\ w.pc = "ids" /\ w.list = "products"
      /\ \E s \in Arrangements(w, RowsIn(w)) :
           Step(k, [w EXCEPT !.pc = "load", !.ids = PageOf(s, w.list, w.page)])

(* ... the products with these ids, hidden ones included, in no order ...  *)
ListByIDs(ids) == Range(ids) \cap Listable

(* ... each put back at the place of its id in an array as long as there   *)
(* are products left ...                                                   *)
Overflows(ids) ==
  \E i \in DOMAIN ids : ids[i] \in ListByIDs(ids) /\ i > Cardinality(ListByIDs(ids))

LoadRows(k) ==
  LET w == walk[k]
  IN  /\ w.pc = "load" /\ ~ Overflows(w.ids)
      /\ LET rows == SubSeq(w.ids, 1, Cardinality(ListByIDs(w.ids)))
         IN  Step(k, [w EXCEPT !.pc = "facets", !.ids = rows,
                               !.cards = @ \o [i \in DOMAIN rows |-> CardPrice(rows[i])]])

(* ... which is too short when one before it is gone: an error page.       *)
LoadPanics(k) ==
  LET w == walk[k]
  IN  /\ w.pc = "load" /\ Overflows(w.ids)
      /\ Step(k, [w EXCEPT !.pc = "failed", !.ids = <<>>])

(* ... and the categories of all that pass the filters.                    *)
LoadFacets(k) ==
  LET w == walk[k]
  IN  /\ w.pc = "facets"
      /\ Step(k, [Shown(w, w.ids, NextOfProducts(w)) EXCEPT !.facets = Facets(w.filter)])

(* The account page and the page of the wishlist read the whole of it and  *)
(* then its products.                                                      *)
ReadWishes(k) ==
  LET w == walk[k]
  IN  /\ w.pc = "count" /\ w.list \in WishLists
      /\ Step(k, [w EXCEPT !.pc = "ids", !.ids = wished])

(* The latter puts its products in the order in which it read them.        *)
ShowWishPage(k) ==
  LET w == walk[k]
  IN  /\ w.pc = "ids" /\ w.list = "wish_page"
      /\ \E rows \in SetToSeqs(ListByIDs(w.ids)) :
           /\ \A i, j \in DOMAIN rows : i < j => Precedes(w.ids, rows[i], rows[j])
           /\ Step(k, Shown(w, rows, FALSE))

(* The former leaves them as they come, by id, and cuts a page out; a page *)
(* after the last one is the last one.                                     *)
ShowWishes(k) ==
  LET w     == walk[k]
      rows  == ListByIDs(w.ids)
      pages == TotalPages(w.list, Cardinality(rows))
      page  == Min({w.page, pages})
  IN  /\ w.pc = "ids" /\ w.list = "wishlist"
      /\ \E s \in Arrangements(w, rows) :
           Step(k, [Shown(w, PageOf(s, w.list, page), NextOfWishes(page, pages)) EXCEPT
                      !.page = IF NextOfWishes(page, pages) THEN page + 1 ELSE page])

(* The form beside the products, and the ones over the orders.             *)
FilterForm(k) ==
  \E f \in FormFilters, sort \in Sorts : Visit(k, "products", f, sort)
StatusForm(k) ==
  \E list \in {"account_orders", "all_orders"}, s \in Statuses \cup {NoStatus} :
    Visit(k, list, [NoFilter EXCEPT !.status = s], "newest")

Browse(k) ==
  \/ FilterForm(k) \/ StatusForm(k)
  \/ \E list \in WishLists : Visit(k, list, NoFilter, "newest")
  \/ CountRows(k) \/ FetchOrders(k) \/ FetchIds(k) \/ LoadRows(k) \/ LoadPanics(k)
  \/ LoadFacets(k)
  \/ ReadWishes(k) \/ ShowWishes(k) \/ ShowWishPage(k)
-----------------------------------------------------------------------------
(* Orders are placed, and their status moves: the other modules say when.  *)
Latest == Max({order[o].born : o \in Orders})

OrderArrives(o, status, mine, time) ==
  /\ order[o].status = NoStatus
  /\ time \in {Latest, Latest + 1}
  /\ order' = [order EXCEPT ![o] = [status |-> status, mine |-> mine, born |-> time]]
  /\ UNCHANGED officeVars

OrderMoves(o, status) ==
  /\ order[o].status \notin {NoStatus, status}
  /\ order' = [order EXCEPT ![o].status = status]
  /\ UNCHANGED officeVars

OrdersMove ==
  /\ Spend("office")
  /\ \E o \in Orders, status \in Statuses :
       \/ OrderMoves(o, status)
       \/ \E mine \in BOOLEAN, time \in {Latest, Latest + 1} : OrderArrives(o, status, mine, time)

(* What a step of somebody else does to the lists that are being walked.   *)
Watched ==
  [w \in {walk[k] : k \in Walks} |->
     IF w.pc \in {"idle", "failed", "done"} THEN w
     ELSE LET before == RowsIn(w)
              after  == RowsIn(w)'
              came   == ~ (after \subseteq before)
          IN  [w EXCEPT !.came  = @ \/ came,
                        !.late  = @ \/ (came /\ w.pc = "ids"),
                        !.left  = @ \/ ~ (before \subseteq after),
                        !.moved = @ \/ \E a, b \in before \cap after : Before(w, a, b) # Before(w, a, b)',
                        !.priced = @ \/ \E p \in Products : CardPrice(p) # CardPrice(p)',
                        !.tied  = @ \/ Ties(w)']]

Watch == walk' = [k \in Walks |-> Watched[walk[k]]]
-----------------------------------------------------------------------------
ShownRows(w) == Range(w.shown)

(* Who walks a list from the first page to the last has seen it.  If no    *)
(* two rows tie, rows that come meanwhile hide none of those that were     *)
(* there, unless one comes between the count of a page and the page        *)
(* itself; rows that go make none appear twice, but for the wishlist,      *)
(* whose last page is shown for a page that is no more; and of a list that *)
(* stays as it is every row is shown once, in order, as many of each       *)
(* category as its facet counts.  The cards of a walk by price rise, or    *)
(* fall, from page to page, whatever rows go, if none comes and no price   *)
(* changes.  The walk ends with an error only if a row went.               *)
WalksComplete ==
  \A k \in Walks :
    LET w == walk[k]
    IN  /\ w.pc = "failed" => w.left
        /\ w.pc = "done" /\ ~ w.came /\ ~ w.moved /\ ~ w.priced =>
             \A i, j \in DOMAIN w.cards : i < j =>
               /\ w.sort = "price_asc" => w.cards[i] <= w.cards[j]
               /\ w.sort = "price_desc" => w.cards[i] >= w.cards[j]
        /\ w.pc = "done" /\ ~ w.tied =>
          /\ ~ w.left /\ ~ w.moved /\ ~ w.late => Range(w.start) \subseteq ShownRows(w)
          /\ ~ w.came /\ ~ w.moved /\ w.list # "wishlist" => IsInjective(w.shown)
          /\ ~ w.came /\ ~ w.left /\ ~ w.moved =>
               /\ w.shown = w.start
               /\ w.list = "products" =>
                    \A c \in DOMAIN w.facets :
                      w.facets[c] = Cardinality({p \in ShownRows(w) : CategoryOf[p] = c})
=============================================================================
