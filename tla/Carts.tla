-------------------------------- MODULE Carts --------------------------------
(***************************************************************************)
(* Shopping carts (internal/modules/cart, internal/http/cartcookie, the    *)
(* handlers of carts, login and checkout).  A guest's cart is a cookie:    *)
(* every request carries it to the server and the reply carries the        *)
(* changed one back.  The cart of an account is rows of the database,      *)
(* which a request reads and writes in statements of their own.  A login   *)
(* merges the first into the second, line by line, and an order takes the  *)
(* lines it has read.                                                      *)
(*                                                                         *)
(* One account, used from several browsers, over the catalogue.  The steps *)
(* of the checkout transaction are in Checkout.tla; here it is one step,   *)
(* which may be refused for any reason.                                    *)
(***************************************************************************)
EXTENDS Catalogue

CONSTANTS
  Browsers,
  Members,      \* the browsers that have a session at the start
  Requests,     \* requests that change a cart; each is sent once
  Quantities,   \* what the form adds
  RateTables,   \* bound: tables of rates the fx worker stores
  Account,      \* the place of the account's cart
  NoVariant,    \* no line is at hand
  NoCookie,     \* of a reply that leaves the cookie alone
  NoSale        \* of a request that is not a checkout

Lines == [Variants -> Nat]
EmptyLines == [v \in Variants |-> 0]
OneLine(v, n) == [EmptyLines EXCEPT ![v] = n]
SetLine(lines, v, n) == [lines EXCEPT ![v] = n]
Plus(a, b) == [v \in Variants |-> a[v] + b[v]]
Minus(a, b) == [v \in Variants |-> a[v] - b[v]]
Places == {Account} \cup Browsers

ASSUME CartsAssumption ==
  /\ Account \notin Browsers /\ Members \subseteq Browsers
  /\ Quantities \subseteq Nat \ {0} /\ RateTables \subseteq [Currencies -> {NoRate} \cup Quotes]
  /\ NoVariant \notin Variants /\ NoCookie \notin Lines

VARIABLES
  carted,      \* whether the account has its row in carts
  items,       \* the quantities in its cart_items, 0 for no row
  jar,         \* the cart cookie of each browser
  signedIn,    \* whether a browser has a valid session
  request,     \* the requests: where they are and what they have read
  market,      \* exchange rates, each browser's currency, and the variants
               \* that orders and stranded carts refer to
  booked,      \* history: what each place would hold had no requests overlapped
  disturbed,   \* history: the lines where requests overlapped or were lost
  added        \* history: the units AddItem was called with

cartsVars == <<carted, items, jar, signedIn, request, market,
               booked, disturbed, added>>
-----------------------------------------------------------------------------
OnServer == {"cart", "create", "read", "write", "delete", "order", "commit"}
InFlight == OnServer \cup {"reply"}
Rates == [Currencies -> {NoRate} \cup Quotes]
Sales == [lines : Lines, price : Lines, rates : Rates, pref : Currencies,
          method : Methods]

NewRequest == [pc |-> "idle", from |-> Account, kind |-> "none", lines |-> EmptyLines,
               todo |-> {}, at |-> NoVariant, seen |-> 0, cookie |-> NoCookie,
               touch |-> {}, page |-> NoSale, bill |-> NoSale]
Done == [NewRequest EXCEPT !.pc = "done"]

CartsTypeOK ==
  /\ carted \in BOOLEAN
  /\ items \in Lines
  /\ jar \in [Browsers -> Lines]
  /\ signedIn \in [Browsers -> BOOLEAN]
  /\ request \in [Requests ->
       [pc : {"idle", "page", "done"} \cup InFlight,
        from : Places,
        kind : {"none", "add", "update", "remove", "login", "checkout",
                "guest", "guest checkout"},
        lines : Lines, todo : SUBSET Variants, at : Variants \cup {NoVariant},
        seen : Nat, cookie : Lines \cup {NoCookie},
        touch : SUBSET (Places \X Variants),
        page : Sales \cup {NoSale}, bill : Sales \cup {NoSale}]]
  /\ market \in [rates : Rates, pref : [Browsers -> Currencies], kept : SUBSET Variants]
  /\ booked \in [Places -> [Variants -> Int]]
  /\ disturbed \subseteq Places \X Variants
  /\ added \in Lines

CartsInit ==
  /\ carted = FALSE
  /\ items = EmptyLines
  /\ jar = [b \in Browsers |-> EmptyLines]
  /\ signedIn = [b \in Browsers |-> b \in Members]
  /\ request = [r \in Requests |-> NewRequest]
  /\ market \in [rates : RateTables, pref : [Browsers -> {DefaultDisplay}], kept : {{}}]
  /\ booked = [p \in Places |-> EmptyLines]
  /\ disturbed = {}
  /\ added = EmptyLines
-----------------------------------------------------------------------------
(* A request is that of the account if its session cookie names a row of   *)
(* sessions whose time is not over.                                        *)
CurrentUser(b) == signedIn[b]
CreateSession(b) == [signedIn EXCEPT ![b] = TRUE]

(* The lines a request may be writing: of the account until it has         *)
(* answered, of the cookie until the browser has the reply.                *)
Touched(q) ==
  {t \in q.touch : q.pc \in OnServer \/ (q.pc = "reply" /\ t[1] \in Browsers)}

Fresh(r) ==
  /\ request[r].pc = "idle"
  /\ Cardinality({q \in Requests : request[q].pc # "idle"}) < limit.requests

Send(r, b, kind, pc, lines, touch, cookie) ==
  /\ Fresh(r)
  /\ request' = [request EXCEPT ![r] =
       [NewRequest EXCEPT !.pc = pc, !.from = b, !.kind = kind, !.lines = lines,
                          !.todo = Items(lines), !.touch = touch, !.cookie = cookie]]
  /\ disturbed' = disturbed \cup
       {t \in touch : \E q \in Requests \ {r} : t \in Touched(request[q])}
  /\ UNCHANGED <<carted, items, jar, signedIn, market, added, used>>

(* A guest's Add, Update and Remove read the cookie of the request and     *)
(* answer with a new one.                                                  *)
GuestAdd(r, b, v, n) ==
  /\ ~ CurrentUser(b)
  /\ Send(r, b, "guest", "reply", EmptyLines, {b} \X Variants, Plus(jar[b], OneLine(v, n)))
  /\ booked' = [booked EXCEPT ![b][v] = @ + n]

(* A faulty GuestUpdate: the minus button with nothing to stop it at zero. *)
GuestUpdateUnclamped(r, b, v, n) ==
  /\ ~ CurrentUser(b)
  /\ Send(r, b, "guest", "reply", EmptyLines, {b} \X Variants, [jar[b] EXCEPT ![v] = n - 1])
  /\ booked' = [booked EXCEPT ![b][v] = n - 1]

GuestUpdate(r, b, v, n) ==
  /\ ~ CurrentUser(b)
  /\ Send(r, b, "guest", "reply", EmptyLines, {b} \X Variants, SetLine(jar[b], v, n))
  /\ booked' = [booked EXCEPT ![b] = SetLine(@, v, n)]

GuestRemove(r, b, v) == GuestUpdate(r, b, v, 0)

(* With a session the requests go to the cart of the account.  An update   *)
(* to a quantity above zero always ends in an error: its UPDATE names no   *)
(* table.                                                                  *)
AccountAdd(r, b, v, n) ==
  /\ CurrentUser(b)
  /\ Send(r, b, "add", "cart", OneLine(v, n), {<<Account, v>>}, NoCookie)
  /\ UNCHANGED booked

AccountUpdate(r, b) ==
  /\ CurrentUser(b)
  /\ Send(r, b, "update", "cart", EmptyLines, {}, NoCookie)
  /\ UNCHANGED booked

AccountRemove(r, b, v) ==
  /\ CurrentUser(b)
  /\ Send(r, b, "remove", "cart", OneLine(v, 1), {<<Account, v>>}, NoCookie)
  /\ UNCHANGED booked

(* LoginPost, with the merge of a guest cart that is not empty.            *)
Login(r, b) ==
  /\ ~ CurrentUser(b)
  /\ IF Items(jar[b]) = {}
     THEN Send(r, b, "login", "reply", EmptyLines, {}, NoCookie)
     ELSE Send(r, b, "login", "cart", jar[b],
               ({b} \X Variants) \cup ({Account} \X Items(jar[b])), NoCookie)
  /\ UNCHANGED booked

(* POST /api/cart/add: a guest is told that it has worked.                 *)
ApiAdd(r, b, v, n) ==
  \/ AccountAdd(r, b, v, n)
  \/ /\ ~ CurrentUser(b)
     /\ Send(r, b, "guest", "reply", EmptyLines, {}, NoCookie)
     /\ UNCHANGED booked

(* LogoutPost deletes the session, or its time is over.                    *)
EndSession(b) ==
  /\ CurrentUser(b)
  /\ signedIn' = [signedIn EXCEPT ![b] = FALSE]
  /\ UNCHANGED <<carted, items, jar, request, market, booked, disturbed, added, used>>
-----------------------------------------------------------------------------
(* GetOrCreateUserCart: a SELECT, and an INSERT that the unique index on   *)
(* user_id refuses when another request was faster.                        *)
WithCart == [add |-> "read", login |-> "read", remove |-> "delete",
             update |-> "reply", checkout |-> "order"]

GetCart(r) ==
  LET q == request[r]
  IN  /\ q.pc = "cart"
      /\ request' = [request EXCEPT ![r].pc = IF carted THEN WithCart[q.kind] ELSE "create"]
      /\ UNCHANGED <<carted, items, jar, signedIn, market, booked, disturbed, added, used>>

CreateCart(r) ==
  LET q == request[r]
  IN  /\ q.pc = "create"
      /\ request' = [request EXCEPT ![r].pc = IF carted THEN "reply" ELSE WithCart[q.kind]]
      /\ carted' = TRUE
      /\ UNCHANGED <<items, jar, signedIn, market, booked, disturbed, added, used>>

(* AddItem: the SELECT of the line ...                                     *)
FindLine(r) ==
  /\ request[r].pc = "read"
  /\ \E v \in request[r].todo :
       request' = [request EXCEPT ![r].pc = "write", ![r].at = v, ![r].seen = items[v]]
  /\ UNCHANGED <<carted, items, jar, signedIn, market, booked, disturbed, added, used>>

(* A faulty LineDone: the merge leaves the cookie as it is.                *)
LineDoneKeepsCookie(r, lines) ==
  LET q    == request[r]
      rest == q.todo \ {q.at}
  IN  /\ request' = [request EXCEPT ![r] =
           [q EXCEPT !.lines = lines, !.todo = rest, !.at = NoVariant, !.seen = 0,
                     !.pc = IF rest = {} THEN "reply" ELSE "read"]]
      /\ booked' = IF rest # {} THEN booked
                   ELSE [p \in Places |->
                          IF p = Account THEN Plus(booked[p], lines)
                          ELSE IF p = q.from /\ q.kind = "login" THEN EmptyLines
                          ELSE booked[p]]

(* The line at hand is dealt with.  After the last one a merge clears the  *)
(* cookie, whatever became of the lines.                                   *)
LineDone(r, lines) ==
  LET q      == request[r]
      rest   == q.todo \ {q.at}
      merged == rest = {} /\ q.kind = "login"
  IN  /\ request' = [request EXCEPT ![r] =
           [q EXCEPT !.lines = lines, !.todo = rest, !.at = NoVariant, !.seen = 0,
                     !.pc = IF rest = {} THEN "reply" ELSE "read",
                     !.cookie = IF merged THEN EmptyLines ELSE NoCookie]]
      /\ booked' = IF rest # {} THEN booked
                   ELSE [p \in Places |->
                          IF p = Account THEN Plus(booked[p], lines)
                          ELSE IF p = q.from /\ merged THEN EmptyLines
                          ELSE booked[p]]

(* ... and the UPDATE, with the sum of what was read, which finds no row   *)
(* and no error when the line has been deleted since ...                   *)
UpdateLine(r) ==
  LET q == request[r]
  IN  /\ q.pc = "write" /\ q.seen > 0
      /\ items' = IF items[q.at] = 0 THEN items
                  ELSE [items EXCEPT ![q.at] = q.seen + q.lines[q.at]]
      /\ added' = [added EXCEPT ![q.at] = @ + q.lines[q.at]]
      /\ LineDone(r, q.lines)
      /\ UNCHANGED <<carted, jar, signedIn, market, disturbed, used>>

(* ... or the INSERT, which fails on the index of cart_items when another  *)
(* request was faster, and on the foreign key when the variant is gone.    *)
InsertLine(r) ==
  LET q == request[r]
  IN  /\ q.pc = "write" /\ q.seen = 0
      /\ items[q.at] = 0 /\ q.at \in Sold
      /\ items' = [items EXCEPT ![q.at] = q.lines[q.at]]
      /\ added' = [added EXCEPT ![q.at] = @ + q.lines[q.at]]
      /\ LineDone(r, q.lines)
      /\ UNCHANGED <<carted, jar, signedIn, market, disturbed, used>>

(* An addition that fails is answered with an error.  A merge goes on: the *)
(* customer loses units of a variant that still exists.                    *)
InsertFails(r) ==
  LET q == request[r]
  IN  /\ q.pc = "write" /\ q.seen = 0
      /\ items[q.at] > 0 \/ q.at \notin Sold
      /\ LineDone(r, IF q.kind = "login" /\ q.at \in Sold
                     THEN q.lines ELSE [q.lines EXCEPT ![q.at] = 0])
      /\ UNCHANGED <<carted, items, jar, signedIn, market, disturbed, added, used>>

(* RemoveItem, and UpdateItemQty with zero.                                *)
RemoveLine(r) ==
  LET q == request[r]
  IN  /\ q.pc = "delete"
      /\ items' = [v \in Variants |-> IF q.lines[v] > 0 THEN 0 ELSE items[v]]
      /\ booked' = [booked EXCEPT ![Account] =
                      [v \in Variants |-> IF q.lines[v] > 0 THEN 0 ELSE @[v]]]
      /\ request' = [request EXCEPT ![r].pc = "reply"]
      /\ UNCHANGED <<carted, jar, signedIn, market, disturbed, added, used>>
-----------------------------------------------------------------------------
(* The cart page skips the lines of a cookie whose variant is gone.        *)
Known(lines) == [v \in Variants |-> IF v \in Sold THEN lines[v] ELSE 0]
Visible(b) == Known(IF CurrentUser(b) THEN items ELSE jar[b])

Prices == [v \in Variants |-> variant[v].price]
SaleOf(lines, b, m) == [lines |-> lines, price |-> Prices, rates |-> market.rates,
                        pref |-> market.pref[b], method |-> m]

(* GET /checkout, with the price of each shipping method.                  *)
OpenCheckout(r, b, m) ==
  /\ Fresh(r)
  /\ Items(Visible(b)) # {}
  /\ request' = [request EXCEPT ![r] =
       [NewRequest EXCEPT !.pc = "page", !.from = b, !.page = SaleOf(Visible(b), b, m)]]
  /\ UNCHANGED <<carted, items, jar, signedIn, market, booked, disturbed, added, used>>

(* A guest's cookie is copied to a temporary cart, line by line, which     *)
(* fails on the foreign key when a variant is gone and leaves the lines    *)
(* that came before it.                                                    *)
CopyFails(lines) == ~ (Items(lines) \subseteq Sold)

(* POST /checkout.                                                         *)
Submit(r) ==
  LET q     == request[r]
      b     == q.from
      touch == (IF CurrentUser(b) THEN {Account} ELSE {b}) \X Variants
      lines == IF CurrentUser(b) THEN EmptyLines ELSE jar[b]
  IN  /\ q.pc = "page"
      /\ IF Items(Visible(b)) = {} \/ CopyFails(lines)
         THEN /\ request' = [request EXCEPT ![r] = Done]
              /\ \E left \in SUBSET (Items(lines) \cap Sold) :
                   market' = [market EXCEPT !.kept = @ \cup left]
              /\ UNCHANGED disturbed
         ELSE /\ request' = [request EXCEPT ![r] =
                   [q EXCEPT !.pc = IF CurrentUser(b) THEN "cart" ELSE "commit",
                             !.kind = IF CurrentUser(b) THEN "checkout" ELSE "guest checkout",
                             !.lines = lines, !.touch = touch,
                             !.bill = SaleOf(lines, b, q.page.method)]]
              /\ disturbed' = disturbed \cup
                   {t \in touch : \E p \in Requests \ {r} : t \in Touched(request[p])}
              /\ UNCHANGED market
      /\ UNCHANGED <<carted, items, jar, signedIn, booked, added, used>>

(* A form with a mistake comes back, with the sale as it is by now.        *)
ShowAgain(r) ==
  LET q == request[r]
  IN  /\ q.pc = "page"
      /\ Items(Visible(q.from)) # {}
      /\ request' = [request EXCEPT ![r].page = SaleOf(Visible(q.from), q.from, q.page.method)]
      /\ UNCHANGED <<carted, items, jar, signedIn, market, booked, disturbed, added, used>>

(* CreateFromCart: the cart's lines are read first ...                     *)
ReadCart(r) ==
  /\ request[r].pc = "order"
  /\ request' = [request EXCEPT ![r].pc = IF Items(items) = {} THEN "reply" ELSE "commit",
                                ![r].lines = items]
  /\ UNCHANGED <<carted, items, jar, signedIn, market, booked, disturbed, added, used>>

(* ... priced, taken from the stock and ordered, and whatever is in the    *)
(* cart by now is deleted.  A guest's cookie is cleared with the reply.    *)
PlaceOrder(r) ==
  LET q == request[r]
      account == q.kind = "checkout"
  IN  /\ q.pc = "commit"
      /\ \A v \in Items(q.lines) :
           /\ v \in Sold /\ product[ProductOf[v]].status = "active"
           /\ variant[v].stock >= q.lines[v]
      /\ variant' = [v \in Variants |-> [variant[v] EXCEPT !.stock = @ - q.lines[v]]]
      /\ due' = Minus(due, q.lines)
      /\ items' = IF account THEN EmptyLines ELSE items
      /\ booked' = [booked EXCEPT ![IF account THEN Account ELSE q.from] = Minus(@, q.lines)]
      /\ market' = [market EXCEPT !.kept = @ \cup Items(q.lines)]
      /\ request' = [request EXCEPT ![r] = [q EXCEPT !.pc = "reply",
           !.cookie = IF account THEN NoCookie ELSE EmptyLines,
           !.bill = [@ EXCEPT !.lines = q.lines, !.price = Prices, !.rates = market.rates]]]
      /\ UNCHANGED <<carted, jar, signedIn, disturbed, added, used,
                      product, image, files, wished, errand, overwritten, spoiled, limit>>

(* Out of stock, a hidden product, an error: the transaction is undone and *)
(* a temporary cart stays behind.                                          *)
RefuseOrder(r) ==
  LET q == request[r]
  IN  /\ q.pc = "commit"
      /\ request' = [request EXCEPT ![r] = [q EXCEPT !.pc = "reply", !.bill = NoSale]]
      /\ market' = IF q.kind = "checkout" THEN market
                   ELSE [market EXCEPT !.kept = @ \cup Items(q.lines)]
      /\ UNCHANGED <<carted, items, jar, signedIn, booked, disturbed, added, used>>
-----------------------------------------------------------------------------
(* The browser gets the reply with its cookies.                            *)
Reply(r) ==
  LET q == request[r]
  IN  /\ q.pc = "reply"
      /\ jar' = IF q.cookie = NoCookie THEN jar ELSE [jar EXCEPT ![q.from] = q.cookie]
      /\ signedIn' = IF q.kind = "login" THEN CreateSession(q.from) ELSE signedIn
      /\ request' = [request EXCEPT ![r] = Done]
      /\ UNCHANGED <<carted, items, market, booked, disturbed, added, used>>

(* What is left half done: a cookie that never arrives, a merge that       *)
(* stops between two lines.                                                *)
Damage(q) ==
  (IF q.cookie # NoCookie THEN {q.from} \X Variants ELSE {})
    \cup (IF q.kind = "login" /\ q.pc \in {"read", "write"}
          THEN {Account} \X (Items(q.lines) \ q.todo) ELSE {})

(* The connection breaks, or the server stops.                             *)
Lose(r) ==
  LET q == request[r]
  IN  /\ Spend("lost")
      /\ q.pc \in InFlight
      /\ request' = [request EXCEPT ![r] = Done]
      /\ disturbed' = disturbed \cup Damage(q)
      /\ UNCHANGED <<carted, items, jar, signedIn, market, booked, added>>
-----------------------------------------------------------------------------
(* What goes on elsewhere; the back office is in Catalogue.                *)
Referenced ==
  {v \in Variants :
     \/ items[v] > 0 \/ v \in market.kept
     \/ \E r \in Requests :
          request[r].pc = "commit" /\ request[r].kind = "guest checkout" /\ request[r].lines[v] > 0}

(* The fx worker asks for rates.  An answer without any is an error; one   *)
(* with some overwrites these and leaves the others.                       *)
FetchRates == {t \in RateTables : \E c \in Currencies : t[c] # NoRate}
UpsertRates(new) ==
  market' = [market EXCEPT !.rates =
               [c \in Currencies |-> IF new[c] = NoRate THEN @[c] ELSE new[c]]]
TickRates == \E new \in FetchRates : UpsertRates(new)

(* A customer chooses a currency, one of those that may be shown.          *)
SetCurrency(b, c) == market' = [market EXCEPT !.pref[b] = c]
ChooseCurrency(b) == \E c \in DisplayCurrencies : SetCurrency(b, c)

Change ==
  /\ Spend("market")
  /\ TickRates \/ \E b \in Browsers : ChooseCurrency(b)
  /\ UNCHANGED <<carted, items, jar, signedIn, request, booked, disturbed, added>>
-----------------------------------------------------------------------------
(* The form of a product: one of its variants, and a number of units.      *)
ProductForm(r, b) ==
  \E v \in Variants, n \in Quantities :
    /\ variant[v].status # "new"
    /\ GuestAdd(r, b, v, n) \/ AccountAdd(r, b, v, n) \/ ApiAdd(r, b, v, n)

(* The forms of the cart page; a line need not be in the cart any more.    *)
CartForms(r, b) ==
  \E v \in Variants :
    /\ variant[v].status # "new"
    /\ \/ \E n \in Quantities : GuestUpdate(r, b, v, n)
       \/ AccountUpdate(r, b)
       \/ GuestRemove(r, b, v) \/ AccountRemove(r, b, v)

Shop(r, b) ==
  \/ ProductForm(r, b) \/ CartForms(r, b) \/ Login(r, b)
  \/ \E m \in Methods : OpenCheckout(r, b, m)

Serve(r) ==
  \/ GetCart(r) \/ CreateCart(r) \/ FindLine(r) \/ UpdateLine(r) \/ InsertLine(r)
  \/ InsertFails(r) \/ RemoveLine(r) \/ Submit(r) \/ ShowAgain(r) \/ ReadCart(r)
  \/ RefuseOrder(r) \/ Reply(r) \/ Lose(r)

CartsStep ==
  \/ \E r \in Requests : PlaceOrder(r)
  \/ /\ \/ \E r \in Requests : Serve(r) \/ \E b \in Browsers : Shop(r, b)
        \/ \E b \in Browsers : EndSession(b)
        \/ Change
     /\ UNCHANGED officeVars
-----------------------------------------------------------------------------
Contents(p) == IF p = Account THEN items ELSE jar[p]

(* Units move from a browser's cookie to the account and from there, or    *)
(* from the shelf, to an order, and are neither lost nor doubled.  A line  *)
(* of a cart holds what was added to it and merged into it, less what was  *)
(* removed and ordered, unless two requests overlapped on that very line,  *)
(* or a cookie or half of a merge was lost on the way; and however         *)
(* requests interleave, stop and repeat, a line of the account's cart or   *)
(* of its order never holds more than AddItem was called with: stale sums  *)
(* lose units and never invent one.  The stock is what was put on the      *)
(* shelf less what was ordered, and not less than nothing, unless a form   *)
(* of the back office has written back a level that it had shown before.   *)
UnitsAccounted ==
  /\ \A p \in Places, v \in Variants :
       \/ <<p, v>> \in disturbed
       \/ \E r \in Requests : <<p, v>> \in Touched(request[r])
       \/ Contents(p)[v] = booked[p][v]
  /\ \A v \in Variants :
       /\ items[v] <= added[v]
       /\ \A r \in Requests : request[r].kind = "checkout" => request[r].lines[v] <= added[v]
       /\ v \in overwritten \/ (variant[v].stock = due[v] /\ due[v] >= 0)

Distance(a, b) == IF a < b THEN b - a ELSE a - b

(* An order charges what the checkout page has shown, if the cart, the     *)
(* prices, the rates and the currency are as they were: in the currency of *)
(* the page whenever that one can be charged and has a rate above zero, up *)
(* to half a cent for every amount that is rounded on the way, be it the   *)
(* line of the order or a unit on the page of its product; and its own     *)
(* amounts add up as closely.  Otherwise it charges the base currency, not *)
(* converted, although the page may have named another one; the figures of *)
(* the page are then the same if that currency has no rate, and without    *)
(* the shipping if its rate is zero.                                       *)
ChargedAsShown ==
  \A r \in Requests :
    LET q     == request[r]
        shown == PageTotal(q.page)
        order == OrderTotal(q.bill)
        n     == Cardinality(Items(q.bill.lines))
    IN  q.pc = "reply" /\ q.bill # NoSale =>
          /\ 2 * Distance(order.subtotal + order.shipping, order.total) <= 3
          /\ 2 * Distance(order.subtotal,
                          SumFunctionOnSet(order.lines, Items(q.bill.lines))) <= n + 1
          /\ q.bill = q.page =>
               IF shown.currency \in ChargeCurrencies /\ Usable(DisplayRate(q.page))
               THEN /\ order.currency = shown.currency
                    /\ 2 * Distance(order.total, shown.total) <= n + 2
                    /\ \A v \in Items(q.bill.lines) :
                         2 * Distance(order.lines[v], q.bill.lines[v] * UnitShown(q.page, v))
                           <= q.bill.lines[v] + 1
               ELSE /\ order.currency = Base
                    /\ order.total = BaseSubtotal(q.bill) + ShippingCents[q.bill.method]
                    /\ DisplayRate(q.page) = NoRate => shown.total = order.total
                    /\ ~ Usable(DisplayRate(q.page)) /\ DisplayRate(q.page) # NoRate =>
                         shown.total = BaseSubtotal(q.bill)
=============================================================================
