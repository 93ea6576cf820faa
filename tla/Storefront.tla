----------------------------- MODULE Storefront -----------------------------
(***************************************************************************)
(* The shop that customers see: carts and checkouts over the catalogue     *)
(* while the back office changes it, visitors who walk through its lists,  *)
(* the wishlist of the account.                                            *)
(***************************************************************************)
EXTENDS Carts, Listings

storefrontVars == <<cartsVars, officeVars, used, order, walk>>

StorefrontInit == CatalogueInit /\ ListingsInit /\ CartsInit

(* The wishlist is for members.                                            *)
Wish ==
  /\ \E b \in Browsers : signedIn[b]
  /\ Spend("office")
  /\ \E p \in Products : AddWish(p) \/ RemoveWish(p)

StorefrontNext ==
  \/ \E k \in Walks : Browse(k) /\ UNCHANGED cartsVars
  \/ /\ \/ CartsStep /\ UNCHANGED order
        \/ /\ \/ (\E e \in Errands : RunErrand(e)) /\ UNCHANGED order
              \/ Office(Referenced) /\ UNCHANGED order
              \/ Wish /\ UNCHANGED order
              \/ OrdersMove
           /\ UNCHANGED cartsVars
     /\ Watch

StorefrontSpec == StorefrontInit /\ [][StorefrontNext]_storefrontVars

(* The parts have their types, and the rows that refer to each other are   *)
(* there: what the account's cart holds is still in the catalogue.         *)
StorefrontTypeOK ==
  /\ CatalogueTypeOK /\ ListingsTypeOK /\ CartsTypeOK
  /\ Items(items) \subseteq Sold
=============================================================================
