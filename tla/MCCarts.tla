------------------------------- MODULE MCCarts -------------------------------
(* Storefront for TLC.                                                      *)
EXTENDS Storefront

CONSTANTS v1, v2, v3, r1, r2, r3, base, foreign, p1, p2, p3, e1, e2, o1, o2, o3,
          shoes, bags

MCProductOf == v1 :> p1 @@ v2 :> p2 @@ v3 :> p1
MCRow(status, born) == [status |-> status, named |-> TRUE, born |-> born]
\* Two products, of one time of creation or not; and three of them.
MCProducts(rows) ==
  p1 :> MCRow("active", IF rows = "tied" THEN 1 ELSE 2) @@ p2 :> MCRow("active", 1)
    @@ p3 :> MCRow(IF rows = "three" THEN "active" ELSE "new", 0)
MCStock == v1 :> 2 @@ v2 :> 1 @@ v3 :> 0
MCPrices == v1 :> {333, 350} @@ v2 :> {1001} @@ v3 :> {1200}
MCScenario(requests, errands, walks, lost, changes, office, driver, rows) ==
  [products |-> MCProducts(rows),
   wished |-> IF rows = "three" THEN <<p3, p1>> ELSE <<>>, driver |-> driver, requests |-> requests,
   errands |-> errands, walks |-> walks, lost |-> lost, market |-> changes, office |-> office]
MCScenarios ==
  {MCScenario(3, 0, 0, 1, 1, 0, "local", "two"), MCScenario(2, 1, 0, 0, 0, 0, "local", "two"),
   MCScenario(2, 0, 0, 0, 0, 1, "local", "two"),
   MCScenario(0, 2, 0, 1, 0, 1, "local", "two"), MCScenario(0, 2, 0, 1, 0, 1, "s3", "two"),
   MCScenario(0, 1, 1, 0, 0, 0, "local", "three"), MCScenario(0, 0, 1, 0, 0, 1, "local", "two"),
   MCScenario(0, 0, 1, 0, 0, 1, "local", "three"), MCScenario(0, 0, 1, 0, 0, 1, "local", "tied")}
MCPageSize == [list \in Lists |-> IF list = "products" THEN 2 ELSE 1]
MCCategoryOf == p1 :> shoes @@ p2 :> bags @@ p3 :> NoCategory
MCIdRank == p1 :> 2 @@ p2 :> 1 @@ p3 :> 3
MCFilters == {NoFilter, [NoFilter EXCEPT !.min = 1100, !.max = 340, !.query = TRUE],
              [NoFilter EXCEPT !.inStock = TRUE, !.category = shoes]}
MCStatuses == {"created", "paid"}
MCOrder(status, born) == [status |-> status, mine |-> born < 3, born |-> born]
MCOrders == o1 :> MCOrder("created", 1) @@ o2 :> MCOrder("paid", 2) @@ o3 :> MCOrder(NoStatus, 0)
MCRateTables == {base :> NoRate @@ foreign :> NoRate,
                 base :> NoRate @@ foreign :> [num |-> 7, den |-> 20],
                 base :> NoRate @@ foreign :> [num |-> 0, den |-> 1]}
MCShipping == [m \in Methods |-> IF m = "express" THEN 1500 ELSE 500]
Symmetry == Permutations(Requests)
=============================================================================
