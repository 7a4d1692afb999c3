-------------------------------- MODULE MCCms --------------------------------
(***************************************************************************)
(* A small instance of Cms: texts "a" and "b" render differently, and the  *)
(* database already holds a page without a tenant, in a category.          *)
(***************************************************************************)
EXTENDS Cms, TLC

MCHtml == "a" :> "html1" @@ "b" :> "html2"

MCInit ==
    /\ tenants = Tenants
    /\ entry = [i \in EntryIds |->
                  IF i = 1 THEN [kind |-> "page", tenant |-> None, slug |-> "s1", md |-> "a",
                                 html |-> Render("a"), deleted |-> FALSE]
                  ELSE NoRow]
    /\ label = [l \in LabelIds |-> IF l = 1 THEN [kind |-> "category", tenant |-> None] ELSE NoRow]
    /\ links = {<<1, 1>>}
    /\ lastEntry = 1 /\ lastLabel = 1
    /\ sess = [w \in Workers |-> Idle]
    /\ default \in [Workers -> Tenants \cup {None}]
    /\ served = 0
    /\ raced = {}

MCSpec == MCInit /\ [][Next]_vars

Symmetry == Permutations(Workers)

=============================================================================
