---------------------------- MODULE MCEnvScaffold ----------------------------
(* A lab of two hosts out of a reference of four: ws01 belongs to the base *)
(* lab only, elk to no lab; DC01 differs from dc01 by case.                *)
EXTENDS EnvScaffold
CreatorSymmetry == Permutations(Creators)
MCLower == [h \in Hosts |-> IF h = "DC01" THEN "dc01" ELSE h]
Line(addr) == [addr |-> addr, first |-> TRUE, conn |-> None, pw |-> "stock"]
MCCanonical ==
    [hosts |-> [h \in {} |-> None],
     groups |-> [g \in Groups |-> IF g = "dc" THEN {"dc01"} ELSE {"dc01", "srv02"}],
     vars |-> [v \in {"domain_name", "admin_user"} |-> IF v = "admin_user" THEN "adm" ELSE "variant"]]
(* A whole reference, and one whose groups and variables lag behind. *)
Whole == [hosts |-> [h \in {"dc01", "srv02", "ws01", "elk"} |-> Line(IF h = "elk" THEN "10.9" ELSE "i-9")],
          groups |-> [g \in Groups |-> IF g = "dc" THEN {"dc01"} ELSE {"dc01", "srv02", "ws01"}],
          vars |-> [v \in {"domain_name", "admin_user"} |-> "adm"]]
Lagging == [hosts |-> [h \in {"DC01", "srv02", "ws01"} |-> Line("i-9")],
            groups |-> [g \in {"domain"} |-> {"DC01"}],
            vars |-> [v \in {} |-> None]]
MCRequests ==
    {r \in [force : BOOLEAN, variant : BOOLEAN, plan : Plans, azure : BOOLEAN, reference : {Whole, Lagging}] :
        /\ r.variant => r.plan = "goad"
        /\ r.plan = "template" => r.reference = Whole /\ ~r.force
        /\ r.azure => r.reference = Whole /\ ~r.force /\ r.plan = "goad"}
=============================================================================
