----------------------------- MODULE MCRoleStore -----------------------------
(* RoleStore with one person, two roles of one grant each, and the two roles  *)
(* an unbound person may fall back to.                                        *)
EXTENDS RoleStore, TLC

MCDefaultFor == [u \in {"ann"} |-> "user"]
=============================================================================
