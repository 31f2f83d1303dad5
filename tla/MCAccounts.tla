------------------------------ MODULE MCAccounts ------------------------------
(* Small instances of Accounts for TLC. *)
EXTENDS Accounts, TLC

CONSTANTS h1, h2

Handlers == {h1, h2}
Users == {1, 2}
Limits == 1 :> 1 @@ 2 :> 1 @@ 0 :> 2

Admin == [NoOne EXCEPT !.there = TRUE, !.role = "Admin", !.status = "Active", !.pw = 1]
Guarded == [Admin EXCEPT !.totp = 1, !.codes = 1, !.left = TRUE]
Pending == [Admin EXCEPT !.pending = 1]
Waiting == [NoOne EXCEPT !.there = TRUE]

Member == [Admin EXCEPT !.role = "User"]

\* The clock runs where codes are judged.
Codes == {"mfa", "enable", "disable", "regenerate"}
Scene(a, b, k) == [users |-> 1 :> a @@ 2 :> b, signed |-> {1},
                   clock |-> IF k \cap Codes = {} THEN MaxStep ELSE 1, kinds |-> k]
Both(scene) == [scene EXCEPT !.signed = {1, 2}]

\* The second factor; links and passwords; rows and roles.
SmallScenes ==
    {Scene(Guarded, NoOne, {"login", "mfa", "adminreset"}),
     Scene([Guarded EXCEPT !.codes = 0, !.left = FALSE], NoOne, {"disable"}),
     Scene(Guarded, NoOne, {"regenerate"}),
     Scene(Pending, NoOne, {"setup", "enable"}),
     Scene(Admin, Waiting, {"forgot", "reset", "complete"}),
     Scene(Admin, Waiting, {"invite", "edit", "complete"}),
     Scene(Admin, NoOne, {"login", "forgot", "complete"}),
     Scene(Admin, Admin, {"own", "edit", "delete"}),
     Both(Scene(Admin, Member, {"own", "edit"})),
     Scene(Admin, Waiting, {"oauth", "edit", "delete"}),
     Scene(Admin, NoOne, {"oauth", "create", "complete"})}
Symmetry == Permutations(Handlers)
=============================================================================
