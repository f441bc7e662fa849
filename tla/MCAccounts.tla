----------------------------- MODULE MCAccounts -----------------------------
(* Instances of Accounts.                                                  *)
EXTENDS Accounts, TLC

CONSTANTS u1, u2, u3, u4, c1, c2, guest, admin, old, new, nobody, unset

Row(r, e) == [role |-> r, email |-> e, password |-> old, otp |-> 0]

AdminAndGuest == u1 :> Row("admin", admin) @@ u2 :> Row("editor", guest)

EveryActivity ==
    {"login", "guest", "update", "create", "import", "defaults", "delete", "clear",
     "assign", "profile", "password", "forgot", "reset", "expiry"}
=============================================================================
