----------------------------- MODULE MCAccounts -----------------------------
(***************************************************************************)
(* Instances of Accounts for TLC.  Wallet "cold" is in the second store,   *)
(* "shared" is distributed, "late" is created while the server runs, and   *)
(* the passphrase of "sealed" is not known.                                *)
(***************************************************************************)
EXTENDS Accounts

CONSTANTS g1, g2, k1, k2, k3

MCClients  == {"admin", "validator", "stranger"}
MCWallets  == {"main", "cold", "shared", "late", "sealed"}
MCNames    == {"a", "b"}
MCKeys     == {k1, k2, k3}
MCOperations == {"Access account", "Sign", "Create account", "Lock wallet",
                 "Unlock wallet"}

Yes(o) == [negative |-> FALSE, operation |-> o]
No(o)  == [negative |-> TRUE, operation |-> o]
Permit(w, accounts, operations) ==
  [wallet |-> w, account |-> accounts, operations |-> operations]

\* The validator's paths overlap on main/a, where they agree about access,
\* only the second speaks of signing, and they contradict each other about
\* creation.
MCConfigured ==
  [c \in {"admin", "validator"} |->
     IF c = "admin"
     THEN {Permit({"main", "late", "sealed"}, Blank,
             << No("Sign"), Yes(AnyOp) >>)}
     ELSE {Permit({"main"}, {"a"},
             << Yes("Access account"), Yes("Create account") >>),
           Permit({"main", "cold", "shared"}, Blank,
             << Yes("Sign"), Yes("Access account"), No(AnyOp) >>)}]

On(w, n, k) == [wallet |-> w, name |-> n, key |-> k]

\* One key is in two wallets.
MCAccounts == {On("main", "a", k1), On("cold", "b", k1)}

Generate(c, w, n) == [kind |-> "Generate", client |-> c, wallet |-> w, name |-> n]
Commit(c, w, n) == [kind |-> "Commit", client |-> c, wallet |-> w, name |-> n]
Find(c, path, o) ==
  [kind |-> "ByName", client |-> c, name |-> path, operation |-> o]
FindKey(c, k, o) ==
  [kind |-> "ByKey", client |-> c, key |-> k, operation |-> o]
List(c, paths) == [kind |-> "ListAccounts", client |-> c, paths |-> paths]
Wallet(kind, c, ok) ==
  [kind |-> kind, client |-> c, wallet |-> "main", passphraseOK |-> ok]

MCRequests ==
  {Generate("admin", "main", "b"), Generate("validator", "main", "b"),
   Generate("admin", "late", "a"), Generate("admin", "sealed", "a"),
   Commit("peer", "shared", "a"), Commit("peer", "main", "b"),
   Commit("validator", "shared", "b"),
   Find("validator", <<"main", "b">>, "Sign"),
   Find("admin", <<"main", "b">>, "Sign"),
   List("validator", << [wallet |-> "main", accounts |-> Blank],
                        [wallet |-> "shared", accounts |-> {"a"}] >>),
   Wallet("Unlock", "admin", TRUE), Wallet("Unlock", "validator", TRUE),
   Wallet("Unlock", "admin", FALSE), Wallet("Lock", "admin", TRUE)}
  \cup {FindKey("validator", k, "Sign") : k \in MCKeys}

\* No key but k1 is named in the initial state.
Symmetry == Permutations({g1, g2}) \cup Permutations({k2, k3})
=============================================================================
