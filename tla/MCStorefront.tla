---------------------------- MODULE MCStorefront ----------------------------
(* A small instance of Storefront for TLC. *)
EXTENDS Storefront, TLC

CONSTANTS u1, u2, e1, w1, w2, p1, p2, h1, h2, b1, t1, t2, vase, mug, lamp

TwoAccounts == {u1, u2}
OneEmail == {e1}
TwoPasswords == {w1, w2}
TwoPurposes == {p1, p2}
AllPurposes == {TwoPurposes}
TwoHandlers == {h1, h2}
OneBrowser == {b1}
TwoTills == {t1, t2}
MCProducts == {vase, mug, lamp}
MCCatalog == <<vase, mug>>
MCSeedStock == [p \in MCProducts |-> IF p = vase THEN 2 ELSE 1]
BothProcesses == {"storefront", "admin"}
MCStaffStocks == {-1, 1}
AllFaults == {"db", "crash", "loss"}

(* Two processes that seed; accounts and privacy; accounts over restarts and  *)
(* reloads; shopping while staff change the stock; shopping over restarts.    *)
SeedingWork == [kinds |-> BothProcesses \cup {"crash"}, atOnce |-> 0,
                passwords |-> {}]
PrivacyWork ==
  [kinds |-> {"storefront", "signup", "login", "privacy", "db"}, atOnce |-> 2,
   passwords |-> {w1}]
LoginWork ==
  [kinds |-> {"storefront", "signup", "login", "crash", "db", "reload"}, atOnce |-> 2,
   passwords |-> TwoPasswords]
StockWork == [kinds |-> BothProcesses \cup {"signup", "checkout", "db"}, atOnce |-> 1,
   passwords |-> {w1}]
ReloadWork ==
  [kinds |-> {"storefront", "signup", "checkout", "crash", "reload"}, atOnce |-> 1,
   passwords |-> {w1}]
MCWorkloads == {SeedingWork, PrivacyWork, LoginWork, StockWork, ReloadWork}

Interchangeable ==
  Permutations(TwoAccounts) \cup Permutations(TwoPurposes) \cup Permutations(TwoHandlers)
    \cup Permutations(TwoTills)
=============================================================================
