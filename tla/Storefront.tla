----------------------------- MODULE Storefront -----------------------------
(***************************************************************************)
(* The storefront and its staff: on top of the accounts, the seeding of    *)
(* db.ts by the processes that share one PostgreSQL, checkout in server.ts *)
(* with the cart of public/app.js, and the stock of admin-server.ts.       *)
(*                                                                         *)
(* Statements are steps, as in StoreAccounts.  A checkout decrements the   *)
(* stock item by item and inserts its order last, in separate              *)
(* transactions; so does the seeding with its rows.                        *)
(***************************************************************************)
EXTENDS StoreAccounts, Integers, Sequences, FiniteSets, Functions

CONSTANTS
  Products,     \* product ids
  Catalog,      \* the sequence of products that seeding inserts
  SeedStock,    \* the stock it gives them
  Processes,    \* the APP_MODEs under way: "storefront", "admin"
  Tills,        \* checkouts under way at once
  StaffStocks,  \* the stock that staff enter, which nothing keeps above zero
  MaxUnits,     \* bound on the units a browser chooses
  MaxOrders,    \* bound on the checkouts ever begun
  MaxEdits,     \* bound on the changes of stock by staff
  Workloads     \* what the clients of one behaviour do, see Init

ASSUME StorefrontAssumption ==
  /\ Catalog \in Seq(Products) /\ Catalog # <<>>
  /\ \A i, j \in DOMAIN Catalog : Catalog[i] = Catalog[j] => i = j
  /\ IsFiniteSet(Products) /\ SeedStock \in [Products -> Nat]
  /\ IsFiniteSet(Tills) /\ "none" \notin Browsers
  /\ {"storefront", "admin"} \subseteq Processes
  /\ StaffStocks \subseteq Int
  /\ MaxUnits \in Nat /\ MaxOrders \in Nat /\ MaxEdits \in Nat
  /\ \A w \in Workloads : w.passwords \subseteq Passwords

VARIABLES
  workload,
  server,     \* how far each process has started
  staff,      \* the rows seeded for the store manager
  listed,     \* the products in the products table
  stock,      \* their stock
  cart,       \* the cart of each browser
  seen,       \* the stock each browser saw last
  checkout,   \* what each till is doing
  orders,     \* the rows of orders
  begun,      \* how many checkouts were begun
  edits,      \* how often staff changed the stock
  shelved,    \* history: the stock of a product that was last set, and what
              \* checkouts had taken of it by then
  abandoned,  \* history: the units taken by checkouts that failed
  chosen,     \* history: the units each browser put into its cart for good
  unsure,     \* history: the browsers that may have bought a cart twice
  seedCut     \* history: a seeding was stopped half way

bootVars == <<workload, server, staff, listed, shelved, seedCut>>
cartVars == <<cart, seen, begun, chosen, unsure>>
saleVars == <<checkout, orders, abandoned, edits>>
ordersVars == <<bootVars, cartVars, saleVars, stock>>
vars == <<accountsVars, ordersVars>>

-----------------------------------------------------------------------------
NoItems == [p \in Products |-> 0]

(* A checkout: who clicked, which page still awaits its answer, the items and *)
(* those whose stock was not taken yet.                                       *)
Closed == [at |-> "CLOSED", shopper |-> "none", browser |-> "none",
           items |-> NoItems, left |-> {}]
Down == [at |-> "DOWN", next |-> 1]

Up(x) == server[x].at = "UP"

(* Every behaviour starts with empty tables and no process; the requests of  *)
(* its clients are of the kinds and enter the passwords of its workload,     *)
(* which also bounds how many are with the accounts at once.                 *)
Init ==
  /\ AccountsInit
  /\ workload \in Workloads
  /\ server = [x \in Processes |-> Down]
  /\ staff = {}
  /\ listed = {}
  /\ stock = NoItems
  /\ cart = [b \in Browsers |-> NoItems]
  /\ seen = [b \in Browsers |-> NoItems]
  /\ checkout = [t \in Tills |-> Closed]
  /\ orders = {}
  /\ begun = 0
  /\ edits = 0
  /\ shelved = [p \in Products |-> [units |-> 0, taken |-> 0]]
  /\ abandoned = NoItems
  /\ chosen = [b \in Browsers |-> NoItems]
  /\ unsure = {}
  /\ seedCut = FALSE

Asked(kind) == kind \in workload.kinds
Accepts(kind) ==
  /\ Asked(kind)
  /\ Cardinality({h \in Handlers : request[h] # Idle}) < workload.atOnce

-----------------------------------------------------------------------------
(* seedInitialProductsAndAdmin, in every process that starts.              *)

Boots(x, at) == server' = [server EXCEPT ![x] = [Down EXCEPT !.at = at]]

(* A duplicate key rejects start, and the process exits. *)
Exits(x) == Boots(x, "DOWN")

seedRest == <<accountsVars, cartVars, saleVars, workload, seedCut>>

(* The loop over the catalogue ends before its last product. *)
LastButOne(x) == server[x].next + 1 >= Len(Catalog)

LastProduct(x) == server[x].next = Len(Catalog)

(* SELECT id FROM products LIMIT 1: any row will do. *)
StartSeeding(x) ==
  /\ Asked(x)
  /\ server[x].at = "DOWN"
  /\ Boots(x, IF listed = {} THEN "PRODUCTS" ELSE "EMPLOYEES")
  /\ UNCHANGED <<seedRest, staff, listed, stock, shelved>>

(* The INSERT of the next product of the catalogue. *)
SeedProduct(x) ==
  /\ server[x].at = "PRODUCTS"
  /\ LET p == Catalog[server[x].next]
     IN  \/ /\ p \in listed
            /\ Exits(x)
            /\ UNCHANGED <<listed, stock, shelved>>
         \/ /\ p \notin listed
            /\ listed' = listed \cup {p}
            /\ stock' = [stock EXCEPT ![p] = SeedStock[p]]
            /\ shelved' = [shelved EXCEPT ![p] = [units |-> SeedStock[p], taken |-> 0]]
            /\ IF LastProduct(x) THEN Boots(x, "EMPLOYEES")
               ELSE server' = [server EXCEPT ![x].next = @ + 1]
  /\ UNCHANGED <<seedRest, staff>>

(* SELECT id FROM employees LIMIT 1; who finds one listens. *)
SelectEmployees(x) ==
  /\ server[x].at = "EMPLOYEES"
  /\ Boots(x, IF "employee" \in staff THEN "UP" ELSE "EMPLOYEE")
  /\ UNCHANGED <<seedRest, staff, listed, stock, shelved>>

(* The INSERTs of the employee and of the credentials, one by one. *)
SeedStaff(x, at, row, next) ==
  /\ server[x].at = at
  /\ \/ row \in staff /\ Exits(x) /\ UNCHANGED staff
     \/ row \notin staff /\ Boots(x, next) /\ staff' = staff \cup {row}
  /\ UNCHANGED <<seedRest, listed, stock, shelved>>

SeedEmployee(x) == SeedStaff(x, "EMPLOYEE", "employee", "CREDENTIALS")
SeedCredentials(x) == SeedStaff(x, "CREDENTIALS", "credentials", "UP")

-----------------------------------------------------------------------------
(* A shopper's browser.                                                    *)

(* fetchCatalog, every three seconds. *)
FetchCatalog(b) ==
  /\ Asked("checkout")
  /\ Up("storefront")
  /\ seen' = [seen EXCEPT ![b] = stock]
  /\ UNCHANGED <<accountsVars, bootVars, saleVars, stock, cart, begun, chosen, unsure>>

(* addToCart goes by the stock that was seen, however old that is. *)
AddToCart(b, p) ==
  /\ cart[b][p] < seen[b][p]
  /\ SumFunction(chosen[b]) < MaxUnits
  /\ cart' = [cart EXCEPT ![b][p] = @ + 1]
  /\ chosen' = [chosen EXCEPT ![b][p] = @ + 1]
  /\ UNCHANGED <<accountsVars, bootVars, saleVars, stock, seen, begun, unsure>>

Buying(b) == \E t \in Tills : checkout[t].browser = b

(* What was chosen for good once the cart of b becomes c: units that leave   *)
(* the cart while a checkout is under way may have been bought.              *)
ChosenWith(b, c) ==
  IF Buying(b) THEN chosen
  ELSE [chosen EXCEPT ![b] = [p \in Products |-> @[p] - (cart[b][p] - c[p])]]

RemoveFromCart(b, p) ==
  /\ cart[b][p] > 0
  /\ cart' = [cart EXCEPT ![b][p] = 0]
  /\ chosen' = ChosenWith(b, cart'[b])
  /\ UNCHANGED <<accountsVars, bootVars, saleVars, stock, seen, begun, unsure>>

(* A page that is left forgets its cart and the answers it waits for. *)
PageLeft(b) ==
  /\ cart' = [cart EXCEPT ![b] = NoItems]
  /\ chosen' = ChosenWith(b, NoItems)
  /\ checkout' = [t \in Tills |-> IF checkout[t].browser = b
                                  THEN [checkout[t] EXCEPT !.browser = "none"]
                                  ELSE checkout[t]]
  /\ UNCHANGED <<bootVars, stock, seen, begun, unsure, orders, abandoned, edits>>

Reload(b) ==
  /\ Asked("reload")
  /\ LogoutCustomer(b) \/ CheckExistingSession(b)
  /\ PageLeft(b)

(* checkoutCart posts the cart as it is and leaves it in place meanwhile. *)
CheckoutCart(b, t) ==
  /\ Up("storefront")
  /\ page[b].shown # "none"
  /\ checkout[t] = Closed
  /\ cart[b] # NoItems
  /\ begun < MaxOrders
  /\ begun' = begun + 1
  /\ checkout' = [checkout EXCEPT ![t] =
       [at |-> "TAKING", shopper |-> b, browser |-> b, items |-> cart[b],
        left |-> {p \in Products : cart[b][p] > 0}]]
  /\ unsure' = IF Buying(b) THEN unsure \cup {b} ELSE unsure
  /\ UNCHANGED <<accountsVars, bootVars, stock, cart, seen, chosen, orders, abandoned, edits>>

-----------------------------------------------------------------------------
(* POST /api/cart/checkout.                                                *)

tillRest == <<accountsVars, bootVars, seen, begun, chosen, edits>>

(* A decrement that may go below zero. *)
LessUnbounded(p, n) == [stock EXCEPT ![p] = @ - n]

(* GREATEST(0, stock - qty), which also makes zero of what was below it. *)
Less(p, n) == [stock EXCEPT ![p] = IF @ < n THEN 0 ELSE @ - n]

(* The UPDATE of one item.  The items of a cart are in the order they were   *)
(* chosen in, which may be any.                                              *)
TakeItem(t, p) ==
  /\ p \in checkout[t].left
  /\ stock' = Less(p, checkout[t].items[p])
  /\ checkout' = [checkout EXCEPT ![t].left = @ \ {p}]
  /\ UNCHANGED <<tillRest, cart, orders, abandoned, unsure>>

(* An answer that leaves the cart to its owner. *)
CartKept(t) == cart

(* An answer that takes off the cart what was ordered, though it may have     *)
(* been removed since the click.                                              *)
CartLessOrdered(t) ==
  LET b == checkout[t].browser
  IN  IF b = "none" THEN cart
      ELSE [cart EXCEPT ![b] = [p \in Products |-> @[p] - checkout[t].items[p]]]

(* `cart = []', whatever was added since the click. *)
CartEmptied(t) ==
  IF checkout[t].browser = "none" THEN cart
  ELSE [cart EXCEPT ![checkout[t].browser] = NoItems]

(* The INSERT of the order and its answer.  A lost one leaves the cart in    *)
(* place, and its owner wondering.                                           *)
InsertOrder(t) ==
  /\ checkout[t].at = "TAKING"
  /\ checkout[t].left = {}
  /\ orders' = orders \cup {[id |-> Cardinality(orders) + 1,
                             shopper |-> checkout[t].shopper,
                             items |-> checkout[t].items]}
  /\ \/ cart' = CartEmptied(t) /\ UNCHANGED unsure
     \/ /\ "loss" \in Faults
        /\ unsure' = unsure \cup {checkout[t].shopper}
        /\ UNCHANGED cart
  /\ checkout' = [checkout EXCEPT ![t] = Closed]
  /\ UNCHANGED <<tillRest, stock, abandoned>>

(* The units of p that the checkouts of T have taken. *)
TakenBy(T, p) ==
  SumFunction([t \in {u \in T : p \notin checkout[u].left} |-> checkout[t].items[p]])

(* The checkouts of T fail now: nothing puts back what they have taken. *)
AbandonedWith(T) ==
  [p \in Products |-> abandoned[p] + TakenBy(T, p)]

(* A statement fails; the cart stays. *)
CheckoutFails(t) ==
  /\ "db" \in Faults /\ Asked("db")
  /\ checkout[t].at = "TAKING"
  /\ abandoned' = AbandonedWith({t})
  /\ checkout' = [checkout EXCEPT ![t] = Closed]
  /\ UNCHANGED <<tillRest, stock, cart, orders, unsure>>

-----------------------------------------------------------------------------
(* The admin portal.                                                       *)

(* The units of p that checkouts took: ordered, on the way to an order, or   *)
(* abandoned.                                                                *)
Ordered(p) == SumFunction([o \in orders |-> o.items[p]])
Held(p) == TakenBy({t \in Tills : checkout[t].at = "TAKING"}, p)
Taken(p) == Ordered(p) + Held(p) + abandoned[p]

(* parseInt of what was entered, any integer: neither the portal nor the      *)
(* table refuses one below zero.  What is no number the database refuses.     *)
Shelve(p, n) ==
  /\ Asked("admin")
  /\ Up("admin")
  /\ edits < MaxEdits
  /\ edits' = edits + 1
  /\ stock' = [stock EXCEPT ![p] = n]
  /\ shelved' = [shelved EXCEPT ![p] = [units |-> n, taken |-> Taken(p)]]
  /\ UNCHANGED <<accountsVars, cartVars, workload, server, staff, seedCut,
                 checkout, orders, abandoned>>

(* PUT update-stock: the number entered replaces the stock, whatever was sold *)
(* since staff read it.                                                       *)
UpdateStock(p, n) == p \in listed /\ Shelve(p, n) /\ UNCHANGED listed

(* POST inventory/add: a product with a new id. *)
AddProduct(p, n) ==
  /\ p \notin listed
  /\ \A i \in DOMAIN Catalog : Catalog[i] # p
  /\ Shelve(p, n)
  /\ listed' = listed \cup {p}

-----------------------------------------------------------------------------
(* The processes stop: with the storefront its handlers and sessions.      *)

Seeding(x) == server[x].at \in {"PRODUCTS", "EMPLOYEE", "CREDENTIALS"}

Crash(x) ==
  /\ Asked("crash")
  /\ server[x].at # "DOWN"
  /\ server' = [server EXCEPT ![x] = Down]
  /\ seedCut' = (seedCut \/ Seeding(x))
  /\ IF x = "storefront"
     THEN /\ AccountsCrash
          /\ abandoned' = AbandonedWith({t \in Tills : checkout[t].at = "TAKING"})
          /\ checkout' = [t \in Tills |-> Closed]
     ELSE UNCHANGED <<accountsVars, abandoned, checkout>>
  /\ UNCHANGED <<workload, staff, listed, shelved, cartVars, stock, orders, edits>>

AccountRequest ==
  \/ \E h \in Handlers, b \in Browsers, e \in Emails, w \in workload.passwords, P \in Consents :
        Accepts("signup") /\ SignupSelect(h, b, e, w, P)
  \/ \E h \in Handlers : SignupInsert(h)
  \/ \E h \in Handlers : SetPassword(h)
  \/ \E h \in Handlers : SignupUser(h)
  \/ \E h \in Handlers, b \in Browsers, e \in Emails, w \in workload.passwords :
        Accepts("login") /\ LoginUser(h, b, e, w)
  \/ \E h \in Handlers : LoginCredentials(h)
  \/ \E t \in Tokens : Asked("login") /\ VerifySession(t)
  \/ \E h \in Handlers, u \in Accounts, p \in Purposes :
        Accepts("privacy") /\ WithdrawSelect(h, u, p)
  \/ \E h \in Handlers : WithdrawUpdate(h)
  \/ \E u \in Accounts : Asked("privacy") /\ Erase(u)
  \/ \E h \in Handlers : Asked("db") /\ StatementFails(h)

Next ==
  \/ \E x \in Processes : StartSeeding(x)
  \/ \E x \in Processes : SeedProduct(x)
  \/ \E x \in Processes : SelectEmployees(x)
  \/ \E x \in Processes : SeedEmployee(x)
  \/ \E x \in Processes : SeedCredentials(x)
  \/ \E x \in Processes : Crash(x)
  \/ Up("storefront") /\ AccountRequest /\ UNCHANGED ordersVars
  \/ \E b \in Browsers : Reload(b)
  \/ \E b \in Browsers : FetchCatalog(b)
  \/ \E b \in Browsers, p \in Products : AddToCart(b, p)
  \/ \E b \in Browsers, p \in Products : RemoveFromCart(b, p)
  \/ \E b \in Browsers, t \in Tills : CheckoutCart(b, t)
  \/ \E t \in Tills, p \in Products : TakeItem(t, p)
  \/ \E t \in Tills : InsertOrder(t)
  \/ \E t \in Tills : CheckoutFails(t)
  \/ \E p \in Products, n \in StaffStocks : UpdateStock(p, n)
  \/ \E p \in Products, n \in StaffStocks : AddProduct(p, n)

Spec == Init /\ [][Next]_vars

-----------------------------------------------------------------------------
(* Properties.                                                             *)

(* The values the tables, the tills and the carts can hold. *)
TypeOK ==
  /\ AccountsTypeOK
  /\ server \in [Processes -> [next : 1..Len(Catalog),
        at : {"DOWN", "PRODUCTS", "EMPLOYEES", "EMPLOYEE", "CREDENTIALS", "UP"}]]
  /\ staff \subseteq {"employee", "credentials"}
  /\ listed \subseteq Products
  /\ stock \in [Products -> Int]
  /\ cart \in [Browsers -> [Products -> 0..MaxUnits]]
  /\ seen \in [Browsers -> [Products -> Int]]
  /\ checkout \in [Tills ->
       [at : {"CLOSED", "TAKING"}, shopper : Browsers \cup {"none"},
        browser : Browsers \cup {"none"}, items : [Products -> 0..MaxUnits],
        left : SUBSET Products]]
  /\ orders \subseteq [id : 1..MaxOrders, shopper : Browsers,
                       items : [Products -> 0..MaxUnits]]
  /\ begun \in 0..MaxOrders
  /\ edits \in 0..MaxEdits
  /\ shelved \in [Products -> [units : Int, taken : Nat]]
  /\ abandoned \in [Products -> Nat]
  /\ chosen \in [Browsers -> [Products -> 0..MaxUnits]]
  /\ unsure \subseteq Browsers
  /\ seedCut \in BOOLEAN

(* Two processes seed one database, and a server that listens has the whole   *)
(* catalogue and a store manager who can sign in: unless another process is   *)
(* still seeding or one was stopped in the middle, which no start mends.      *)
SeedIsComplete ==
  (\E x \in Processes : Up(x)) =>
    \/ seedCut
    \/ \E x \in Processes : Seeding(x)
    \/ (\A i \in DOMAIN Catalog : Catalog[i] \in listed) /\ "credentials" \in staff

(* The stock is what seeding or staff set it to less what checkouts took      *)
(* since: what is missing is in an order, on the way to one, or with a        *)
(* checkout that failed, however many overlap.  No checkout takes it below    *)
(* zero; below zero it is only where staff put it, until the next checkout    *)
(* of the product.                                                            *)
StockIsAccounted ==
  \A p \in Products :
    LET sold == Taken(p) - shelved[p].taken
        left == shelved[p].units - sold
    IN  /\ sold >= 0
        /\ stock[p] = IF sold > 0 /\ left < 0 THEN 0 ELSE left

OrderedBy(b, p) ==
  SumFunction([o \in {r \in orders : r.shopper = b} |-> o.items[p]])

(* Nobody is charged for more than was chosen, although failed checkouts      *)
(* leave the cart in place to try again: unless an answer got lost or the     *)
(* button was pressed twice.                                                  *)
ChargedForChosen ==
  \A b \in Browsers \ unsure, p \in Products : OrderedBy(b, p) <= chosen[b][p]
=============================================================================
