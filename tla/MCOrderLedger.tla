--------------------------- MODULE MCOrderLedger ---------------------------
(* Small instances of OrderLedger: authorizations of up to MaxSafe cents,   *)
(* some of them partly used, unapproved, flawed or missing.                   *)
EXTENDS OrderDiagnosis, TLC

CONSTANTS usd, cad

List(n) == [total |-> n, flaw |-> "none"]
Cents(n, currency) == [amount |-> n, currency |-> currency]

Authorized(n, captured, refunded) ==
  [amount |-> Cents(n, usd), approved |-> TRUE, expiration |-> 1,
   captures |-> List(captured), refunds |-> List(refunded), releases |-> List(0)]

StartingOrders ==
  {Authorized(2, 0, 0), Authorized(3, 2, 1)}

OddOrders ==
  LET new == Authorized(2, 0, 0) IN
  {Nothing,
   [new EXCEPT !.approved = FALSE],
   [new EXCEPT !.amount = Cents(0, usd)],
   [new EXCEPT !.captures = AddTransaction(@, Cents(1, cad), usd)],
   [new EXCEPT !.releases = AddTransaction(@, Cents(0, usd), usd)],
   [new EXCEPT !.refunds = List(1)]}

AllOrders == StartingOrders \cup OddOrders

SomeRequests == {Cents(-1, usd), Cents(0, usd), Cents(1, usd), Cents(2, usd), Cents(1, cad)}
Symmetry == Permutations(Calls)

=============================================================================
