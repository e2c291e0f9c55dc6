------------------------------- MODULE Escrow -------------------------------
(***************************************************************************)
(* What the ledger is for, without saying how it does it: accounts whose   *)
(* holders may promise units to each other.  What is promised stays put    *)
(* until the promise is honoured or released, each promise is resolved     *)
(* once, and units enter, move and leave but never appear or vanish, save  *)
(* for a fee that names no account to go to.                               *)
(*                                                                         *)
(* There are no names, policies, routes, closed cells, journal or errors   *)
(* here, and no 64-bit counters: LedgerImplementsEscrow says that the      *)
(* ledger, with all of them, does nothing else.                            *)
(***************************************************************************)
EXTENDS PrefixSums

CONSTANT Units      \* the amounts that a holder may deposit or promise

VARIABLES
    funds,          \* account -> units in it
    accounts,       \* how many accounts there are
    promises,       \* promise -> its terms and what became of it
    made,           \* how many promises were made
    books           \* units deposited, units that left, units lost as fees

escrowVars == <<funds, accounts, promises, made, books>>

Promised(a) ==
    PrefixSum([p \in DOMAIN promises |->
                 IF promises[p].status = "pending" /\ promises[p].by = a
                 THEN promises[p].amount ELSE 0], made)

Free(a) == funds[a] - Promised(a)

EscrowInit ==
    /\ accounts \in Nat
    /\ funds \in [0..(accounts - 1) -> Nat]
    /\ made = 0
    /\ promises = [p \in 0..-1 |-> {}]
    /\ books = [deposited |-> PrefixSum(funds, accounts), left |-> 0, lost |-> 0]

-----------------------------------------------------------------------------
\* a debit and two credits, which may concern the same account
Moved(from, amount, to, net, feeTo, fee) ==
    [a \in DOMAIN funds |-> funds[a] - (IF a = from THEN amount ELSE 0)
                                     + (IF a = to THEN net ELSE 0)
                                     + (IF a = feeTo THEN fee ELSE 0)]

Open ==
    /\ accounts' = accounts + 1
    /\ funds' = [a \in 0..accounts |-> IF a = accounts THEN 0 ELSE funds[a]]
    /\ UNCHANGED <<promises, made, books>>

Deposit(a, amount) ==
    /\ funds' = [funds EXCEPT ![a] = @ + amount]
    /\ books' = [books EXCEPT !.deposited = @ + amount]
    /\ UNCHANGED <<accounts, promises, made>>

Leave(a, amount) ==
    /\ amount <= Free(a)
    /\ funds' = [funds EXCEPT ![a] = @ - amount]
    /\ books' = [books EXCEPT !.left = @ + amount]
    /\ UNCHANGED <<accounts, promises, made>>

Move(from, to, amount) ==
    /\ amount <= Free(from)
    /\ funds' = Moved(from, amount, to, amount, to, 0)
    /\ UNCHANGED <<accounts, promises, made, books>>

Promise(by, to, amount, net) ==
    /\ amount <= Free(by)
    /\ made' = made + 1
    /\ promises' = [p \in 0..made |->
          IF p = made THEN [by |-> by, to |-> to, amount |-> amount, net |-> net,
                            status |-> "pending"]
                      ELSE promises[p]]
    /\ UNCHANGED <<funds, accounts, books>>

\* whoever pays, the commitment ends; a payer other than the promiser spends what is free
Honour(p, payer) ==
    LET promise == promises[p]
        fee     == promise.amount - promise.net
    IN  /\ promise.status = "pending"
        /\ promises' = [promises EXCEPT ![p].status = "settled"]
        /\ payer = promise.by \/ promise.amount <= Free(payer)
        /\ \/ /\ \E feeTo \in DOMAIN funds :
                    funds' = Moved(payer, promise.amount, promise.to, promise.net, feeTo, fee)
              /\ UNCHANGED books
           \/ /\ funds' = Moved(payer, promise.amount, promise.to, promise.net, payer, 0)
              /\ books' = [books EXCEPT !.lost = @ + fee]
        /\ UNCHANGED <<accounts, made>>

Release(p) ==
    /\ promises[p].status = "pending"
    /\ promises' = [promises EXCEPT ![p].status = "cancelled"]
    /\ UNCHANGED <<funds, accounts, made, books>>

EscrowNext ==
    \/ Open
    \/ \E a \in DOMAIN funds, n \in Units : Deposit(a, n)
    \/ \E a \in DOMAIN funds, n \in Units : Leave(a, n)
    \/ \E a, b \in DOMAIN funds : \E n \in 0..funds[a] : Move(a, b, n)
    \/ \E a, b \in DOMAIN funds, n \in Units : \E net \in 0..n : Promise(a, b, n, net)
    \/ \E p \in DOMAIN promises, a \in DOMAIN funds : Honour(p, a)
    \/ \E p \in DOMAIN promises : Release(p)

EscrowSpec == EscrowInit /\ [][EscrowNext]_escrowVars

=============================================================================
