----------------------------- MODULE MallLedger -----------------------------
(***************************************************************************)
(* What the mall of server/assaultfire_server_v143b.py promises about the  *)
(* state it keeps on disk: a purchase adds all its goods and takes its     *)
(* whole price in one step, a drop removes one good, and nothing else, no  *)
(* crash and no restart, changes either.  The server sells on credit and   *)
(* forgives a debt when it loads its state.                                *)
(***************************************************************************)
EXTENDS Integers, Sequences

CONSTANTS Bundle,     \* the kinds of the goods of each commodity, in order
          Price,      \* the price of each commodity
          MaxCharge,  \* the most one purchase costs
          Opening,    \* the wallet of a fresh player
          MaxGid      \* bound: numbers of goods

VARIABLES goods,   \* bought and not dropped
          coins    \* the wallet

ledgerVars == <<goods, coins>>

Init == goods = {} /\ coins = Opening

(* What a wallet may be worth when the next transaction looks at it.       *)
Worth == {coins, IF coins < 0 THEN 0 ELSE coins}

(* The goods of a commodity are numbered from a number not in use.         *)
GoodsOf(k, gid) == {[gid |-> gid + i - 1, kind |-> Bundle[k][i]] : i \in DOMAIN Bundle[k]}

Buy(k, gid) ==
  /\ \A new \in GoodsOf(k, gid), old \in goods : new.gid # old.gid
  /\ goods' = goods \cup GoodsOf(k, gid)
  /\ \E w \in Worth : coins' = w - (IF Price[k] > MaxCharge THEN MaxCharge ELSE Price[k])

Drop(good) ==
  /\ good \in goods
  /\ goods' = goods \ {good}
  /\ coins' \in Worth

Forgive == coins' \in Worth /\ UNCHANGED goods

Next == \/ Forgive
        \/ \E k \in DOMAIN Bundle, gid \in 1 .. MaxGid : Buy(k, gid)
        \/ \E good \in goods : Drop(good)

Spec == Init /\ [][Next]_ledgerVars
=============================================================================
