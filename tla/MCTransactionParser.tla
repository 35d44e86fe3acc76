------------------------ MODULE MCTransactionParser ------------------------
EXTENDS TransactionParser

CONSTANTS alice, bob, escrow, n1, n2, n3

Actions == [
  magic_eden_v2 |-> {"sale", "core_sale", "listing", "cancel_sell", "mip1_cancel_sell",
                     "core_cancel_sell", "deposit", "withdraw", "admin", "unknown"},
  magic_eden_mmm |-> {"sale", "cnft_sale", "deposit_sell", "withdraw_sell", "sol_deposit_buy",
                      "sol_withdraw_buy", "admin", "no_parser"},
  tensor_cnft_marketplace |-> {"buy", "buy_core", "list", "list_core", "delist", "delist_core",
                               "bid", "cancel_bid", "take_bid", "take_bid_meta_hash", "edit"},
  tensor_amm |-> {"sale", "no_parser"}, tensor_escrow |-> {"no_parser"},
  mpl_core |-> {"create", "burn", "transfer"},
  token_metadata |-> {"any"}, system |-> {"any"}, other |-> {"unknown"}]

Kinds == UNION {{<<p, a>> : a \in Actions[p]} : p \in DOMAIN Actions}

\* The argument of a Tensor AMM purchase is a cap.
Ix(kind, mint, price) ==
  [program |-> kind[1], action |-> kind[2], mint |-> mint, buyer |-> bob, seller |-> alice,
   price |-> IF kind[1] = "tensor_amm" THEN price + 1 ELSE price]

Moved(m, from, to) == [mint |-> m, from |-> from, to |-> to, amount |-> 1]
OneNFT == {{Moved(m, from, bob)} : m \in {n1, n2}, from \in {alice, escrow}}
TwoMoves == {{Moved(n1, alice, bob), Moved(n3, alice, escrow)},
             {[Moved(Coin, bob, alice) EXCEPT !.amount = 2], Moved(n1, alice, bob)}}
NoNFT == {{}, {Moved(Coin, alice, bob)}}

Tx(ixs, moves, p, payer, logs, words) ==
  [instructions |-> ixs, moves |-> moves, buyer |-> bob, seller |-> alice, price |-> p[1],
   royalty |-> p[2], payer |-> payer, logs |-> logs, words |-> words]

\* The price of a trade and the royalty in it: about the fee and the thresholds.
Prices == {<<0, 0>>, <<1, 0>>, <<1000, 0>>, <<1001, 1>>, <<2001, 0>>, <<2001, 1500>>, <<4002, 2001>>}

OneInstruction ==
  {Tx(<<Ix(k, n1, p[1])>>, mv, p, payer, {}, {}) :
     k \in Kinds, mv \in OneNFT \cup TwoMoves \cup NoNFT, p \in Prices, payer \in {alice, bob}}
TwoInstructions ==
  {Tx(<<Ix(k1, n1, 2001), Ix(k2, m, 2001)>>, mv, <<2001, 1>>, bob, {}, {}) :
     k1 \in Kinds, k2 \in Kinds, m \in {n2}, mv \in {{Moved(n1, alice, bob)}, {}}}
Logs == {{}, {"SKIP", "SALE"}, {"SALE", "BID"}, {"LISTING", "POOL_WITHDRAW"}, {"POOL_DEPOSIT"}}
OnlyLogs ==
  {Tx(ixs, mv, p, alice, logs, words) :
     ixs \in {<<>>, <<Ix(<<"other", "unknown">>, n1, 0)>>},
     mv \in OneNFT \cup NoNFT, logs \in Logs, p \in Prices,
     words \in {{}, {"withdraw"}, {"deposit", "sell"}, {"sell"}, {"delist"},
               {"bid"}, {"cancel"}, {"update"}, {"create"}, {"escrow"}}}

MCTransactions == OneInstruction \cup TwoInstructions \cup OnlyLogs
=============================================================================
