------------------------ MODULE TransactionParser_proofs ------------------------
(***************************************************************************)
(* Theorems about TransactionParser, for every set of transactions:           *)
(*   InferredPaid   what tier 3 takes from the transfers was paid for;        *)
(*   TradeKept      a trade above the threshold is not lost;                 *)
(*   SaleAmount     the amount of a sale is between proceeds and price;        *)
(*   IgnoredHarmless  an ignored discriminator moved no NFT;                   *)
(*   ParserTyped    every event that is built is well-formed.                 *)
(***************************************************************************)
EXTENDS TransactionParser, TLAPS, WellFoundedInduction, FiniteSetTheorems

-----------------------------------------------------------------------------
(* The least and the greatest of a set of numbers *)

LessThan == {ss \in Nat \X Nat : ss[1] < ss[2]}

\* < on the naturals is well-founded.
LEMMA LessThanWF == IsWellFoundedOn(LessThan, Nat)
  BY NatLessThanWellFounded DEF OpToRel, LessThan

\* A set of naturals has a least element.
LEMMA Least ==
  ASSUME NEW S, S \subseteq Nat, S # {}
  PROVE  \E x \in S : \A y \in S : x <= y
<1>1. PICK x \in S : \A y \in S : ~(<<y, x>> \in LessThan)
  BY LessThanWF, WFMin
<1>2. ASSUME NEW y \in S, y < x PROVE FALSE
  <2>1. x \in Nat /\ y \in Nat
    OBVIOUS
  <2>2. <<y, x>> \in Nat \X Nat
    BY <2>1
  <2>3. <<y, x>> \in LessThan
    BY <2>2, <1>2 DEF LessThan
  <2> QED
    BY <2>3, <1>1
<1>3. \A y \in S : x \in Nat /\ y \in Nat
  OBVIOUS
<1>4. \A y \in S : x <= y
  BY <1>2, <1>3
<1> QED
  BY <1>4

\* A bounded set of naturals has a greatest element.
LEMMA Greatest ==
  ASSUME NEW M \in Nat, NEW S, S \subseteq 0..M, S # {}
  PROVE  \E x \in S : \A y \in S : x >= y
<1> DEFINE T == {M - s : s \in S}
<1>1. T \subseteq Nat
  <2>1. ASSUME NEW s \in S PROVE M - s \in Nat
    OBVIOUS
  <2> QED
    BY <2>1
<1>2. T # {}
  OBVIOUS
<1> HIDE DEF T
<1>3. PICK t \in T : \A u \in T : t <= u
  BY <1>1, <1>2, Least
<1>4. PICK x \in S : t = M - x
  BY <1>3 DEF T
<1>5. ASSUME NEW y \in S PROVE x >= y
  <2>1. M - y \in T
    BY DEF T
  <2>2. M - x <= M - y
    BY <2>1, <1>3, <1>4
  <2>3. x \in Int /\ y \in Int
    OBVIOUS
  <2> QED
    BY <2>2, <2>3
<1> QED
  BY <1>5

\* Largest is the greatest element of a bounded set of amounts.
LEMMA LargestIs ==
  ASSUME NEW M \in Nat, NEW S, S \subseteq 0..M, S # {}
  PROVE  Largest(S) \in S /\ \A y \in S : Largest(S) >= y
<1>1. \E x \in S : \A y \in S : x >= y
  BY Greatest
<1> QED
  BY <1>1 DEF Largest

\* Largest of no amounts is zero, and of any bounded amounts a natural.
LEMMA LargestNat ==
  ASSUME NEW M \in Nat, NEW S, S \subseteq 0..M
  PROVE  Largest(S) \in Nat /\ (S = {} => Largest(S) = 0)
<1>1. CASE S = {}
  BY <1>1 DEF Largest
<1>2. CASE S # {}
  <2>1. Largest(S) \in S
    BY <1>2, LargestIs
  <2>2. Largest(S) \in 0..M
    BY <2>1
  <2>3. 0..M \subseteq Nat
    OBVIOUS
  <2>4. Largest(S) \in Nat
    BY <2>2, <2>3
  <2> QED
    BY <2>4, <1>2
<1> QED
  BY <1>1, <1>2

-----------------------------------------------------------------------------
(* The amounts of a transaction *)

Bound == 3 * tx.price + 3

\* Balances change by integers within the bound.
LEMMA ChangeBounds ==
  ASSUME IsTransaction(tx), NEW w
  PROVE  /\ NativeChange(w) \in Int
         /\ -Bound <= NativeChange(w) /\ NativeChange(w) <= Bound
<1>1. tx.price \in Nat /\ tx.royalty \in Nat /\ tx.royalty <= tx.price
  BY DEF IsTransaction
<1>2. /\ BalanceChange(w) \in Int
      /\ -Bound + 1 <= BalanceChange(w) /\ BalanceChange(w) <= Bound - 1
  BY <1>1 DEF BalanceChange, Bound, Fee
<1>3. Bound \in Int
  BY <1>1 DEF Bound
<1> QED
  BY <1>2, <1>3 DEF NativeChange, Fee

\* Every credit and every debit is a natural within the bound, and positive.
LEMMA AmountBounds ==
  ASSUME IsTransaction(tx), NEW who
  PROVE  /\ Bound \in Nat
         /\ Credits(who) \subseteq 0..Bound /\ Debits(who) \subseteq 0..Bound
         /\ AllAmounts \subseteq 0..Bound
<1>1. tx.price \in Nat
  BY DEF IsTransaction
<1>2. Bound \in Nat
  BY <1>1 DEF Bound
<1>3. ASSUME NEW any PROVE Credits(any) \subseteq 0..Bound /\ Debits(any) \subseteq 0..Bound
  <2>1. \A w : /\ NativeChange(w) \in Int
               /\ -Bound <= NativeChange(w) /\ NativeChange(w) <= Bound
    BY ChangeBounds
  <2>2. Credits(any) \subseteq 0..Bound
    BY <2>1, <1>2 DEF Credits
  <2>3. Debits(any) \subseteq 0..Bound
    BY <2>1, <1>2 DEF Debits
  <2> QED
    BY <2>2, <2>3
<1> QED
  BY <1>2, <1>3 DEF AllAmounts

\* The amounts of a wallet are amounts of the transaction.
LEMMA AmountsOf ==
  ASSUME NEW who, who \subseteq Accounts
  PROVE  Credits(who) \subseteq AllAmounts /\ Debits(who) \subseteq AllAmounts
  BY DEF Credits, Debits, AllAmounts

-----------------------------------------------------------------------------
(* Transfers *)

\* The normalised transfers are the moves of the transaction, in some order.
Moved == stage # "normalize" => {transfers[i] : i \in DOMAIN transfers} = tx.moves
OrderOK == /\ DOMAIN transfers \subseteq Nat
           /\ Moved

\* The first transfer of a kind is one of it, if there is one.
LEMMA FirstIs ==
  ASSUME NEW wanted, DOMAIN transfers \subseteq Nat
  PROVE  \/ First(wanted) = None /\ \A i \in DOMAIN transfers : transfers[i] \notin wanted
         \/ First(wanted) \in wanted
              /\ \E i \in DOMAIN transfers : First(wanted) = transfers[i]
<1> DEFINE found == {i \in DOMAIN transfers : transfers[i] \in wanted}
<1>1. CASE found = {}
  BY <1>1 DEF First
<1>2. CASE found # {}
  <2>1. found \subseteq Nat
    OBVIOUS
  <2>2. \E i \in found : \A j \in found : i <= j
    <3> HIDE DEF found
    <3> QED
      BY <2>1, <1>2, Least
  <2>3. PICK i \in found : First(wanted) = transfers[i]
    BY <1>2, <2>2 DEF First
  <2> QED
    BY <2>3
<1> QED
  BY <1>1, <1>2

\* The NFT transfer is a move of an NFT, and it is found if there is one.
LEMMA NftTransferIs ==
  ASSUME OrderOK, stage # "normalize"
  PROVE  NftTransfer = None \/ NftTransfer \in NftMoves
  BY FirstIs DEF OrderOK, NftTransfer

\* The transfer that tier 3 takes is a move of one unit; an NFT's move makes it find one.
LEMMA UnitTransferIs ==
  ASSUME OrderOK, stage # "normalize"
  PROVE  /\ UnitTransfer = None \/ UnitTransfer \in {mv \in tx.moves : mv.amount = 1}
         /\ NftMoves # {} => UnitTransfer \in {mv \in tx.moves : mv.amount = 1}
<1> DEFINE units == {mv \in tx.moves : mv.amount = 1}
<1>1. \/ UnitTransfer = None /\ \A i \in DOMAIN transfers : transfers[i] \notin units
      \/ UnitTransfer \in units
  BY FirstIs DEF OrderOK, UnitTransfer
<1>2. NftMoves # {} => \E i \in DOMAIN transfers : transfers[i] \in units
  <2>1. ASSUME NEW mv \in NftMoves PROVE \E i \in DOMAIN transfers : transfers[i] \in units
    <3>1. mv \in tx.moves /\ mv \in units
      BY DEF NftMoves, IsNFT
    <3>2. PICK i \in DOMAIN transfers : transfers[i] = mv
      BY <3>1 DEF OrderOK, Moved
    <3> QED
      BY <3>1, <3>2
  <2> QED
    BY <2>1
<1> QED
  BY <1>1, <1>2

-----------------------------------------------------------------------------
(* Tier 3's price *)

\* The price is nothing, at a confidence of one half, or more than Dust that moved,
\* at a higher one; whatever moved more than Dust is a price.
LEMMA PriceIs ==
  ASSUME IsTransaction(tx), NEW buyer \in Accounts, NEW seller \in Accounts
  PROVE  LET p == Price(buyer, seller) IN
         /\ \/ p.amount = 0 /\ p.confidence = 50 /\ ~\E n \in AllAmounts : n > Dust
            \/ p.amount > Dust /\ p.amount \in AllAmounts /\ p.confidence \in {90, 85, 70, 60}
         /\ p.amount \in Nat
<1> DEFINE guesses == <<[amount |-> Largest(Credits({seller})), confidence |-> 90],
                   [amount |-> Largest(Debits({buyer})), confidence |-> 85],
                   [amount |-> Largest(Credits(Accounts)), confidence |-> 70],
                   [amount |-> Largest(AllAmounts), confidence |-> 60]>>
           good == {i \in 1..4 : Counts(guesses[i].amount)}
<1>1. ASSUME NEW S, S \subseteq AllAmounts
      PROVE  /\ Largest(S) \in Nat
             /\ Largest(S) > Dust => Largest(S) \in AllAmounts
  <2>1. Bound \in Nat /\ S \subseteq 0..Bound
    BY <1>1, AmountBounds
  <2>2. Largest(S) \in Nat /\ (S = {} => Largest(S) = 0)
    BY <2>1, LargestNat
  <2>3. S # {} => Largest(S) \in S
    BY <2>1, LargestIs
  <2> QED
    BY <2>2, <2>3, <1>1 DEF Dust
<1>2. /\ Credits({seller}) \subseteq AllAmounts /\ Debits({buyer}) \subseteq AllAmounts
      /\ Credits(Accounts) \subseteq AllAmounts
  BY AmountsOf
<1>3. \A i \in 1..4 : /\ guesses[i].amount \in Nat
                      /\ guesses[i].amount > Dust => guesses[i].amount \in AllAmounts
                      /\ guesses[i].confidence \in {90, 85, 70, 60}
  <2>1. TAKE i \in 1..4
  <2>2. i = 1 \/ i = 2 \/ i = 3 \/ i = 4
    OBVIOUS
  <2> QED
    BY <1>1, <1>2, <2>2
<1>4. good = {} => ~\E n \in AllAmounts : n > Dust
  <2>1. SUFFICES ASSUME NEW n \in AllAmounts, n > Dust PROVE 4 \in good
    OBVIOUS
  <2>2. Bound \in Nat /\ AllAmounts \subseteq 0..Bound
    BY AmountBounds
  <2>3. Largest(AllAmounts) >= n
    BY <2>2, LargestIs
  <2>4. Largest(AllAmounts) \in Nat /\ n \in Nat
    BY <2>2, <1>1
  <2>5. Largest(AllAmounts) > Dust
    BY <2>1, <2>3, <2>4 DEF Dust
  <2> QED
    BY <2>5 DEF Counts
<1>5. CASE good = {}
  <2>1. Price(buyer, seller) = [amount |-> 0, confidence |-> 50]
    BY <1>5 DEF Price
  <2> QED
    BY <2>1, <1>4, <1>5
<1>6. CASE good # {}
  <2>1. good \subseteq Nat
    OBVIOUS
  <2>2. \E i \in good : \A j \in good : i <= j
    <3> HIDE DEF good
    <3> QED
      BY <2>1, <1>6, Least
  <2>3. PICK i \in good : Price(buyer, seller) = guesses[i]
    BY <1>6, <2>2 DEF Price
  <2>4. guesses[i].amount > Dust
    BY DEF Counts
  <2> QED
    BY <1>3, <2>3, <2>4
<1> QED
  BY <1>5, <1>6

-----------------------------------------------------------------------------
(* The amounts of a trade *)

SaleRange == NativeChange(tx.seller)..tx.price

\* In a trade the seller's change is his proceeds (less one fee only when they are one
\* fee), the buyer's is the price, and nobody's is more.
LEMMA TradeChanges ==
  ASSUME ParserConstants, IsTransaction(tx), tx.buyer # tx.seller
  PROVE  /\ tx.price \in Nat /\ tx.royalty \in Nat /\ tx.royalty <= tx.price
         /\ NativeChange(tx.seller) \in Int /\ NativeChange(tx.seller) >= 0
         /\ tx.price - tx.royalty - Fee <= NativeChange(tx.seller)
         /\ tx.price - tx.royalty > Fee => NativeChange(tx.seller) = tx.price - tx.royalty
         /\ \A w \in Accounts : /\ NativeChange(w) \in Int
                                /\ -tx.price <= NativeChange(w) /\ NativeChange(w) <= tx.price
         /\ \A w \in Wallets \ {tx.seller} : NativeChange(w) <= 0
         /\ \A w \in Wallets \ {tx.buyer} : NativeChange(w) >= 0
         /\ NativeChange(tx.buyer) = -tx.price
<1>1. /\ tx.price \in Nat /\ tx.royalty \in Nat /\ tx.royalty <= tx.price
      /\ tx.buyer \in Wallets /\ tx.seller \in Wallets /\ tx.payer \in Wallets
  BY DEF IsTransaction
<1>2. Creator \notin Wallets
  BY DEF ParserConstants
<1>3. /\ NativeChange(tx.seller) \in Int /\ NativeChange(tx.seller) >= 0
      /\ tx.price - tx.royalty - Fee <= NativeChange(tx.seller)
      /\ tx.price - tx.royalty > Fee => NativeChange(tx.seller) = tx.price - tx.royalty
      /\ NativeChange(tx.seller) <= tx.price
  <2>1. tx.seller # Creator
    BY <1>1, <1>2
  <2>2. BalanceChange(tx.seller) = tx.price - tx.royalty - (IF tx.seller = tx.payer THEN Fee ELSE 0)
    BY <2>1, <1>1 DEF BalanceChange, Fee
  <2> QED
    BY <2>2, <1>1 DEF NativeChange, Fee
<1>4. NativeChange(tx.buyer) = -tx.price
  <2>1. tx.buyer # Creator
    BY <1>1, <1>2
  <2>2. BalanceChange(tx.buyer) = -tx.price - (IF tx.buyer = tx.payer THEN Fee ELSE 0)
    BY <2>1, <1>1 DEF BalanceChange, Fee
  <2> QED
    BY <2>2, <1>1 DEF NativeChange, Fee
<1>5. NativeChange(Creator) = tx.royalty
  <2>1. BalanceChange(Creator) = tx.royalty
    BY <1>1, <1>2 DEF BalanceChange
  <2> QED
    BY <2>1, <1>1, <1>2 DEF NativeChange
<1>6. \A w \in Wallets \ {tx.seller, tx.buyer} : NativeChange(w) = 0
  <2>1. TAKE w \in Wallets \ {tx.seller, tx.buyer}
  <2>2. w # Creator
    BY <1>2
  <2>3. w # tx.payer => BalanceChange(w) = 0
    BY <2>2 DEF BalanceChange
  <2>4. w = tx.payer => BalanceChange(w) = -1
    BY <2>2 DEF BalanceChange, Fee
  <2> QED
    BY <2>3, <2>4 DEF NativeChange, Fee
<1>7. \A w \in Accounts : \/ w = tx.seller \/ w = tx.buyer \/ w = Creator
                          \/ w \in Wallets \ {tx.seller, tx.buyer}
  BY DEF Accounts
<1>9. \A w \in Accounts : /\ NativeChange(w) \in Int
                          /\ -tx.price <= NativeChange(w) /\ NativeChange(w) <= tx.price
  BY <1>1, <1>3, <1>4, <1>5, <1>6, <1>7
<1>10. \A w \in Wallets \ {tx.seller} : NativeChange(w) <= 0
  BY <1>1, <1>4, <1>6
<1>11. \A w \in Wallets \ {tx.buyer} : NativeChange(w) >= 0
  BY <1>3, <1>6
<1> QED
  BY <1>1, <1>3, <1>4, <1>9, <1>10, <1>11

\* A set of amounts that do not exceed the price, and that contains the seller's
\* credit if there is one, has a largest amount in the range.
LEMMA LargestInRange ==
  ASSUME ParserConstants, IsTransaction(tx), tx.buyer # tx.seller,
         NEW S, S \subseteq AllAmounts, Credits({tx.seller}) \subseteq S
  PROVE  Largest(S) \in SaleRange
<1>1. Bound \in Nat /\ AllAmounts \subseteq 0..Bound
  BY AmountBounds
<1>2. S \subseteq 0..Bound
  BY <1>1
<1>3. /\ tx.price \in Nat /\ NativeChange(tx.seller) \in Int /\ NativeChange(tx.seller) >= 0
  BY TradeChanges
<1>4. \A n \in AllAmounts : n <= tx.price
  <2>1. \A w \in Accounts : /\ NativeChange(w) \in Int
                            /\ -tx.price <= NativeChange(w) /\ NativeChange(w) <= tx.price
    BY TradeChanges
  <2>2. \A n \in Credits(Accounts) : n <= tx.price
    BY <2>1, <1>3 DEF Credits
  <2>3. \A n \in Debits(Accounts) : n <= tx.price
    BY <2>1, <1>3 DEF Debits
  <2> QED
    BY <2>2, <2>3 DEF AllAmounts
<1>5. Largest(S) \in Nat /\ (S = {} => Largest(S) = 0)
  BY <1>1, <1>2, LargestNat
<1>6. S # {} => Largest(S) \in S /\ \A y \in S : Largest(S) >= y
  BY <1>1, <1>2, LargestIs
<1>7. Largest(S) <= tx.price
  BY <1>3, <1>4, <1>5, <1>6
<1>8. CASE NativeChange(tx.seller) > 0
  <2>1. NativeChange(tx.seller) \in S
    BY <1>8 DEF Credits
  <2>2. Largest(S) >= NativeChange(tx.seller)
    BY <2>1, <1>6
  <2> QED
    BY <2>2, <1>3, <1>5, <1>7 DEF SaleRange
<1>9. CASE ~(NativeChange(tx.seller) > 0)
  BY <1>9, <1>3, <1>5, <1>7 DEF SaleRange
<1> QED
  BY <1>8, <1>9

\* The three amounts that tier 1 takes from the balances.
LEMMA TradeAmounts ==
  ASSUME ParserConstants, IsTransaction(tx), tx.buyer # tx.seller
  PROVE  /\ Largest(AllAmounts) \in SaleRange
         /\ Largest(Credits(Accounts)) \in SaleRange
         /\ Largest(Credits({tx.seller})) \in SaleRange
<1>1. tx.seller \in Accounts
  BY DEF IsTransaction, Accounts
<1>2. Credits({tx.seller}) \subseteq Credits(Accounts)
  BY <1>1 DEF Credits
<1>3. Credits(Accounts) \subseteq AllAmounts
  BY DEF AllAmounts
<1> QED
  BY <1>2, <1>3, LargestInRange

\* A price that tier 3 finds in a trade is in the range too.
LEMMA PriceInRange ==
  ASSUME ParserConstants, IsTransaction(tx), tx.buyer # tx.seller,
         NEW buyer \in Wallets, NEW seller \in Wallets,
         Price(buyer, seller).amount > Dust
  PROVE  Price(buyer, seller).amount \in SaleRange
<1> DEFINE guesses == <<[amount |-> Largest(Credits({seller})), confidence |-> 90],
                   [amount |-> Largest(Debits({buyer})), confidence |-> 85],
                   [amount |-> Largest(Credits(Accounts)), confidence |-> 70],
                   [amount |-> Largest(AllAmounts), confidence |-> 60]>>
           good == {i \in 1..4 : Counts(guesses[i].amount)}
<1>1. good # {}
  <2>1. ASSUME good = {} PROVE FALSE
    <3>1. Price(buyer, seller) = [amount |-> 0, confidence |-> 50]
      BY <2>1 DEF Price
    <3> QED
      BY <3>1 DEF Dust
  <2> QED
    BY <2>1
<1>2. PICK i \in good : Price(buyer, seller) = guesses[i]
  <2>1. good \subseteq Nat
    OBVIOUS
  <2>2. \E i \in good : \A j \in good : i <= j
    <3> HIDE DEF good
    <3> QED
      BY <2>1, <1>1, Least
  <2> QED
    BY <1>1, <2>2 DEF Price
<1>3. CASE i = 1
  <2>1. Price(buyer, seller).amount = Largest(Credits({seller}))
    BY <1>2, <1>3
  <2>2. seller = tx.seller
    <3>1. ASSUME seller # tx.seller PROVE FALSE
      <4>1. NativeChange(seller) <= 0 /\ NativeChange(seller) \in Int
        BY <3>1, TradeChanges DEF Accounts
      <4>2. Credits({seller}) = {}
        BY <4>1 DEF Credits
      <4> QED
        BY <4>2, <2>1 DEF Largest, Dust
    <3> QED
      BY <3>1
  <2> QED
    BY <2>1, <2>2, TradeAmounts
<1>4. CASE i = 2
  <2>1. Price(buyer, seller).amount = Largest(Debits({buyer}))
    BY <1>2, <1>4
  <2>2. buyer = tx.buyer
    <3>1. ASSUME buyer # tx.buyer PROVE FALSE
      <4>1. NativeChange(buyer) >= 0 /\ NativeChange(buyer) \in Int
        BY <3>1, TradeChanges DEF Accounts
      <4>2. Debits({buyer}) = {}
        BY <4>1 DEF Debits
      <4> QED
        BY <4>2, <2>1 DEF Largest, Dust
    <3> QED
      BY <3>1
  <2>3. /\ tx.price \in Nat /\ NativeChange(tx.buyer) = -tx.price
        /\ NativeChange(tx.seller) \in Int /\ NativeChange(tx.seller) <= tx.price
    BY TradeChanges DEF Accounts, IsTransaction
  <2>4. Debits({buyer}) = IF tx.price > 0 THEN {tx.price} ELSE {}
    BY <2>2, <2>3 DEF Debits
  <2>5. Largest(Debits({buyer})) = tx.price
    <3>1. CASE tx.price > 0
      <4>1. Debits({buyer}) = {tx.price}
        BY <2>4, <3>1
      <4>2. Largest({tx.price}) \in {tx.price}
        BY <4>1, AmountBounds, LargestIs
      <4> QED
        BY <4>1, <4>2
    <3>2. CASE ~(tx.price > 0)
      <4>1. Debits({buyer}) = {} /\ tx.price = 0
        BY <2>3, <2>4, <3>2
      <4> QED
        BY <4>1 DEF Largest
    <3> QED
      BY <3>1, <3>2
  <2> QED
    BY <2>1, <2>3, <2>5 DEF SaleRange
<1>5. CASE i = 3
  <2>1. Price(buyer, seller).amount = Largest(Credits(Accounts))
    BY <1>2, <1>5
  <2> QED
    BY <2>1, TradeAmounts
<1>6. CASE i = 4
  <2>1. Price(buyer, seller).amount = Largest(AllAmounts)
    BY <1>2, <1>6
  <2> QED
    BY <2>1, TradeAmounts
<1> QED
  BY <1>3, <1>4, <1>5, <1>6

-----------------------------------------------------------------------------
(* What the sub-parsers build *)

Trading(ix) == tx.buyer # tx.seller /\ About(ix, tx)
PriceIsNot(ix) ==
  ix.program = "tensor_amm" \/ (ix.program = "tensor_cnft_marketplace" /\ ix.action \in Floors)
NeverValid(ix) ==
  \/ ix.program = "mpl_core" /\ ix.action \in {"create", "burn", "transfer"}
  \/ (ix.program = "tensor_cnft_marketplace" /\ ix.action = "edit")

\* An event of tier 1: it is storable unless it is of the kinds that never are, and
\* if it is a sale its parties differ and its amount is in the range.
Fits(e, ix) ==
  /\ e.tier = 1
  /\ ~NeverValid(ix) => e.type \in ValidTypes /\ e.amount \in Nat
  /\ e.type = "SALE" /\ Trading(ix) => e.buyer # e.seller
  /\ e.type = "SALE" /\ Trading(ix) /\ ~PriceIsNot(ix) => e.amount \in SaleRange

\* A sale whose parties are those of the NFT's transfer.
LEMMA SaleOfTransferIs ==
  ASSUME IsTransaction(tx), OrderOK, stage # "normalize", NEW amount,
         NEW e \in SaleOfTransfer(amount)
  PROVE  e.tier = 1 /\ e.type = "SALE" /\ e.amount = amount /\ e.buyer # e.seller
<1>1. PICK mv \in {NftTransfer} \ {None} : e = Event("SALE", mv.mint, amount, mv.to, mv.from, "")
  BY DEF SaleOfTransfer
<1>2. mv \in tx.moves
  BY NftTransferIs DEF NftMoves
<1>3. mv.from # mv.to
  BY <1>2 DEF IsTransaction
<1> QED
  BY <1>1, <1>3 DEF Event

\* The fields of an event.
LEMMA EventIs ==
  ASSUME NEW type, NEW mint, NEW amount, NEW buyer, NEW seller, NEW collection,
         NEW e, e = Event(type, mint, amount, buyer, seller, collection)
  PROVE  /\ e.tier = 1 /\ e.type = type /\ e.amount = amount
         /\ e.buyer = buyer /\ e.seller = seller
  BY DEF Event

\* A sale whose parties are accounts of the instruction.
LEMMA SaleOfAccountsIs ==
  ASSUME NEW ix, NEW mint, NEW amount, NEW e \in SaleOfAccounts(ix, mint, amount)
  PROVE  /\ e.tier = 1 /\ e.type = "SALE" /\ e.amount = amount
         /\ e.buyer = ix.buyer /\ e.seller = ix.seller
<1>1. e = Event("SALE", mint, amount, ix.buyer, ix.seller, "")
  BY DEF SaleOfAccounts
<1> QED
  BY <1>1 DEF Event

\* The amounts that tier 1 takes from the balances are naturals.
LEMMA BalanceAmounts ==
  ASSUME IsTransaction(tx)
  PROVE  /\ Largest(AllAmounts) \in Nat
         /\ \A who : Largest(Credits(who)) \in Nat
  BY AmountBounds, LargestNat

\* An event that is no sale fits when its type is on the list and its amount a number.
LEMMA PlainFits ==
  ASSUME NEW ix, NEW type \in ValidTypes \ {"SALE"}, NEW amount \in Nat,
         NEW mint, NEW buyer, NEW seller, NEW collection,
         NEW e, e = Event(type, mint, amount, buyer, seller, collection)
  PROVE  Fits(e, ix)
<1>1. e.tier = 1 /\ e.type = type /\ e.amount = amount
  BY EventIs
<1> QED
  BY <1>1 DEF Fits

\* Magic Eden v2.
LEMMA MagicEdenV2Fits ==
  ASSUME ParserConstants, IsTransaction(tx), OrderOK, stage # "normalize",
         NEW ix, IsInstruction(ix), ix.program = "magic_eden_v2", NEW e \in MagicEdenV2(ix)
  PROVE  Fits(e, ix)
<1>1. ix.price \in Nat
  BY DEF IsInstruction
<1>2. CASE ix.action = "sale"
  <2>1. e \in SaleOfTransfer(ix.price)
    BY <1>2 DEF MagicEdenV2, ListingV2, CancelV2
  <2>2. e.tier = 1 /\ e.type = "SALE" /\ e.amount = ix.price /\ e.buyer # e.seller
    BY <2>1, SaleOfTransferIs
  <2>3. Trading(ix) => ix.price = tx.price
    BY <1>2 DEF Trading, About, Sells, Floors
  <2>4. Trading(ix) => tx.price \in SaleRange
    <3>1. tx.price \in Nat /\ tx.royalty \in Nat
      BY DEF IsTransaction
    <3>2. tx.seller \in Accounts
      BY DEF IsTransaction, Accounts
    <3>3. Trading(ix) => tx.buyer # tx.seller
      BY DEF Trading
    <3>4. Trading(ix) => NativeChange(tx.seller) \in Int /\ NativeChange(tx.seller) <= tx.price
      BY <3>2, <3>3, TradeChanges
    <3> QED
      BY <3>1, <3>4 DEF SaleRange
  <2> QED
    BY <1>1, <2>2, <2>3, <2>4 DEF Fits, ValidTypes
<1>3. CASE ix.action = "core_sale"
  <2>1. e \in SaleOfAccounts(ix, ix.mint, Largest(AllAmounts))
    BY <1>3 DEF MagicEdenV2, ListingV2, CancelV2
  <2>2. /\ e.tier = 1 /\ e.type = "SALE" /\ e.amount = Largest(AllAmounts)
        /\ e.buyer = ix.buyer /\ e.seller = ix.seller
    BY <2>1, SaleOfAccountsIs
  <2>3. Trading(ix) => ix.buyer # ix.seller
    BY <1>3 DEF Trading, About, Sells
  <2>4. Trading(ix) => e.amount \in SaleRange
    BY <2>2, TradeAmounts DEF Trading
  <2> QED
    BY <2>2, <2>3, <2>4, BalanceAmounts DEF Fits, ValidTypes
<1>4. CASE ix.action \notin {"sale", "core_sale"}
  <2>1. CASE ix.action = "listing"
    <3>1. PICK c : e = Event("LISTING", ix.mint, ix.price, None, ix.seller, c)
      BY <2>1 DEF MagicEdenV2, ListingV2, CancelV2
    <3> QED
      BY <1>1, <3>1, PlainFits DEF ValidTypes
  <2>2. CASE ix.action = "cancel_sell"
    <3>1. PICK m : e = Event("CANCEL_LISTING", m, 0, None, ix.seller, "")
      BY <2>2 DEF MagicEdenV2, ListingV2, CancelV2
    <3> QED
      BY <1>1, <3>1, PlainFits DEF ValidTypes
  <2>3. CASE ix.action = "mip1_cancel_sell"
    <3>1. PICK s : e = Event("CANCEL_LISTING", MintOfTransfer, 0, None, s, "")
      BY <2>3 DEF MagicEdenV2, ListingV2, CancelV2
    <3> QED
      BY <1>1, <3>1, PlainFits DEF ValidTypes
  <2>4. CASE ix.action = "core_cancel_sell"
    <3>1. e = Event("CANCEL_LISTING", ix.mint, 0, None, ix.seller, "")
      BY <2>4 DEF MagicEdenV2, ListingV2, CancelV2
    <3> QED
      BY <1>1, <3>1, PlainFits DEF ValidTypes
  <2>5. CASE ix.action = "deposit"
    <3>1. e = Event("POOL_DEPOSIT", None, ix.price, ix.buyer, None, "")
      BY <2>5 DEF MagicEdenV2, ListingV2, CancelV2
    <3> QED
      BY <1>1, <3>1, PlainFits DEF ValidTypes
  <2>6. CASE ix.action = "withdraw"
    <3>1. e = Event("POOL_WITHDRAW", None, ix.price, ix.buyer, None, "")
      BY <2>6 DEF MagicEdenV2, ListingV2, CancelV2
    <3> QED
      BY <1>1, <3>1, PlainFits DEF ValidTypes
  <2>7. CASE ix.action \notin {"sale", "core_sale", "listing", "cancel_sell", "mip1_cancel_sell", "core_cancel_sell", "deposit", "withdraw"}
    BY <2>7 DEF MagicEdenV2, ListingV2, CancelV2
  <2> QED
    BY <1>4, <2>1, <2>2, <2>3, <2>4, <2>5, <2>6, <2>7
<1> QED
  BY <1>2, <1>3, <1>4

\* Magic Eden MMM.
LEMMA MagicEdenMMMFits ==
  ASSUME ParserConstants, IsTransaction(tx), OrderOK, stage # "normalize",
         NEW ix, IsInstruction(ix), ix.program = "magic_eden_mmm", NEW e \in MagicEdenMMM(ix)
  PROVE  Fits(e, ix)
<1>1. ix.price \in Nat
  BY DEF IsInstruction
<1>2. CASE ix.action = "sale"
  <2>1. e \in SaleOfTransfer(Largest(Credits(Accounts)))
    BY <1>2 DEF MagicEdenMMM, PoolNft, PoolSol
  <2>2. /\ e.tier = 1 /\ e.type = "SALE" /\ e.amount = Largest(Credits(Accounts))
        /\ e.buyer # e.seller
    BY <2>1, SaleOfTransferIs
  <2>3. Trading(ix) => e.amount \in SaleRange
    BY <2>2, TradeAmounts DEF Trading
  <2> QED
    BY <2>2, <2>3, BalanceAmounts DEF Fits, ValidTypes
<1>3. CASE ix.action = "cnft_sale"
  <2>1. e \in SaleOfAccounts(ix, ix.mint, Largest(AllAmounts))
    BY <1>3 DEF MagicEdenMMM, PoolNft, PoolSol
  <2>2. /\ e.tier = 1 /\ e.type = "SALE" /\ e.amount = Largest(AllAmounts)
        /\ e.buyer = ix.buyer /\ e.seller = ix.seller
    BY <2>1, SaleOfAccountsIs
  <2>3. Trading(ix) => ix.buyer # ix.seller
    BY <1>3 DEF Trading, About, Sells
  <2>4. Trading(ix) => e.amount \in SaleRange
    BY <2>2, TradeAmounts DEF Trading
  <2> QED
    BY <2>2, <2>3, <2>4, BalanceAmounts DEF Fits, ValidTypes
<1>4. CASE ix.action \notin {"sale", "cnft_sale"}
  <2>1. CASE ix.action = "deposit_sell"
    <3>1. PICK mv : e = Event("POOL_DEPOSIT", mv.mint, 1, None, ix.seller, "")
      BY <2>1 DEF MagicEdenMMM, PoolNft, PoolSol
    <3> QED
      BY <1>1, <3>1, PlainFits DEF ValidTypes
  <2>2. CASE ix.action = "withdraw_sell"
    <3>1. PICK mv : e = Event("POOL_WITHDRAW", mv.mint, 1, None, ix.seller, "")
      BY <2>2 DEF MagicEdenMMM, PoolNft, PoolSol
    <3> QED
      BY <1>1, <3>1, PlainFits DEF ValidTypes
  <2>3. CASE ix.action = "sol_deposit_buy"
    <3>1. e = Event("POOL_DEPOSIT", None, ix.price, ix.buyer, None, "")
      BY <2>3 DEF MagicEdenMMM, PoolNft, PoolSol
    <3> QED
      BY <1>1, <3>1, PlainFits DEF ValidTypes
  <2>4. CASE ix.action = "sol_withdraw_buy"
    <3>1. e = Event("POOL_WITHDRAW", None, ix.price, ix.buyer, None, "")
      BY <2>4 DEF MagicEdenMMM, PoolNft, PoolSol
    <3> QED
      BY <1>1, <3>1, PlainFits DEF ValidTypes
  <2>5. CASE ix.action \notin {"sale", "cnft_sale", "deposit_sell", "withdraw_sell", "sol_deposit_buy", "sol_withdraw_buy"}
    BY <2>5 DEF MagicEdenMMM, PoolNft, PoolSol
  <2> QED
    BY <1>4, <2>1, <2>2, <2>3, <2>4, <2>5
<1> QED
  BY <1>2, <1>3, <1>4

\* Tensor's marketplace.
LEMMA TensorCnftFits ==
  ASSUME ParserConstants, IsTransaction(tx), OrderOK, stage # "normalize",
         NEW ix, IsInstruction(ix), ix.program = "tensor_cnft_marketplace",
         NEW e \in TensorCnft(ix)
  PROVE  Fits(e, ix)
<1>1. ix.price \in Nat
  BY DEF IsInstruction
<1>2. CASE ix.action \in {"buy", "buy_core"}
  <2>1. PICK mint : e \in SaleOfAccounts(ix, mint, CreditOf(ix.seller))
    BY <1>2 DEF TensorCnft, TensorList, TensorTakeBid, TensorCancelBid
  <2>2. /\ e.tier = 1 /\ e.type = "SALE" /\ e.amount = Largest(Credits({ix.seller}))
        /\ e.buyer = ix.buyer /\ e.seller = ix.seller
    BY <2>1, SaleOfAccountsIs DEF CreditOf
  <2>3. Trading(ix) => ix.buyer # ix.seller /\ ix.seller = tx.seller
    BY <1>2 DEF Trading, About, Sells
  <2>4. Trading(ix) => e.amount \in SaleRange
    BY <2>2, <2>3, TradeAmounts DEF Trading
  <2> QED
    BY <2>2, <2>3, <2>4, BalanceAmounts DEF Fits, ValidTypes
<1>3. CASE ix.action \in Floors
  <2>1. \E mint, amount : amount \in Nat /\ e \in SaleOfAccounts(ix, mint, amount)
    <3>1. CASE ix.action = "take_bid"
      <4>1. e \in SaleOfAccounts(ix, MintOfTransfer, ix.price)
        BY <3>1 DEF TensorCnft, TensorList, TensorTakeBid, TensorCancelBid
      <4> QED
        BY <1>1, <4>1
    <3>2. CASE ix.action = "take_bid_meta_hash"
      <4>1. Largest(Credits(Accounts)) \in Nat
        BY BalanceAmounts
      <4> DEFINE credit == Largest(Credits(Accounts))
                 floor == IF 0 < ix.price /\ ix.price < credit THEN ix.price ELSE credit
      <4>2. e \in SaleOfAccounts(ix, None, floor)
        BY <3>2 DEF TensorCnft, TensorList, TensorTakeBid, TensorCancelBid
      <4>3. floor \in Nat
        BY <1>1, <4>1
      <4> QED
        BY <4>2, <4>3
    <3> QED
      BY <1>3, <3>1, <3>2 DEF Floors
  <2>2. /\ e.tier = 1 /\ e.type = "SALE" /\ e.amount \in Nat
        /\ e.buyer = ix.buyer /\ e.seller = ix.seller
    BY <2>1, SaleOfAccountsIs
  <2>3. Trading(ix) => ix.buyer # ix.seller
    BY <1>3 DEF Trading, About, Sells
  <2>4. PriceIsNot(ix)
    BY <1>3 DEF PriceIsNot
  <2> QED
    BY <2>2, <2>3, <2>4 DEF Fits, ValidTypes
<1>4. CASE ix.action = "bid"
  <2>1. e \in TensorBid(ix)
    BY <1>4 DEF TensorCnft, TensorList, TensorTakeBid, TensorCancelBid
  <2>2. PICK mint, c : e = Event("BID", mint, ix.price, ix.buyer, None, c)
    BY <2>1 DEF TensorBid
  <2> QED
    BY <1>1, <2>2, PlainFits DEF ValidTypes
<1>5. CASE ix.action = "edit"
  <2>1. e \in TensorEdit(ix)
    BY <1>5 DEF TensorCnft, TensorList, TensorTakeBid, TensorCancelBid
  <2>4. PICK mint, c : e = Event("LISTING_EDIT", mint, ix.price, None, ix.seller, c)
    BY <2>1 DEF TensorEdit
  <2>2. e.tier = 1 /\ e.type = "LISTING_EDIT"
    BY <2>4, EventIs
  <2>3. NeverValid(ix)
    BY <1>5 DEF NeverValid
  <2> QED
    BY <2>2, <2>3 DEF Fits
<1>6. CASE ix.action \notin {"buy", "buy_core", "bid", "edit"} \cup Floors
  <2>1. CASE ix.action = "list"
    <3>1. e = Event("LISTING", None, ix.price, None, ix.seller, "")
      BY <2>1 DEF TensorCnft, TensorList, TensorTakeBid, TensorCancelBid
    <3> QED
      BY <1>1, <3>1, PlainFits DEF ValidTypes
  <2>2. CASE ix.action = "list_core"
    <3>1. e = Event("LISTING", ix.mint, ix.price, None, ix.seller, "")
      BY <2>2 DEF TensorCnft, TensorList, TensorTakeBid, TensorCancelBid
    <3> QED
      BY <1>1, <3>1, PlainFits DEF ValidTypes
  <2>3. CASE ix.action = "delist"
    <3>1. e = Event("CANCEL_LISTING", None, 0, None, ix.seller, "")
      BY <2>3 DEF TensorCnft, TensorList, TensorTakeBid, TensorCancelBid
    <3> QED
      BY <1>1, <3>1, PlainFits DEF ValidTypes
  <2>4. CASE ix.action = "delist_core"
    <3>1. e = Event("CANCEL_LISTING", ix.mint, 0, None, ix.seller, "")
      BY <2>4 DEF TensorCnft, TensorList, TensorTakeBid, TensorCancelBid
    <3> QED
      BY <1>1, <3>1, PlainFits DEF ValidTypes
  <2>5. CASE ix.action = "cancel_bid"
    <3>1. e = Event("BID_CANCELLED", None, 0, ix.buyer, None, "")
      BY <2>5 DEF TensorCnft, TensorList, TensorTakeBid, TensorCancelBid
    <3> QED
      BY <1>1, <3>1, PlainFits DEF ValidTypes
  <2>6. CASE ix.action \notin {"buy", "buy_core", "bid", "edit", "take_bid", "take_bid_meta_hash", "list", "list_core", "delist", "delist_core", "cancel_bid"}
    BY <2>6 DEF TensorCnft, TensorList, TensorTakeBid, TensorCancelBid
  <2> QED
    BY <1>6, <2>1, <2>2, <2>3, <2>4, <2>5, <2>6 DEF Floors
<1> QED
  BY <1>2, <1>3, <1>4, <1>5, <1>6

\* Tensor's AMM and Metaplex Core.
LEMMA TensorAmmFits ==
  ASSUME ParserConstants, IsTransaction(tx), OrderOK, stage # "normalize",
         NEW ix, IsInstruction(ix), ix.program = "tensor_amm", NEW e \in TensorAmm(ix)
  PROVE  Fits(e, ix)
<1>1. e \in SaleOfTransfer(ix.price) /\ ix.price \in Nat
  BY DEF TensorAmm, IsInstruction
<1>2. e.tier = 1 /\ e.type = "SALE" /\ e.amount = ix.price /\ e.buyer # e.seller
  BY <1>1, SaleOfTransferIs
<1> QED
  BY <1>1, <1>2 DEF Fits, ValidTypes, PriceIsNot

\* Metaplex Core: never a sale, never storable.
LEMMA MplCoreFits ==
  ASSUME NEW ix, ix.program = "mpl_core", NEW e \in MplCore(ix)
  PROVE  Fits(e, ix)
<1>1. /\ e.tier = 1 /\ e.type \in {"MINT", "BURN", "TRANSFER"}
      /\ ix.action \in {"create", "burn", "transfer"}
  BY DEF MplCore, MplCoreMint, MplCoreBurn, MplCoreTransfer, Event
<1> QED
  BY <1>1 DEF Fits, NeverValid

\* Any event of tier 1.
LEMMA ParsedFits ==
  ASSUME ParserConstants, IsTransaction(tx), OrderOK, stage # "normalize",
         NEW ix, IsInstruction(ix), NEW e \in Parsed(ix)
  PROVE  Fits(e, ix)
<1>1. CASE ix.program = "magic_eden_v2"
  BY <1>1, MagicEdenV2Fits DEF Parsed
<1>2. CASE ix.program = "magic_eden_mmm"
  BY <1>2, MagicEdenMMMFits DEF Parsed
<1>3. CASE ix.program = "tensor_cnft_marketplace"
  BY <1>3, TensorCnftFits DEF Parsed
<1>4. CASE ix.program = "tensor_amm"
  BY <1>4, TensorAmmFits DEF Parsed
<1>5. CASE ix.program = "mpl_core"
  BY <1>5, MplCoreFits DEF Parsed
<1>6. CASE ix.program \notin {"magic_eden_v2", "magic_eden_mmm", "tensor_cnft_marketplace",
                              "tensor_amm", "mpl_core"}
  BY <1>6 DEF Parsed
<1> QED
  BY <1>1, <1>2, <1>3, <1>4, <1>5, <1>6

-----------------------------------------------------------------------------
(* What tier 3 builds *)

\* Tier 3's event: of a move of one unit, with a type that the validation knows.
LEMMA InferredIs ==
  ASSUME ParserConstants, IsTransaction(tx), OrderOK, stage # "normalize",
         detected \in (tx.logs \ (Ignorable \cup {"SKIP"})) \cup {"UNKNOWN"},
         NEW e \in Inferred, Enough(e)
  PROVE  /\ e.tier = 3 /\ e.amount \in AllAmounts /\ e.amount > Dust /\ e.amount \in Nat
         /\ e.type \in ValidTypes /\ e.buyer # e.seller
         /\ tx.buyer # tx.seller => e.amount \in SaleRange
<1>1. PICK mv \in {UnitTransfer} \ {None} : e = TransferEvent(mv, Price(mv.to, mv.from))
  BY DEF Inferred
<1>2. mv \in tx.moves
  BY UnitTransferIs
<1>3. mv.from # mv.to /\ mv.from \in Wallets /\ mv.to \in Wallets
  BY <1>2 DEF IsTransaction, Move
<1> DEFINE p == Price(mv.to, mv.from)
<1>4. /\ e.tier = 3 /\ e.amount = p.amount /\ e.buyer = mv.to /\ e.seller = mv.from
      /\ e.type = TypeOf(p.amount) /\ e.confidence = Minimum(p.confidence, Value)
  BY <1>1 DEF TransferEvent
<1>5. /\ \/ p.amount = 0 /\ p.confidence = 50
         \/ p.amount > Dust /\ p.amount \in AllAmounts /\ p.confidence \in {90, 85, 70, 60}
      /\ p.amount \in Nat
  BY <1>3, PriceIs DEF Accounts
<1> HIDE DEF p
<1>6. Value \in {95, 80, 70, 0}
  BY DEF Value
<1>7. p.confidence > 50
  <2>1. p.confidence \in {90, 85, 70, 60, 50}
    BY <1>5
  <2> QED
    BY <1>4, <1>6, <2>1 DEF Enough, Minimum
<1>8. p.amount > Dust /\ p.amount \in AllAmounts /\ p.amount \in Nat
  BY <1>5, <1>7
<1>9. e.type \in ValidTypes
  <2>1. tx.logs \subseteq LogTypes
    BY DEF IsTransaction
  <2> QED
    BY <1>4, <2>1 DEF TypeOf, ValidTypes, LogTypes
<1>10. tx.buyer # tx.seller => e.amount \in SaleRange
  BY <1>3, <1>4, <1>8, PriceInRange DEF p
<1> QED
  BY <1>3, <1>4, <1>8, <1>9, <1>10

\* A trade of an NFT above Dust gives tier 3 an event.
LEMMA TradeInferred ==
  ASSUME ParserConstants, IsTransaction(tx), OrderOK, stage # "normalize",
         detected \in (tx.logs \ (Ignorable \cup {"SKIP"})) \cup {"UNKNOWN"},
         tx.buyer # tx.seller, NftMoves # {}, tx.price > Dust, ~Marked
  PROVE  {e \in Inferred : Enough(e)} # {}
<1> DEFINE mv == UnitTransfer
           p == Price(mv.to, mv.from)
           e == TransferEvent(mv, p)
<1>1. mv \in tx.moves
  BY UnitTransferIs
<1>2. mv # None /\ mv.from \in Wallets /\ mv.to \in Wallets
  BY <1>1 DEF IsTransaction, Move, ParserConstants
<1>3. /\ tx.price \in Nat /\ tx.royalty \in Nat
      /\ NativeChange(tx.buyer) = -tx.price
      /\ NativeChange(tx.seller) \in Int
      /\ tx.price - tx.royalty > Fee => NativeChange(tx.seller) = tx.price - tx.royalty
  BY TradeChanges
<1>4. tx.price \in AllAmounts
  <2>1. tx.buyer \in Accounts
    BY DEF Accounts, IsTransaction
  <2>2. NativeChange(tx.buyer) < 0 /\ -NativeChange(tx.buyer) = tx.price
    BY <1>3 DEF Dust
  <2> QED
    BY <2>1, <2>2 DEF AllAmounts, Debits
<1>5. /\ p.amount > Dust /\ p.confidence \in {90, 85, 70, 60} /\ p.amount \in Nat
  BY <1>2, <1>4, PriceIs DEF Accounts
<1>6. p.amount \in SaleRange
  BY <1>2, <1>5, PriceInRange
<1> HIDE DEF p
<1>7. Value \in {95, 80}
  BY DEF Value
<1>8. e.type = TypeOf(p.amount) /\ e.confidence = Minimum(p.confidence, Value)
  BY DEF TransferEvent
<1>9. TypeOf(p.amount) \notin Ignorable
  <2>1. CASE detected # "UNKNOWN"
    BY <2>1 DEF TypeOf
  <2>2. CASE p.amount > Payment
    BY <2>2 DEF TypeOf, Ignorable
  <2>3. CASE ~(p.amount > Payment)
    <3>1. ~(tx.price - tx.royalty > Payment)
      BY <1>3, <1>5, <1>6, <2>3 DEF SaleRange, Payment, Fee
    <3>2. tx.words \cap {"withdraw", "deposit"} = {}
      BY <3>1, <1>3 DEF Marked, Payment
    <3> QED
      BY <3>2, <2>1, <2>3 DEF TypeOf, Ignorable
  <2> QED
    BY <2>1, <2>2, <2>3
<1>10. e.confidence > 50
  BY <1>5, <1>7, <1>8 DEF Minimum
<1>11. e \in Inferred
  <2>1. mv \in {UnitTransfer} \ {None}
    BY <1>2
  <2>2. e \in {TransferEvent(m, Price(m.to, m.from)) : m \in {UnitTransfer} \ {None}}
    BY <2>1 DEF p
  <2>3. Value > 0
    BY <1>7
  <2> QED
    BY <2>2, <2>3, <1>8, <1>9 DEF Inferred
<1> QED
  BY <1>10, <1>11 DEF Enough

-----------------------------------------------------------------------------
(* The invariant *)

InputOK == tx \in Transactions
DetectedOK == detected \in (tx.logs \ (Ignorable \cup {"SKIP"})) \cup {"UNKNOWN"}
DiscoveredOK == discovered = [p \in Programs |-> discovered[p]]

\* An event waiting to be stored is valid when it is of a trade.
EventValid == stage = "store" /\ IsTrade(tx) /\ ~Marked => Valid

IInv ==
  /\ InputOK /\ OrderOK /\ DetectedOK /\ DiscoveredOK /\ EventValid
  /\ SalePriced /\ InferredIsPaid /\ TradeNotLost /\ IgnoredMovedNothing

\* What a step that leaves the transaction alone leaves alone.
LEMMA SameTransaction ==
  ASSUME UNCHANGED tx
  PROVE  /\ NftMoves' = NftMoves /\ AllAmounts' = AllAmounts /\ Marked' = Marked
         /\ \A program, actions : Uses(program, actions)' = Uses(program, actions)
<1>1. NftMoves' = NftMoves
  BY DEF NftMoves
<1>2. \A w : NativeChange(w)' = NativeChange(w)
  BY DEF NativeChange, BalanceChange
<1>3. AllAmounts' = AllAmounts
  BY <1>2 DEF AllAmounts, Credits, Debits
<1>4. Marked' = Marked /\ \A program, actions : Uses(program, actions)' = Uses(program, actions)
  BY DEF Marked, Uses
<1> QED
  BY <1>1, <1>3, <1>4

\* What the logs say is one of the patterns that occur in them.
LEMMA DetectedTypeIs == DetectedType \in tx.logs \cup {"UNKNOWN"}
<1> DEFINE order == <<"SKIP", "SALE", "LISTING", "CANCEL_LISTING", "BID", "BID_CANCELLED",
                      "POOL_WITHDRAW", "POOL_DEPOSIT">>
           found == {i \in DOMAIN order : order[i] \in tx.logs}
<1>1. CASE found = {}
  BY <1>1 DEF DetectedType
<1>2. CASE found # {}
  <2>1. found \subseteq Nat
    OBVIOUS
  <2>2. \E i \in found : \A j \in found : i <= j
    <3> HIDE DEF found
    <3> QED
      BY <2>1, <1>2, Least
  <2>3. PICK i \in found : DetectedType = order[i]
    BY <1>2, <2>2 DEF DetectedType
  <2> QED
    BY <2>3
<1> QED
  BY <1>1, <1>2

\* The initial states satisfy it.
LEMMA InitInv ==
  ASSUME ParserConstants, Init
  PROVE  IInv
<1>1. InputOK /\ DetectedOK /\ DiscoveredOK /\ EventValid
  BY DEF Init, InputOK, DetectedOK, DiscoveredOK, EventValid
<1>2. OrderOK
  BY DEF Init, OrderOK, Moved
<1>3. SalePriced /\ InferredIsPaid /\ TradeNotLost
  BY DEF Init, SalePriced, InferredIsPaid, TradeNotLost
<1>4. IgnoredMovedNothing
  <2>1. \A p \in Programs : discovered[p] = None
    BY DEF Init
  <2> QED
    BY <2>1, NoneIsNoAction DEF IgnoredMovedNothing
<1> QED
  BY <1>1, <1>2, <1>3, <1>4 DEF IInv

\* A step that leaves the event and the discovered rows alone, and that loses no trade.
LEMMA QuietStep ==
  ASSUME ParserConstants, IInv, UNCHANGED <<tx, event, discovered>>,
         OrderOK', DetectedOK', stage' # "store" \/ UNCHANGED stage,
         IsTrade(tx) /\ NftMoves # {} /\ tx.price > Dust /\ ~Marked
           => stage' \notin {"skipped", "nothing", "failed"}
  PROVE  IInv'
<1>1. InputOK' /\ DiscoveredOK'
  BY DEF IInv, InputOK, DiscoveredOK
<1>2. EventValid'
  BY SameTransaction DEF IInv, EventValid, Valid
<1>3. SalePriced'
  BY SameTransaction DEF IInv, SalePriced
<1>4. InferredIsPaid' /\ TradeNotLost' /\ IgnoredMovedNothing'
  BY SameTransaction DEF IInv, InferredIsPaid, TradeNotLost, IgnoredMovedNothing
<1> QED
  BY <1>1, <1>2, <1>3, <1>4 DEF IInv

\* A step that yields an event.
LEMMA EventStep ==
  ASSUME ParserConstants, IInv, UNCHANGED <<tx, transfers, detected, discovered>>,
         stage # "normalize", stage' = "store", EventValid', SalePriced', InferredIsPaid'
  PROVE  IInv'
<1>1. InputOK' /\ DetectedOK' /\ DiscoveredOK'
  BY DEF IInv, InputOK, DetectedOK, DiscoveredOK
<1>2. OrderOK'
  BY DEF IInv, OrderOK, Moved
<1>3. TradeNotLost' /\ IgnoredMovedNothing'
  BY SameTransaction DEF IInv, TradeNotLost, IgnoredMovedNothing
<1> QED
  BY <1>1, <1>2, <1>3 DEF IInv

\* Every step preserves it.
LEMMA NextInv ==
  ASSUME ParserConstants, IInv, [Next]_vars
  PROVE  IInv'
<1> USE DEF IInv
<1>1. IsTransaction(tx) /\ IsFiniteSet(tx.moves)
  BY DEF InputOK, ParserConstants
<1>2. stage # "normalize" /\ UNCHANGED <<tx, transfers, detected>> /\ stage' # "normalize"
        => OrderOK' /\ DetectedOK'
  BY DEF OrderOK, Moved, DetectedOK
<1>3. CASE Normalize
  <2>1. UNCHANGED <<tx, event, discovered, detected>> /\ stage' = "tier1"
    BY <1>3 DEF Normalize
  <2>2. OrderOK'
    <3>1. PICK order \in [1..Cardinality(tx.moves) -> tx.moves] :
            {order[i] : i \in DOMAIN order} = tx.moves /\ transfers' = order
      BY <1>3 DEF Normalize
    <3>2. Cardinality(tx.moves) \in Nat
      BY <1>1, FS_CardinalityType
    <3>3. DOMAIN order = 1..Cardinality(tx.moves) /\ 1..Cardinality(tx.moves) \subseteq Nat
      BY <3>2
    <3> QED
      BY <3>1, <3>3, <2>1 DEF OrderOK, Moved
  <2>3. DetectedOK'
    BY <2>1 DEF DetectedOK
  <2> QED
    BY <2>1, <2>2, <2>3, QuietStep
<1>4. ASSUME NEW i \in DOMAIN tx.instructions, NEW ix, ix = tx.instructions[i], Tier1_Pass(ix)
      PROVE  IInv'
  <2>1. UNCHANGED <<tx, stage, transfers, detected, event, discovered>> /\ stage = "tier1"
    BY <1>4 DEF Tier1_Pass, Reading
  <2> QED
    BY <2>1, <1>2, QuietStep
<1>5. ASSUME NEW i \in DOMAIN tx.instructions, NEW ix, ix = tx.instructions[i], Tier1_Admin(ix)
      PROVE  IInv'
  <2>1. /\ UNCHANGED <<tx, transfers, detected, event, discovered>>
        /\ stage = "tier1" /\ stage' = "skipped" /\ ix.action = "admin"
    BY <1>5 DEF Tier1_Admin, Reading
  <2>2. Marked
    BY <1>5, <2>1 DEF Marked
  <2> QED
    BY <2>1, <2>2, <1>2, QuietStep
<1>6. ASSUME NEW i \in DOMAIN tx.instructions, NEW ix, ix = tx.instructions[i], Tier1_Event(ix)
      PROVE  IInv'
  <2>1. /\ UNCHANGED <<tx, transfers, detected, discovered>>
        /\ stage = "tier1" /\ stage' = "store" /\ event' \in Parsed(ix)
    BY <1>6 DEF Tier1_Event, Reading
  <2>2. IsInstruction(ix)
    BY <1>1, <1>6 DEF IsTransaction
  <2>3. Fits(event', ix)
    BY <2>1, <2>2, <1>1, ParsedFits
  <2>4. IsTrade(tx) => Trading(ix)
    BY <1>6 DEF IsTrade, Trading
  <2>5. ~Marked => ~NeverValid(ix)
    BY <1>6 DEF Marked, NeverValid, Uses
  <2>6. EventValid'
    <3>1. SUFFICES ASSUME IsTrade(tx), ~Marked PROVE Valid'
      BY <2>1, SameTransaction DEF EventValid
    <3>2. event'.type \in ValidTypes /\ event'.amount \in Nat
      BY <3>1, <2>3, <2>5 DEF Fits
    <3>3. event'.type = "SALE" => event'.buyer # event'.seller
      BY <3>1, <2>3, <2>4 DEF Fits
    <3> QED
      BY <3>2, <3>3 DEF Valid, ParserConstants
  <2>7. SalePriced'
    <3>1. SUFFICES ASSUME event'.type = "SALE", IsTrade(tx), ~Uses("tensor_amm", {"sale"}),
                          ~Uses("tensor_cnft_marketplace", Floors)
                   PROVE  event'.amount \in (tx.price - tx.royalty - Fee)..tx.price
      BY <2>1, SameTransaction DEF SalePriced
    <3>2. ~PriceIsNot(ix)
      <4>1. CASE ix.program = "tensor_amm"
        <5>1. ix.action # "sale"
          BY <1>6, <3>1, <4>1 DEF Uses
        <5>2. Parsed(ix) = {}
          BY <4>1, <5>1 DEF Parsed, TensorAmm
        <5> QED
          BY <5>2, <2>1
      <4>2. CASE ix.program # "tensor_amm"
        BY <1>6, <3>1, <4>2 DEF PriceIsNot, Uses
      <4> QED
        BY <4>1, <4>2
    <3>3. event'.amount \in SaleRange
      BY <2>3, <2>4, <3>1, <3>2 DEF Fits
    <3>4. /\ tx.price \in Nat /\ tx.royalty \in Nat /\ NativeChange(tx.seller) \in Int
          /\ tx.price - tx.royalty - Fee <= NativeChange(tx.seller)
      BY <1>1, <3>1, TradeChanges DEF IsTrade
    <3> QED
      BY <3>3, <3>4 DEF SaleRange, Fee
  <2>8. InferredIsPaid'
    BY <2>3 DEF Fits, InferredIsPaid
  <2> QED
    BY <2>1, <2>6, <2>7, <2>8, EventStep
<1>7. ASSUME NEW i \in DOMAIN tx.instructions, NEW ix, ix = tx.instructions[i], Tier1_NoEvent(ix)
      PROVE  IInv'
  <2>1. UNCHANGED <<tx, stage, transfers, detected, event, discovered>> /\ stage = "tier1"
    BY <1>7 DEF Tier1_NoEvent, Reading
  <2> QED
    BY <2>1, <1>2, QuietStep
<1>8. ASSUME NEW i \in DOMAIN tx.instructions, NEW ix, ix = tx.instructions[i], Tier1_Learn(ix)
      PROVE  IInv'
  <2>1. UNCHANGED <<tx, stage, transfers, detected, event>> /\ stage = "tier1"
    BY <1>8 DEF Tier1_Learn, Reading
  <2>2. ix.program \in Programs
    BY <1>1, <1>8 DEF IsTransaction, IsInstruction
  <2>3. \/ UNCHANGED discovered
        \/ \E word : discovered' = [discovered EXCEPT ![ix.program] = InferredFrom(word)]
    BY <1>8 DEF Tier1_Learn
  <2>5. DiscoveredOK'
    BY <2>3 DEF DiscoveredOK
  <2>6. IgnoredMovedNothing'
    <3>1. SUFFICES ASSUME NftMoves # {} PROVE \A p \in Programs : discovered'[p] \notin IgnoreActions
      BY <2>1, SameTransaction DEF IgnoredMovedNothing
    <3>2. \A p \in Programs : discovered[p] \notin IgnoreActions
      BY <3>1 DEF IgnoredMovedNothing
    <3>3. \A word : InferredFrom(word) \notin IgnoreActions
      BY <3>1 DEF InferredFrom, IgnoreActions
    <3> QED
      BY <2>2, <2>3, <3>2, <3>3 DEF DiscoveredOK
  <2>7. InputOK' /\ OrderOK' /\ DetectedOK'
    BY <2>1, <1>2 DEF InputOK
  <2>8. EventValid' /\ SalePriced' /\ InferredIsPaid' /\ TradeNotLost'
    BY <2>1, SameTransaction DEF EventValid, Valid, SalePriced, InferredIsPaid, TradeNotLost
  <2> QED
    BY <2>5, <2>6, <2>7, <2>8
<1>9. CASE Tier1_End
  <2>1. /\ UNCHANGED <<tx, transfers, detected, event, discovered>>
        /\ stage = "tier1" /\ stage' = "tier2"
    BY <1>9 DEF Tier1_End
  <2> QED
    BY <2>1, <1>2, QuietStep
<1>10. CASE Tier2
  <2>1. /\ UNCHANGED <<tx, transfers, event, discovered>> /\ stage = "tier2"
        /\ stage' = IF DetectedType \in Ignorable \cup {"SKIP"} THEN "skipped" ELSE "tier3"
        /\ detected' = IF DetectedType \in Ignorable \cup {"SKIP"} THEN detected ELSE DetectedType
    BY <1>10 DEF Tier2
  <2>2. DetectedType \in tx.logs \cup {"UNKNOWN"}
    BY DetectedTypeIs
  <2>3. DetectedOK'
    BY <2>1, <2>2 DEF DetectedOK
  <2>4. OrderOK'
    BY <2>1 DEF OrderOK, Moved
  <2>5. stage' = "skipped" => Marked
    BY <2>1, <2>2 DEF Marked, Ignorable
  <2> QED
    BY <2>1, <2>3, <2>4, <2>5, QuietStep
<1>11. CASE Tier3_Event
  <2>1. /\ UNCHANGED <<tx, transfers, detected, discovered>>
        /\ stage = "tier3" /\ stage' = "store" /\ event' \in Inferred /\ Enough(event')
    BY <1>11 DEF Tier3_Event
  <2>2. /\ event'.tier = 3 /\ event'.amount \in AllAmounts /\ event'.amount > Dust
        /\ event'.amount \in Nat
        /\ event'.type \in ValidTypes /\ event'.buyer # event'.seller
        /\ tx.buyer # tx.seller => event'.amount \in SaleRange
    BY <2>1, <1>1, InferredIs DEF DetectedOK
  <2>3. EventValid'
    BY <2>2 DEF EventValid, Valid, ParserConstants
  <2>4. SalePriced'
    <3>1. SUFFICES ASSUME IsTrade(tx)
                   PROVE  event'.amount \in (tx.price - tx.royalty - Fee)..tx.price
      BY <2>1 DEF SalePriced
    <3>2. /\ tx.price \in Nat /\ tx.royalty \in Nat /\ NativeChange(tx.seller) \in Int
          /\ tx.price - tx.royalty - Fee <= NativeChange(tx.seller)
      BY <1>1, <3>1, TradeChanges DEF IsTrade
    <3> QED
      BY <2>2, <3>1, <3>2 DEF SaleRange, Fee, IsTrade
  <2>5. InferredIsPaid'
    BY <2>1, <2>2, SameTransaction DEF InferredIsPaid
  <2> QED
    BY <2>1, <2>3, <2>4, <2>5, EventStep
<1>12. CASE Tier3_NoEvent
  <2>1. /\ UNCHANGED <<tx, transfers, detected, event, discovered>>
        /\ stage = "tier3" /\ stage' = "nothing" /\ {e \in Inferred : Enough(e)} = {}
    BY <1>12 DEF Tier3_NoEvent
  <2>2. ~(IsTrade(tx) /\ NftMoves # {} /\ tx.price > Dust /\ ~Marked)
    BY <2>1, <1>1, TradeInferred DEF IsTrade, DetectedOK
  <2> QED
    BY <2>1, <2>2, <1>2, QuietStep
<1>13. CASE Drop
  <2>1. /\ UNCHANGED <<tx, transfers, detected, event, discovered>>
        /\ stage = "store" /\ stage' = "untracked"
    BY <1>13 DEF Drop
  <2> QED
    BY <2>1, <1>2, QuietStep
<1>14. CASE Reject
  <2>1. /\ UNCHANGED <<tx, transfers, detected, event, discovered>>
        /\ stage = "store" /\ stage' = "failed" /\ ~Valid
    BY <1>14 DEF Reject
  <2>2. ~(IsTrade(tx) /\ ~Marked)
    BY <2>1 DEF EventValid
  <2> QED
    BY <2>1, <2>2, <1>2, QuietStep
<1>15. CASE Store
  <2>1. /\ UNCHANGED <<tx, transfers, detected, event, discovered>>
        /\ stage = "store" /\ stage' = "stored"
    BY <1>15 DEF Store
  <2> QED
    BY <2>1, <1>2, QuietStep
<1>16. CASE UNCHANGED vars
  <2>1. UNCHANGED <<tx, stage, transfers, detected, event, discovered>>
    BY <1>16 DEF vars
  <2>2. OrderOK' /\ DetectedOK'
    BY <2>1 DEF OrderOK, Moved, DetectedOK
  <2>3. IsTrade(tx) /\ NftMoves # {} /\ tx.price > Dust /\ ~Marked
          => stage' \notin {"skipped", "nothing", "failed"}
    BY <2>1 DEF TradeNotLost
  <2> QED
    BY <2>1, <2>2, <2>3, QuietStep
<1> QED
  BY <1>3, <1>4, <1>5, <1>6, <1>7, <1>8, <1>9, <1>10, <1>11, <1>12, <1>13, <1>14, <1>15, <1>16
     DEF Next, Instruction

\* The invariant holds of every reachable state.
LEMMA Invariant ==
  ASSUME ParserConstants
  PROVE  Spec => []IInv
<1>1. Init => IInv
  BY InitInv
<1>2. IInv /\ [Next]_vars => IInv'
  BY NextInv
<1> QED
  BY <1>1, <1>2, PTL DEF Spec

-----------------------------------------------------------------------------
(* The types *)

EventTypes == LogTypes \cup {"LISTING_EDIT", "MINT", "BURN", "TRANSFER"}
Parties == Wallets \cup {None}
Mints == NFTs \cup {Coin, None}
Amounts == Nat \cup {None}
Collections == {"tracked", "other", ""}

\* What Event builds is an event when its arguments have their types.
LEMMA EventTyped ==
  ASSUME NEW type \in EventTypes, NEW mint \in Mints, NEW amount \in Amounts,
         NEW buyer \in Parties, NEW seller \in Parties, NEW collection \in Collections,
         NEW e, e = Event(type, mint, amount, buyer, seller, collection)
  PROVE  IsEvent(e)
<1>1. /\ e.type = type /\ e.mint = mint /\ e.amount = amount /\ e.buyer = buyer
      /\ e.seller = seller /\ e.collection = collection /\ e.tier = 1 /\ e.confidence = 95
  BY DEF Event
<1> QED
  BY <1>1 DEF IsEvent, EventTypes, Mints, Amounts, Parties, Collections

\* The fields of an instruction, and what the look-ups make of them.
LEMMA FieldsTyped ==
  ASSUME NEW ix, IsInstruction(ix)
  PROVE  /\ ix.buyer \in Parties /\ ix.seller \in Parties /\ None \in Parties
         /\ ix.mint \in Mints /\ None \in Mints
         /\ ix.price \in Amounts /\ 0 \in Amounts /\ 1 \in Amounts /\ None \in Amounts
         /\ CollectionOf(ix.mint) \in Collections /\ Lookup(ix.mint) \subseteq Collections
         /\ "" \in Collections /\ "other" \in Collections
  BY DEF IsInstruction, Parties, Mints, Amounts, Collections, CollectionOf, Lookup

\* The transfer that names an NFT and its parties.
LEMMA TransferTyped ==
  ASSUME IsTransaction(tx), OrderOK, stage # "normalize"
  PROVE  /\ NftTransfer # None =>
              /\ NftTransfer.mint \in Mints
              /\ NftTransfer.from \in Parties /\ NftTransfer.to \in Parties
         /\ MintOfTransfer \in Mints
<1>1. NftTransfer # None => NftTransfer \in Move
  BY NftTransferIs DEF NftMoves, IsTransaction
<1> QED
  BY <1>1 DEF Move, Mints, Parties, MintOfTransfer

\* The sales.
LEMMA SaleOfTransferTyped ==
  ASSUME IsTransaction(tx), OrderOK, stage # "normalize", NEW amount \in Amounts,
         NEW e \in SaleOfTransfer(amount)
  PROVE  IsEvent(e)
<1>1. PICK mv \in {NftTransfer} \ {None} : e = Event("SALE", mv.mint, amount, mv.to, mv.from, "")
  BY DEF SaleOfTransfer
<1>2. /\ mv.mint \in Mints /\ mv.from \in Parties /\ mv.to \in Parties
      /\ "SALE" \in EventTypes /\ "" \in Collections
  BY TransferTyped DEF EventTypes, LogTypes, Collections
<1> QED
  BY <1>1, <1>2, EventTyped

LEMMA SaleOfAccountsTyped ==
  ASSUME NEW ix, IsInstruction(ix), NEW mint \in Mints, NEW amount \in Amounts,
         NEW e \in SaleOfAccounts(ix, mint, amount)
  PROVE  IsEvent(e)
<1>1. e = Event("SALE", mint, amount, ix.buyer, ix.seller, "") /\ "SALE" \in EventTypes
  BY DEF SaleOfAccounts, EventTypes, LogTypes
<1> QED
  BY <1>1, FieldsTyped, EventTyped

\* The amounts read from the balances.
LEMMA AmountsTyped ==
  ASSUME IsTransaction(tx)
  PROVE  /\ Largest(AllAmounts) \in Amounts
         /\ \A who : Largest(Credits(who)) \in Amounts
         /\ \A w : CreditOf(w) \in Amounts
         /\ AllAmounts \subseteq Amounts
  BY BalanceAmounts, AmountBounds DEF Amounts, CreditOf

\* Magic Eden v2.
LEMMA MagicEdenV2Typed ==
  ASSUME IsTransaction(tx), OrderOK, stage # "normalize",
         NEW ix, IsInstruction(ix), NEW e \in MagicEdenV2(ix)
  PROVE  IsEvent(e)
<1>1. {"LISTING", "CANCEL_LISTING", "POOL_DEPOSIT", "POOL_WITHDRAW"} \subseteq EventTypes
  BY DEF EventTypes, LogTypes
<1>2. CASE ix.action = "sale"
  BY <1>2, FieldsTyped, SaleOfTransferTyped DEF MagicEdenV2
<1>3. CASE ix.action = "core_sale"
  BY <1>3, FieldsTyped, AmountsTyped, SaleOfAccountsTyped DEF MagicEdenV2
<1>4. CASE ix.action = "listing"
  <2>1. PICK c \in Lookup(ix.mint) : e = Event("LISTING", ix.mint, ix.price, None, ix.seller, c)
    BY <1>4 DEF MagicEdenV2, ListingV2
  <2> QED
    BY <2>1, <1>1, FieldsTyped, EventTyped
<1>5. CASE ix.action \in {"cancel_sell", "mip1_cancel_sell", "core_cancel_sell"}
  <2>1. e \in CancelV2(ix)
    BY <1>5 DEF MagicEdenV2
  <2>2. PICK m \in Mints, w \in Parties : e = Event("CANCEL_LISTING", m, 0, None, w, "")
    <3>1. CASE ix.action = "cancel_sell"
      BY <2>1, <3>1, FieldsTyped, TransferTyped DEF CancelV2
    <3>2. CASE ix.action = "mip1_cancel_sell"
      BY <2>1, <3>2, FieldsTyped, TransferTyped DEF CancelV2
    <3>3. CASE ix.action = "core_cancel_sell"
      BY <2>1, <3>3, FieldsTyped DEF CancelV2
    <3> QED
      BY <1>5, <3>1, <3>2, <3>3
  <2> QED
    BY <2>2, <1>1, FieldsTyped, EventTyped
<1>6. CASE ix.action \in {"deposit", "withdraw"}
  <2>1. PICK type \in {"POOL_DEPOSIT", "POOL_WITHDRAW"} :
          e = Event(type, None, ix.price, ix.buyer, None, "")
    BY <1>6 DEF MagicEdenV2
  <2> QED
    BY <2>1, <1>1, FieldsTyped, EventTyped
<1>7. CASE ix.action \notin {"sale", "core_sale", "listing", "cancel_sell", "mip1_cancel_sell",
                            "core_cancel_sell", "deposit", "withdraw"}
  BY <1>7 DEF MagicEdenV2
<1> QED
  BY <1>2, <1>3, <1>4, <1>5, <1>6, <1>7

\* Magic Eden MMM.
LEMMA MagicEdenMMMTyped ==
  ASSUME IsTransaction(tx), OrderOK, stage # "normalize",
         NEW ix, IsInstruction(ix), NEW e \in MagicEdenMMM(ix)
  PROVE  IsEvent(e)
<1>1. {"POOL_DEPOSIT", "POOL_WITHDRAW"} \subseteq EventTypes
  BY DEF EventTypes, LogTypes
<1>2. CASE ix.action = "sale"
  BY <1>2, AmountsTyped, SaleOfTransferTyped DEF MagicEdenMMM
<1>3. CASE ix.action = "cnft_sale"
  BY <1>3, FieldsTyped, AmountsTyped, SaleOfAccountsTyped DEF MagicEdenMMM
<1>4. CASE ix.action \in {"deposit_sell", "withdraw_sell"}
  <2>1. PICK type \in {"POOL_DEPOSIT", "POOL_WITHDRAW"} : e \in PoolNft(ix, type)
    BY <1>4 DEF MagicEdenMMM
  <2>2. PICK mv \in {NftTransfer} \ {None} : e = Event(type, mv.mint, 1, None, ix.seller, "")
    BY <2>1 DEF PoolNft
  <2>3. mv.mint \in Mints
    BY TransferTyped
  <2> QED
    BY <2>2, <2>3, <1>1, FieldsTyped, EventTyped
<1>5. CASE ix.action \in {"sol_deposit_buy", "sol_withdraw_buy"}
  <2>1. PICK type \in {"POOL_DEPOSIT", "POOL_WITHDRAW"} :
          e = Event(type, None, ix.price, ix.buyer, None, "")
    BY <1>5 DEF MagicEdenMMM, PoolSol
  <2> QED
    BY <2>1, <1>1, FieldsTyped, EventTyped
<1>6. CASE ix.action \notin {"sale", "cnft_sale", "deposit_sell", "withdraw_sell",
                            "sol_deposit_buy", "sol_withdraw_buy"}
  BY <1>6 DEF MagicEdenMMM
<1> QED
  BY <1>2, <1>3, <1>4, <1>5, <1>6

\* Tensor's marketplace.
LEMMA TensorCnftTyped ==
  ASSUME IsTransaction(tx), OrderOK, stage # "normalize",
         NEW ix, IsInstruction(ix), NEW e \in TensorCnft(ix)
  PROVE  IsEvent(e)
<1>1. {"LISTING", "CANCEL_LISTING", "BID", "BID_CANCELLED", "LISTING_EDIT"} \subseteq EventTypes
  BY DEF EventTypes, LogTypes
<1>2. CASE ix.action \in {"buy", "buy_core"}
  <2>1. PICK mint \in {None, ix.mint} : e \in SaleOfAccounts(ix, mint, CreditOf(ix.seller))
    BY <1>2 DEF TensorCnft
  <2>2. mint \in Mints
    BY FieldsTyped
  <2> QED
    BY <2>1, <2>2, AmountsTyped, SaleOfAccountsTyped
<1>3. CASE ix.action \in {"list", "list_core", "delist", "delist_core"}
  <2>1. PICK type \in {"LISTING", "CANCEL_LISTING"}, amount \in {ix.price, 0} :
          e \in TensorList(ix, type, amount)
    BY <1>3 DEF TensorCnft
  <2>2. PICK mint \in {None, ix.mint} : e = Event(type, mint, amount, None, ix.seller, "")
    BY <2>1 DEF TensorList
  <2>3. mint \in Mints /\ amount \in Amounts
    BY FieldsTyped
  <2> QED
    BY <2>2, <2>3, <1>1, FieldsTyped, EventTyped
<1>4. CASE ix.action = "bid"
  <2>1. e \in TensorBid(ix)
    BY <1>4 DEF TensorCnft
  <2>2. PICK mint \in {None, ix.mint}, c \in Collections :
          e = Event("BID", mint, ix.price, ix.buyer, None, c)
    BY <2>1, FieldsTyped DEF TensorBid
  <2>3. mint \in Mints
    BY FieldsTyped
  <2> QED
    BY <2>2, <2>3, <1>1, FieldsTyped, EventTyped
<1>5. CASE ix.action = "cancel_bid"
  BY <1>1, <1>5, FieldsTyped, EventTyped DEF TensorCnft, TensorCancelBid
<1>6. CASE ix.action \in {"take_bid", "take_bid_meta_hash"}
  <2>1. e \in TensorTakeBid(ix)
    BY <1>6 DEF TensorCnft
  <2>2. CASE ix.action = "take_bid"
    <3>1. e \in SaleOfAccounts(ix, MintOfTransfer, ix.price)
      BY <2>1, <2>2 DEF TensorTakeBid
    <3> QED
      BY <3>1, FieldsTyped, TransferTyped, SaleOfAccountsTyped
  <2>3. CASE ix.action = "take_bid_meta_hash"
    <3>1. PICK amount \in {ix.price, Largest(Credits(Accounts))} :
            e \in SaleOfAccounts(ix, None, amount)
      BY <2>1, <2>3 DEF TensorTakeBid
    <3>2. amount \in Amounts
      BY FieldsTyped, AmountsTyped
    <3> QED
      BY <3>1, <3>2, FieldsTyped, SaleOfAccountsTyped
  <2> QED
    BY <1>6, <2>2, <2>3
<1>7. CASE ix.action = "edit"
  <2>1. e \in TensorEdit(ix)
    BY <1>7 DEF TensorCnft
  <2>2. PICK mint \in {None, ix.mint}, c \in Collections :
          e = Event("LISTING_EDIT", mint, ix.price, None, ix.seller, c)
    BY <2>1, FieldsTyped DEF TensorEdit
  <2>3. mint \in Mints
    BY FieldsTyped
  <2> QED
    BY <2>2, <2>3, <1>1, FieldsTyped, EventTyped
<1>8. CASE ix.action \notin {"buy", "buy_core", "list", "list_core", "delist", "delist_core", "bid",
                            "cancel_bid", "take_bid", "take_bid_meta_hash", "edit"}
  BY <1>8 DEF TensorCnft
<1> QED
  BY <1>2, <1>3, <1>4, <1>5, <1>6, <1>7, <1>8

\* Metaplex Core.
LEMMA MplCoreTyped ==
  ASSUME IsTransaction(tx), NEW ix, IsInstruction(ix), NEW e \in MplCore(ix)
  PROVE  IsEvent(e)
<1>1. {"MINT", "BURN", "TRANSFER"} \subseteq EventTypes
  BY DEF EventTypes
<1>2. PICK type \in {"MINT", "BURN", "TRANSFER"}, amount \in AllAmounts \cup {None},
           buyer \in {None, ix.buyer}, seller \in {None, ix.seller} :
        e = Event(type, ix.mint, amount, buyer, seller, CollectionOf(ix.mint))
  <2>1. CASE ix.action = "create"
    <3>1. e \in MplCoreMint(ix)
      BY <2>1 DEF MplCore
    <3>2. PICK amount \in AllAmounts \cup {None} :
            e = Event("MINT", ix.mint, amount, ix.buyer, None, CollectionOf(ix.mint))
      BY <3>1 DEF MplCoreMint
    <3> QED
      BY <3>2
  <2>2. CASE ix.action = "burn"
    BY <2>2 DEF MplCore, MplCoreBurn
  <2>3. CASE ix.action = "transfer"
    BY <2>3 DEF MplCore, MplCoreTransfer
  <2> QED
    BY <2>1, <2>2, <2>3 DEF MplCore
<1>3. amount \in Amounts /\ buyer \in Parties /\ seller \in Parties
  BY FieldsTyped, AmountsTyped DEF Amounts
<1> QED
  BY <1>1, <1>2, <1>3, FieldsTyped, EventTyped

\* Any event of tier 1.
LEMMA ParsedTyped ==
  ASSUME IsTransaction(tx), OrderOK, stage # "normalize",
         NEW ix, IsInstruction(ix), NEW e \in Parsed(ix)
  PROVE  IsEvent(e)
<1>1. CASE ix.program \in {"magic_eden_v2", "magic_eden_mmm"}
  BY <1>1, MagicEdenV2Typed, MagicEdenMMMTyped DEF Parsed
<1>2. CASE ix.program = "tensor_cnft_marketplace"
  BY <1>2, TensorCnftTyped DEF Parsed
<1>3. CASE ix.program = "tensor_amm"
  BY <1>3, FieldsTyped, SaleOfTransferTyped DEF Parsed, TensorAmm
<1>4. CASE ix.program = "mpl_core"
  BY <1>4, MplCoreTyped DEF Parsed
<1>5. CASE ix.program \notin {"magic_eden_v2", "magic_eden_mmm", "tensor_cnft_marketplace",
                              "tensor_amm", "mpl_core"}
  BY <1>5 DEF Parsed
<1> QED
  BY <1>1, <1>2, <1>3, <1>4, <1>5

\* Tier 3's event: the confidence is that of its price, capped by that of its value.
LEMMA InferredTyped ==
  ASSUME ParserConstants, IsTransaction(tx), OrderOK, stage # "normalize",
         detected \in (tx.logs \ (Ignorable \cup {"SKIP"})) \cup {"UNKNOWN"},
         NEW e \in Inferred, Enough(e)
  PROVE  IsEvent(e)
<1>1. PICK mv \in {UnitTransfer} \ {None} : e = TransferEvent(mv, Price(mv.to, mv.from))
  BY DEF Inferred
<1>2. mv \in tx.moves
  BY UnitTransferIs
<1>3. mv.from \in Wallets /\ mv.to \in Wallets /\ mv.mint \in NFTs \cup {Coin}
  BY <1>2 DEF IsTransaction, Move
<1> DEFINE p == Price(mv.to, mv.from)
<1>4. /\ e.tier = 3 /\ e.amount = p.amount /\ e.buyer = mv.to /\ e.seller = mv.from
      /\ e.mint = mv.mint /\ e.collection = ""
      /\ e.type = TypeOf(p.amount) /\ e.confidence = Minimum(p.confidence, Value)
  BY <1>1 DEF TransferEvent
<1>5. p.confidence \in {90, 85, 70, 60, 50} /\ p.amount \in Nat
  BY <1>3, PriceIs DEF Accounts
<1> HIDE DEF p
<1>6. Value \in {95, 80, 70, 0}
  BY DEF Value
<1>7. e.confidence \in {60, 70, 80, 85, 90, 95}
  <2>1. e.confidence \in {p.confidence, Value}
    BY <1>4 DEF Minimum
  <2>2. e.confidence > 50
    BY DEF Enough
  <2>3. e.confidence # 50 /\ e.confidence # 0
    BY <2>2
  <2> QED
    BY <2>1, <2>3, <1>5, <1>6
<1>8. e.type \in LogTypes \cup {"TRANSFER"}
  <2>1. tx.logs \subseteq LogTypes
    BY DEF IsTransaction
  <2> QED
    BY <1>4, <2>1 DEF TypeOf, LogTypes
<1>9. e.mint \in NFTs \cup {Coin, None} /\ {e.buyer, e.seller} \subseteq Wallets \cup {None}
  BY <1>3, <1>4
<1>10. e.amount \in Nat \cup {None} /\ e.tier = 3 /\ e.collection = ""
  BY <1>4, <1>5
<1> QED
  BY <1>7, <1>8, <1>9, <1>10 DEF IsEvent

\* The conjunct of TypeOK about the event, and the rest of what IInv does not say.
WithEvent == {"store", "untracked", "failed", "stored"}
TypedEvent == IF stage \in WithEvent THEN IsEvent(event) ELSE event = None
TypedPlace ==
  /\ stage \in {"normalize", "tier1", "tier2", "tier3", "store"} \cup Outcomes
  /\ next \in 1..Len(tx.instructions) + 1
  /\ stage = "normalize" => transfers = <<>>

\* With the invariant they are TypeOK.
LEMMA TypedIs ==
  ASSUME ParserConstants, IInv, TypedEvent, TypedPlace
  PROVE  TypeOK
<1>1. IsTransaction(tx)
  BY DEF IInv, InputOK, ParserConstants
<1>2. detected \in (LogTypes \ (Ignorable \cup {"SKIP"})) \cup {"UNKNOWN"}
  BY <1>1 DEF IInv, DetectedOK, IsTransaction
<1>3. {transfers[i] : i \in DOMAIN transfers} = IF stage = "normalize" THEN {} ELSE tx.moves
  <2>1. CASE stage = "normalize"
    BY <2>1 DEF TypedPlace
  <2>2. CASE stage # "normalize"
    BY <2>2 DEF IInv, OrderOK, Moved
  <2> QED
    BY <2>1, <2>2
<1> QED
  BY <1>1, <1>2, <1>3 DEF TypeOK, TypedEvent, TypedPlace, WithEvent

\* Tier 1 reads no instruction past the last.
LEMMA NextInRange ==
  ASSUME IsTransaction(tx), TypedPlace, next' \in {next, next + 1}, UNCHANGED tx,
         next' = next + 1 => next <= Len(tx.instructions)
  PROVE  next' \in 1..Len(tx'.instructions) + 1
<1>1. Len(tx.instructions) \in Nat
  BY DEF IsTransaction
<1> QED
  BY <1>1 DEF TypedPlace

\* Every step preserves them.
LEMMA TypedStep ==
  ASSUME ParserConstants, IInv, TypedEvent, TypedPlace, [Next]_vars
  PROVE  TypedEvent' /\ TypedPlace'
<1>1. IsTransaction(tx)
  BY DEF IInv, InputOK, ParserConstants
<1>2. CASE UNCHANGED vars
  BY <1>2 DEF vars, TypedEvent, TypedPlace, IsEvent
<1>3. CASE Normalize
  BY <1>3 DEF Normalize, TypedEvent, TypedPlace, WithEvent
<1>4. ASSUME NEW i \in DOMAIN tx.instructions, NEW ix, ix = tx.instructions[i],
             Tier1_Pass(ix) \/ Tier1_NoEvent(ix) \/ Tier1_Learn(ix)
      PROVE  TypedEvent' /\ TypedPlace'
  <2>1. /\ stage = "tier1" /\ UNCHANGED <<tx, stage, transfers, event>>
        /\ next' = next + 1 /\ next <= Len(tx.instructions)
    BY <1>4 DEF Tier1_Pass, Tier1_NoEvent, Tier1_Learn, Reading
  <2>2. next' \in 1..Len(tx'.instructions) + 1
    BY <1>1, <2>1, NextInRange
  <2> QED
    BY <2>1, <2>2 DEF TypedEvent, TypedPlace, WithEvent
<1>5. ASSUME NEW i \in DOMAIN tx.instructions, NEW ix, ix = tx.instructions[i], Tier1_Admin(ix)
      PROVE  TypedEvent' /\ TypedPlace'
  BY <1>5 DEF Tier1_Admin, Reading, TypedEvent, TypedPlace, WithEvent, Outcomes
<1>6. ASSUME NEW i \in DOMAIN tx.instructions, NEW ix, ix = tx.instructions[i], Tier1_Event(ix)
      PROVE  TypedEvent' /\ TypedPlace'
  <2>1. /\ stage = "tier1" /\ stage' = "store" /\ UNCHANGED <<tx, next, transfers>>
        /\ event' \in Parsed(ix)
    BY <1>6 DEF Tier1_Event, Reading
  <2>2. IsInstruction(ix)
    BY <1>1, <1>6 DEF IsTransaction
  <2>3. IsEvent(event')
    BY <2>1, <2>2, <1>1, ParsedTyped DEF IInv
  <2> QED
    BY <2>1, <2>3 DEF TypedEvent, TypedPlace, WithEvent, IsEvent
<1>7. CASE Tier1_End \/ Tier2 \/ Tier3_NoEvent
  BY <1>7 DEF Tier1_End, Tier2, Tier3_NoEvent, TypedEvent, TypedPlace, WithEvent, Outcomes
<1>8. CASE Tier3_Event
  <2>1. /\ stage = "tier3" /\ stage' = "store" /\ UNCHANGED <<tx, next, transfers>>
        /\ event' \in Inferred /\ Enough(event')
    BY <1>8 DEF Tier3_Event
  <2>2. IsEvent(event')
    BY <2>1, <1>1, InferredTyped DEF IInv, DetectedOK
  <2> QED
    BY <2>1, <2>2 DEF TypedEvent, TypedPlace, WithEvent, IsEvent
<1>9. CASE Drop \/ Reject \/ Store
  <2>1. /\ stage = "store" /\ stage' \in {"untracked", "failed", "stored"}
        /\ UNCHANGED <<tx, next, transfers, event>>
    BY <1>9 DEF Drop, Reject, Store
  <2>2. IsEvent(event')
    BY <2>1 DEF TypedEvent, WithEvent
  <2>3. IF stage' \in WithEvent THEN IsEvent(event') ELSE event' = None
    BY <2>1, <2>2 DEF WithEvent
  <2>4. TypedEvent'
    BY <2>3 DEF TypedEvent, WithEvent, IsEvent
  <2>5. TypedPlace'
    BY <2>1 DEF TypedPlace, Outcomes
  <2> QED
    BY <2>4, <2>5
<1> QED
  BY <1>2, <1>3, <1>4, <1>5, <1>6, <1>7, <1>8, <1>9 DEF Next, Instruction

-----------------------------------------------------------------------------
(* The theorems *)

\* What tier 3 takes from the transfers alone was paid for: more than the dust
\* threshold moved, and the amount recorded did.
THEOREM InferredPaid == Spec => []InferredIsPaid
<1>1. Spec => []IInv
  BY ParserConstants, Invariant
<1>2. IInv => InferredIsPaid
  BY DEF IInv
<1> QED
  BY <1>1, <1>2, PTL

\* An NFT that is traded above the threshold, in a transaction that nothing marks as
\* administration, is not skipped, missed or rejected by any tier.
THEOREM TradeKept == Spec => []TradeNotLost
<1>1. Spec => []IInv
  BY ParserConstants, Invariant
<1>2. IInv => TradeNotLost
  BY DEF IInv
<1> QED
  BY <1>1, <1>2, PTL

\* The amount of a sale is between the seller's proceeds and the price, up to one fee.
THEOREM SaleAmount == Spec => []SalePriced
<1>1. Spec => []IInv
  BY ParserConstants, Invariant
<1>2. IInv => SalePriced
  BY DEF IInv
<1> QED
  BY <1>1, <1>2, PTL

\* A discriminator learnt as one to ignore moved no NFT.
THEOREM IgnoredHarmless == Spec => []IgnoredMovedNothing
<1>1. Spec => []IInv
  BY ParserConstants, Invariant
<1>2. IInv => IgnoredMovedNothing
  BY DEF IInv
<1> QED
  BY <1>1, <1>2, PTL

\* Whatever the transaction, every parser builds a well-formed event, tier 3 only one
\* it trusts, and the call ends in one of its outcomes.
THEOREM ParserTyped == Spec => []TypeOK
<1>1. Init => TypedEvent /\ TypedPlace
  <2>1. Init => Len(tx.instructions) \in Nat
    BY ParserConstants DEF Init, ParserConstants, IsTransaction
  <2> QED
    BY <2>1 DEF Init, TypedEvent, TypedPlace, WithEvent
<1>2. IInv /\ TypedEvent /\ TypedPlace /\ [Next]_vars => TypedEvent' /\ TypedPlace'
  BY ParserConstants, TypedStep
<1>3. IInv /\ TypedEvent /\ TypedPlace => TypeOK
  BY ParserConstants, TypedIs
<1>4. Spec => []IInv
  BY ParserConstants, Invariant
<1> QED
  BY <1>1, <1>2, <1>3, <1>4, PTL DEF Spec
=============================================================================
