------------------------------ MODULE EventLog ------------------------------
(***************************************************************************)
(* What the indexer promises to those who read its tables, whatever runs   *)
(* concurrently and wherever it crashes: an event is stored for good; a    *)
(* row of failed transactions goes only when its event has been stored;    *)
(* and the owner of an NFT is one its provider named or the buyer of a     *)
(* sale or transfer that has been stored.                                  *)
(***************************************************************************)
EXTENDS Integers, Sequences

CONSTANTS Mints, Wallets, Kinds, None

VARIABLES
  chain,   \* the transactions of the tracked collections, oldest first
  stored,  \* those with an NFTEvent row
  failed,  \* those with a FailedTransaction row
  owner    \* NFT.owner by mint, None where there is no NFT row

vars == <<chain, stored, failed, owner>>

Tx == [mint : Mints, kind : Kinds, buyer : Wallets]

Init ==
  /\ chain = <<>> /\ stored = {} /\ failed = {}
  /\ owner = [m \in Mints |-> None]

Transact ==
  /\ \E t \in Tx : chain' = Append(chain, t)
  /\ UNCHANGED <<stored, failed, owner>>

Store(i) ==
  /\ stored' = stored \cup {i}
  /\ UNCHANGED <<chain, failed, owner>>

Fail(i) ==
  /\ failed' = failed \cup {i}
  /\ UNCHANGED <<chain, stored, owner>>

Recover(i) ==
  /\ i \in failed \cap stored
  /\ failed' = failed \ {i}
  /\ UNCHANGED <<chain, stored, owner>>

\* The provider that lists a collection's NFTs names the owner.
Retrieve(m) ==
  /\ \E w \in Wallets : owner' = [owner EXCEPT ![m] = w]
  /\ UNCHANGED <<chain, stored, failed>>

Follow(i) ==
  /\ i \in stored /\ chain[i].kind = "SALE"
  /\ owner[chain[i].mint] # None
  /\ owner' = [owner EXCEPT ![chain[i].mint] = chain[i].buyer]
  /\ UNCHANGED <<chain, stored, failed>>

Next ==
  \/ Transact
  \/ \E i \in DOMAIN chain : Store(i) \/ Fail(i) \/ Recover(i) \/ Follow(i)
  \/ \E m \in Mints : Retrieve(m)

Spec == Init /\ [][Next]_vars
=============================================================================
