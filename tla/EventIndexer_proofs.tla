------------------------ MODULE EventIndexer_proofs -------------------------
(***************************************************************************)
(* Proofs about EventIndexer, for every value of its constants.            *)
(*                                                                         *)
(* IndexerInv is inductive, and under it every step of the indexer is a    *)
(* step of EventLog or a stutter.  What a parse knows of its transaction   *)
(* survives the steps of the others because the history, the stored events *)
(* and the NFT rows only grow (Grows); so a step is looked at once for the *)
(* types, once for the slot it moves, and once for the tables it writes.   *)
(* Last, what the tables and the sources' memory keep together: nothing    *)
(* received is dropped, and an owner has held his NFT.                     *)
(***************************************************************************)
EXTENDS EventIndexer, SequenceTheorems, TLAPS

----------------------------------------------------------------------------
(* Rows and transactions                                                   *)

\* A transaction of the history has a mint, a kind and a buyer.
LEMMA TxType ==
  ASSUME TypeOK, NEW i \in DOMAIN chain
  PROVE  mint(i) \in Mints /\ chain[i].buyer \in Wallets /\ i \in Nat \ {0}
<1>1. chain \in Seq(Tx) /\ Len(chain) \in Nat /\ DOMAIN chain = 1 .. Len(chain)
  BY DEF TypeOK
<1>2. chain[i] \in Tx /\ i \in Nat \ {0}
  BY <1>1
<1> QED
  BY <1>2 DEF Tx, mint

\* A slot holds a step and the position of a transaction, or 0.
LEMMA SlotType ==
  ASSUME TypeOK, NEW p \in Slots
  PROVE  parse[p].step \in Steps /\ parse[p].tx \in DOMAIN chain \cup {0}
BY DEF TypeOK

\* The owner a provider names is a wallet.
LEMMA OwnerType ==
  ASSUME TypeOK, NEW m \in Mints
  PROVE  CurrentOwner(m) \in Wallets /\ CurrentOwner(m) # None
<1>1. Minter \in Wallets /\ None \notin Wallets
  BY IndexerConstants DEF IndexerConstants
<1>2. CASE LastMove(m) = {}
  BY <1>1, <1>2 DEF CurrentOwner
<1>3. CASE LastMove(m) # {}
  <2>1. (CHOOSE i \in LastMove(m) : TRUE) \in LastMove(m)
    BY <1>3
  <2>2. LastMove(m) \subseteq DOMAIN chain
    BY DEF LastMove, Moves
  <2>3. chain[CHOOSE i \in LastMove(m) : TRUE].buyer \in Wallets
    BY <2>1, <2>2, TxType
  <2> QED
    BY <1>1, <1>3, <2>3 DEF CurrentOwner
<1> QED
  BY <1>2, <1>3

\* Where Grows holds, what was known of rows and transactions stays true.
Grows ==
  /\ DOMAIN chain \subseteq DOMAIN chain'
  /\ \A i \in DOMAIN chain : chain'[i] = chain[i]
  /\ stored \subseteq stored'
  /\ \A m \in Mints : owner[m] # None => owner'[m] # None

\* A new transaction extends the history.
LEMMA TransactGrows ==
  ASSUME TypeOK, NEW t \in Tx, chain' = Append(chain, t)
  PROVE  /\ chain' \in Seq(Tx) /\ DOMAIN chain \subseteq DOMAIN chain'
         /\ \A i \in DOMAIN chain : chain'[i] = chain[i]
<1>1. chain \in Seq(Tx)
  BY DEF TypeOK
<1>2. /\ chain' \in Seq(Tx) /\ Len(chain') = Len(chain) + 1
      /\ \A i \in 1 .. Len(chain) : chain'[i] = chain[i]
  BY <1>1, AppendProperties
<1>3. DOMAIN chain = 1 .. Len(chain) /\ DOMAIN chain' = 1 .. Len(chain')
      /\ Len(chain) \in Nat
  BY <1>1, <1>2
<1> QED
  BY <1>2, <1>3

\* A sequence of old transactions is one of new transactions.
LEMMA QueueGrows ==
  ASSUME DOMAIN chain \subseteq DOMAIN chain', NEW s \in Seq(DOMAIN chain)
  PROVE  s \in Seq(DOMAIN chain')
BY SeqMonotonic

----------------------------------------------------------------------------
(* The rows of failed transactions                                         *)

\* Adding a row.
LEMMA AppendRow ==
  ASSUME TypeOK, FailedUnique, NEW i \in DOMAIN chain, i \notin FailedTxs,
         failed' = Append(failed, i), UNCHANGED chain
  PROVE  /\ failed' \in Seq(DOMAIN chain) /\ FailedUnique'
         /\ FailedTxs' = FailedTxs \cup {i}
<1>1. failed \in Seq(DOMAIN chain)
  BY DEF TypeOK
<1>2. /\ failed' \in Seq(DOMAIN chain) /\ Len(failed') = Len(failed) + 1
      /\ \A k \in 1 .. Len(failed) : failed'[k] = failed[k]
      /\ failed'[Len(failed) + 1] = i
  BY <1>1, AppendProperties
<1>3. DOMAIN failed = 1 .. Len(failed) /\ DOMAIN failed' = 1 .. Len(failed')
      /\ Len(failed) \in Nat
  BY <1>1, <1>2
<1>4. DOMAIN failed' = DOMAIN failed \cup {Len(failed) + 1}
  BY <1>2, <1>3
<1>5. FailedTxs' = FailedTxs \cup {i}
  BY <1>2, <1>3, <1>4 DEF FailedTxs
<1>6. FailedUnique'
  BY <1>2, <1>3, <1>4 DEF FailedUnique, FailedTxs
<1> QED
  BY <1>2, <1>5, <1>6

\* Removing one.
LEMMA RemoveRow ==
  ASSUME TypeOK, FailedUnique, NEW i, failed' = WithoutRow(i),
         UNCHANGED chain
  PROVE  /\ failed' \in Seq(DOMAIN chain) /\ FailedUnique'
         /\ FailedTxs' = FailedTxs \ {i}
<1>1. failed \in Seq(DOMAIN chain) /\ Len(failed) \in Nat
      /\ DOMAIN failed = 1 .. Len(failed)
  BY DEF TypeOK
<1>2. CASE i \notin FailedTxs
  BY <1>1, <1>2 DEF WithoutRow, FailedTxs, FailedUnique
<1>3. CASE i \in FailedTxs
  <2> DEFINE k == CHOOSE j \in DOMAIN failed : failed[j] = i
  <2>1. k \in DOMAIN failed /\ failed[k] = i
    BY <1>3 DEF FailedTxs
  <2> DEFINE a == SubSeq(failed, 1, k - 1)
             b == SubSeq(failed, k + 1, Len(failed))
  <2>2. failed' = a \o b
    BY <1>3 DEF WithoutRow
  <2> HIDE DEF k
  <2>3. k \in 1 .. Len(failed) /\ k \in Nat
    BY <1>1, <2>1
  <2>4. \A j \in DOMAIN failed : failed[j] \in DOMAIN chain
    BY <1>1
  <2>5. /\ a \in Seq(DOMAIN chain) /\ Len(a) = k - 1
        /\ \A j \in 1 .. k - 1 : a[j] = failed[j]
    <3>1. \A j \in 1 .. k - 1 : failed[j] \in DOMAIN chain
      BY <1>1, <2>3, <2>4
    <3> HIDE DEF a
    <3>2. /\ SubSeq(failed, 1, k - 1) \in Seq(DOMAIN chain)
          /\ Len(SubSeq(failed, 1, k - 1))
               = IF 1 <= k - 1 THEN k - 1 - 1 + 1 ELSE 0
          /\ \A j \in 1 .. k - 1 - 1 + 1 :
               SubSeq(failed, 1, k - 1)[j] = failed[1 + j - 1]
      BY <2>3, <3>1, SubSeqProperties
    <3> QED
      BY <2>3, <3>2 DEF a
  <2>6. /\ b \in Seq(DOMAIN chain) /\ Len(b) = Len(failed) - k
        /\ \A j \in 1 .. Len(failed) - k : b[j] = failed[k + j]
    <3>1. \A j \in k + 1 .. Len(failed) : failed[j] \in DOMAIN chain
      BY <1>1, <2>3, <2>4
    <3> HIDE DEF b
    <3>2. /\ SubSeq(failed, k + 1, Len(failed)) \in Seq(DOMAIN chain)
          /\ Len(SubSeq(failed, k + 1, Len(failed)))
               = IF k + 1 <= Len(failed) THEN Len(failed) - (k + 1) + 1 ELSE 0
          /\ \A j \in 1 .. Len(failed) - (k + 1) + 1 :
               SubSeq(failed, k + 1, Len(failed))[j] = failed[k + 1 + j - 1]
      BY <1>1, <2>3, <3>1, SubSeqProperties
    <3>3. /\ Len(failed) - (k + 1) + 1 = Len(failed) - k
          /\ k + 1 <= Len(failed) \/ Len(failed) - k = 0
      <4>1. ASSUME NEW n \in Nat, NEW j \in 1 .. n
            PROVE  n - (j + 1) + 1 = n - j /\ (j + 1 <= n \/ n - j = 0)
        OBVIOUS
      <4> QED
        BY <1>1, <2>3, <4>1
    <3>4. ASSUME NEW j \in 1 .. Len(failed) - k PROVE k + 1 + j - 1 = k + j
      BY <1>1, <2>3
    <3>5. Len(SubSeq(failed, k + 1, Len(failed))) = Len(failed) - k
      BY <1>1, <2>3, <3>2, <3>3
    <3>6. \A j \in 1 .. Len(failed) - k :
            SubSeq(failed, k + 1, Len(failed))[j] = failed[k + j]
      BY <3>2, <3>3, <3>4
    <3> QED
      BY <3>2, <3>5, <3>6 DEF b
  <2> HIDE DEF a, b
  <2>7. /\ failed' \in Seq(DOMAIN chain)
        /\ Len(failed') = Len(failed) - 1
        /\ \A j \in 1 .. Len(failed) - 1 :
             failed'[j] = IF j <= k - 1 THEN failed[j] ELSE failed[j + 1]
    <3>1. /\ a \o b \in Seq(DOMAIN chain)
          /\ Len(a \o b) = Len(a) + Len(b)
          /\ \A j \in 1 .. Len(a) + Len(b) :
               (a \o b)[j] = IF j <= Len(a) THEN a[j] ELSE b[j - Len(a)]
      BY <2>5, <2>6, ConcatProperties
    <3>2. Len(a) + Len(b) = Len(failed) - 1
      BY <1>1, <2>3, <2>5, <2>6
    <3>3. ASSUME NEW j \in 1 .. Len(failed) - 1
          PROVE  (a \o b)[j] = IF j <= k - 1 THEN failed[j] ELSE failed[j + 1]
      <4>1. CASE j <= k - 1
        BY <1>1, <2>3, <2>5, <3>1, <3>2, <4>1
      <4>2. CASE ~(j <= k - 1)
        <5>1. j - Len(a) \in 1 .. Len(failed) - k /\ k + (j - Len(a)) = j + 1
          BY <1>1, <2>3, <2>5, <4>2
        <5> QED
          BY <1>1, <2>3, <2>5, <2>6, <3>1, <3>2, <4>2, <5>1
      <4> QED
        BY <4>1, <4>2
    <3> QED
      BY <2>2, <3>1, <3>2, <3>3
  <2>8. DOMAIN failed' = 1 .. Len(failed) - 1
    BY <2>7
  <2> DEFINE was(j) == IF j <= k - 1 THEN j ELSE j + 1
  <2>9. FailedUnique'
    <3>1. ASSUME NEW j \in DOMAIN failed'
          PROVE  was(j) \in DOMAIN failed /\ failed'[j] = failed[was(j)]
      BY <1>1, <2>3, <2>7, <2>8
    <3>2. ASSUME NEW j \in DOMAIN failed', NEW l \in DOMAIN failed',
                 was(j) = was(l)
          PROVE  j = l
      BY <1>1, <2>3, <2>8, <3>2
    <3> HIDE DEF was
    <3> QED
      BY <3>1, <3>2 DEF FailedUnique
  <2>10. ASSUME NEW j \in DOMAIN failed, failed[j] # i
         PROVE  \E l \in DOMAIN failed' : failed'[l] = failed[j]
    <3>1. j # k
      BY <2>1, <2>10
    <3>2. CASE j < k
      BY <1>1, <2>3, <2>7, <2>8, <3>2
    <3>3. CASE j > k
      <4>1. j - 1 \in 1 .. Len(failed) - 1 /\ ~(j - 1 <= k - 1)
            /\ (j - 1) + 1 = j
        BY <1>1, <2>3, <3>3
      <4> QED
        BY <2>7, <2>8, <4>1
    <3> QED
      BY <1>1, <2>3, <3>1, <3>2, <3>3
  <2>11. ASSUME NEW j \in DOMAIN failed'
         PROVE  failed'[j] \in FailedTxs \ {i}
    <3>1. j \in 1 .. Len(failed) - 1
      BY <2>8
    <3>2. CASE j <= k - 1
      <4>1. j \in DOMAIN failed /\ j # k /\ failed'[j] = failed[j]
        BY <1>1, <2>3, <2>7, <3>1, <3>2
      <4> QED
        BY <2>1, <4>1 DEF FailedTxs, FailedUnique
    <3>3. CASE ~(j <= k - 1)
      <4>1. j + 1 \in DOMAIN failed /\ j + 1 # k /\ failed'[j] = failed[j + 1]
        BY <1>1, <2>3, <2>7, <3>1, <3>3
      <4> QED
        BY <2>1, <4>1 DEF FailedTxs, FailedUnique
    <3> QED
      BY <3>2, <3>3
  <2>12. FailedTxs' = FailedTxs \ {i}
    BY <2>10, <2>11 DEF FailedTxs
  <2> QED
    BY <2>7, <2>9, <2>12
<1> QED
  BY <1>2, <1>3
----------------------------------------------------------------------------
(* The parses                                                              *)

ParseType == parse \in [Slots -> [step : Steps, tx : DOMAIN chain \cup {0}]]

\* A step that leaves history, events and owners alone.
LEMMA SameGrows ==
  ASSUME UNCHANGED <<chain, owner, stored>>
  PROVE  Grows
BY DEF Grows

\* What a parse knows stays true while others move.
LEMMA KnowsKept ==
  ASSUME TypeOK, Grows, NEW p \in Slots, Knows(p), parse'[p] = parse[p]
  PROVE  Knows(p)'
<1>1. CASE parse[p].step = "idle"
  BY <1>1 DEF Knows
<1>2. CASE parse[p].step # "idle"
  <2>1. parse[p].tx \in DOMAIN chain
    BY <1>2 DEF Knows
  <2>2. /\ parse[p].tx \in DOMAIN chain'
        /\ chain'[parse[p].tx] = chain[parse[p].tx]
        /\ chain[parse[p].tx].mint \in Mints
    BY <2>1, TxType DEF Grows, mint
  <2> QED
    BY <2>1, <2>2 DEF Knows, Grows, mint
<1> QED
  BY <1>1, <1>2

\* One slot gets a new record.
LEMMA SlotMoves ==
  ASSUME TypeOK, ParseOK, Grows, UNCHANGED chain, NEW p \in Slots,
         NEW r \in [step : Steps, tx : DOMAIN chain \cup {0}],
         parse' = [parse EXCEPT ![p] = r], Knows(p)'
  PROVE  ParseType' /\ ParseOK'
<1>1. parse' \in [Slots -> [step : Steps, tx : DOMAIN chain \cup {0}]]
  BY DEF TypeOK
<1>2. ASSUME NEW q \in Slots, q # p PROVE Knows(q)'
  <2>1. parse'[q] = parse[q] /\ Knows(q)
    BY <1>2 DEF TypeOK, ParseOK
  <2> QED
    BY <2>1, KnowsKept
<1> QED
  BY <1>1, <1>2 DEF ParseType, ParseOK

\* A parse goes on to a step whose conditions hold.
LEMMA GoToKeeps ==
  ASSUME TypeOK, ParseOK, Grows, UNCHANGED chain, NEW p \in Slots,
         NEW s \in Steps, GoTo(p, s), parse[p].step # "idle",
         s \in {"ownerRead", "ownerWrite", "delete"} =>
           parse[p].tx \in stored',
         s \in {"ownerRead", "ownerWrite"} => chain[parse[p].tx].kind = "SALE",
         s = "ownerWrite" => owner'[mint(parse[p].tx)] # None
  PROVE  ParseType' /\ ParseOK'
<1> DEFINE r == [parse[p] EXCEPT !.step = s]
<1>1. parse[p] \in [step : Steps, tx : DOMAIN chain \cup {0}]
  BY DEF TypeOK
<1>2. r \in [step : Steps, tx : DOMAIN chain \cup {0}]
  BY <1>1
<1>3. r.step = s /\ r.tx = parse[p].tx
  BY <1>1
<1>4. parse' = [parse EXCEPT ![p] = r]
  BY DEF GoTo
<1>5. parse[p].tx \in DOMAIN chain
  BY DEF ParseOK, Knows
<1> HIDE DEF r
<1>6. parse'[p] = r
  BY <1>4 DEF TypeOK
<1>7. Knows(p)'
  BY <1>3, <1>5, <1>6 DEF Knows, mint
<1> QED
  BY <1>2, <1>4, <1>7, SlotMoves

\* A parse ends.
LEMMA SkipKeeps ==
  ASSUME TypeOK, ParseOK, Grows, UNCHANGED chain, NEW p \in Slots, Skip(p)
  PROVE  ParseType' /\ ParseOK'
<1>1. Idle \in [step : Steps, tx : DOMAIN chain \cup {0}]
  BY DEF Idle, Steps
<1>2. parse' = [parse EXCEPT ![p] = Idle] /\ parse'[p] = Idle
  BY DEF Skip, TypeOK
<1>3. Knows(p)'
  BY <1>2 DEF Knows, Idle
<1> QED
  BY <1>1, <1>2, <1>3, SlotMoves

\* A parse returns its stored event.
LEMMA SucceedKeeps ==
  ASSUME TypeOK, ParseOK, Grows, UNCHANGED chain, NEW p \in Slots,
         Succeed(p), parse[p].step # "idle", parse[p].tx \in stored'
  PROVE  ParseType' /\ ParseOK'
<1>1. CASE p[1] = "retry"
  <2>1. GoTo(p, "delete") /\ "delete" \in Steps
    BY <1>1 DEF Succeed, Steps
  <2> QED
    BY <2>1, GoToKeeps
<1>2. CASE p[1] # "retry"
  BY <1>2, SkipKeeps DEF Succeed
<1> QED
  BY <1>1, <1>2

\* A source begins to parse a transaction of the history.
LEMMA BeginKeeps ==
  ASSUME TypeOK, ParseOK, Grows, UNCHANGED chain, NEW p \in Slots,
         NEW i \in DOMAIN chain, Begin(p, i)
  PROVE  ParseType' /\ ParseOK'
<1> DEFINE r == [step |-> "filter", tx |-> i]
<1>1. r \in [step : Steps, tx : DOMAIN chain \cup {0}]
  BY DEF Steps
<1>2. parse' = [parse EXCEPT ![p] = r] /\ parse'[p] = r
  BY DEF Begin, TypeOK
<1>3. Knows(p)'
  BY <1>2 DEF Knows
<1> HIDE DEF r
<1> QED
  BY <1>1, <1>2, <1>3, SlotMoves

\* Parses go on, or end with their process.
LEMMA SlotsStay ==
  ASSUME TypeOK, ParseOK, Grows,
         parse' \in [Slots -> [step : Steps, tx : DOMAIN chain' \cup {0}]],
         \A p \in Slots : parse'[p] = parse[p] \/ parse'[p] = Idle
  PROVE  ParseOK'
<1>1. ASSUME NEW p \in Slots, parse'[p] = parse[p] PROVE Knows(p)'
  BY <1>1, KnowsKept DEF ParseOK
<1>2. ASSUME NEW p \in Slots, parse'[p] = Idle PROVE Knows(p)'
  BY <1>2 DEF Knows, Idle
<1> QED
  BY <1>1, <1>2 DEF ParseOK

----------------------------------------------------------------------------
(* IndexerInv                                                              *)

\* The tables are empty at first.
LEMMA InitIndexer == Init => IndexerInv
<1> SUFFICES ASSUME Init PROVE IndexerInv
  OBVIOUS
<1>1. /\ chain \in Seq(Tx) /\ chain = <<>>
      /\ failed = <<>> /\ pending = <<>> /\ batch = <<>> /\ retrying = <<>>
  BY DEF Init
<1>2. /\ failed \in Seq(DOMAIN chain) /\ pending \in Seq(DOMAIN chain)
      /\ batch \in Seq(DOMAIN chain) /\ retrying \in Seq(DOMAIN chain)
  BY <1>1
<1>3. errors \in 0 .. MaxErrors /\ crashes \in 0 .. MaxCrashes
  BY IndexerConstants DEF Init, IndexerConstants
<1>4. parse \in [Slots -> [step : Steps, tx : DOMAIN chain \cup {0}]]
  BY DEF Init, Idle, Steps
<1>5. TypeOK
  BY <1>1, <1>2, <1>3, <1>4 DEF Init, TypeOK
<1>6. ParseOK
  BY DEF Init, ParseOK, Knows, Idle
<1>7. FailedUnique
  BY <1>1 DEF FailedUnique
<1> QED
  BY <1>5, <1>6, <1>7 DEF IndexerInv

\* The invariant after a step that moves one slot and a few of the other
\* variables, each within its type.
LEMMA SlotStep ==
  ASSUME IndexerInv, UNCHANGED <<chain, owner, stored, failed>>,
         ParseType', ParseOK',
         cache' \in [Mints -> {"none", "collection", "NOT_FOUND"}],
         UNCHANGED <<pending, live>>,
         batch' \in Seq(DOMAIN chain), page' \in DOMAIN chain \cup {0},
         retrying' \in Seq(DOMAIN chain),
         errors' \in 0 .. MaxErrors, UNCHANGED crashes
  PROVE  IndexerInv'
<1>1. TypeOK'
  BY DEF IndexerInv, TypeOK, ParseType
<1>2. FailedUnique'
  BY DEF IndexerInv, FailedUnique
<1> QED
  BY <1>1, <1>2 DEF IndexerInv

\* A step that touches no slot, and no table but the owners.
LEMMA OtherStep ==
  ASSUME IndexerInv, Grows, UNCHANGED <<chain, stored, failed, parse>>,
         owner' \in [Mints -> Wallets \cup {None}],
         cache' \in [Mints -> {"none", "collection", "NOT_FOUND"}],
         pending' \in Seq(DOMAIN chain), batch' \in Seq(DOMAIN chain),
         live' \in {"waiting", "resolving", "gathering"},
         page' \in DOMAIN chain \cup {0}, retrying' \in Seq(DOMAIN chain),
         errors' \in 0 .. MaxErrors, UNCHANGED crashes
  PROVE  IndexerInv'
<1>1. TypeOK'
  BY DEF IndexerInv, TypeOK
<1>2. parse' \in [Slots -> [step : Steps, tx : DOMAIN chain' \cup {0}]]
  BY DEF IndexerInv, TypeOK
<1>3. ParseOK'
  BY <1>2, SlotsStay DEF IndexerInv
<1>4. FailedUnique'
  BY DEF IndexerInv, FailedUnique
<1> QED
  BY <1>1, <1>3, <1>4 DEF IndexerInv

\* One more error is within the bound.
LEMMA ErrorCounted ==
  ASSUME TypeOK, errors < MaxErrors, errors' = errors + 1
  PROVE  errors' \in 0 .. MaxErrors
BY IndexerConstants DEF TypeOK, IndexerConstants

\* The world and the sources.
LEMMA TransactStep ==
  ASSUME IndexerInv, Transact PROVE IndexerInv' /\ Grows
<1> USE DEF dbVars, liveVars, bounds
<1>0. TypeOK /\ ParseOK /\ FailedUnique
  BY DEF IndexerInv
<1>1. PICK t \in Tx : chain' = Append(chain, t)
  BY DEF Transact
<1>2. /\ chain' \in Seq(Tx) /\ DOMAIN chain \subseteq DOMAIN chain'
      /\ \A i \in DOMAIN chain : chain'[i] = chain[i]
  BY <1>0, <1>1, TransactGrows
<1>3. Grows
  BY <1>2 DEF Grows, Transact
<1>4. UNCHANGED <<cache, owner, stored, failed, pending, live, batch, page,
                  retrying, parse, errors, crashes>>
  BY DEF Transact
<1>5. /\ failed' \in Seq(DOMAIN chain') /\ pending' \in Seq(DOMAIN chain')
      /\ batch' \in Seq(DOMAIN chain') /\ retrying' \in Seq(DOMAIN chain')
  BY <1>0, <1>2, <1>4, QueueGrows DEF TypeOK
<1>6. parse' \in [Slots -> [step : Steps, tx : DOMAIN chain' \cup {0}]]
  <2>1. ASSUME NEW p \in Slots
        PROVE  parse[p] \in [step : Steps, tx : DOMAIN chain' \cup {0}]
    BY <1>0, <1>2 DEF TypeOK
  <2> QED
    BY <1>0, <1>4, <2>1 DEF TypeOK
<1>7. stored' \subseteq DOMAIN chain' /\ page' \in DOMAIN chain' \cup {0}
  BY <1>0, <1>2, <1>4 DEF TypeOK
<1>8. TypeOK'
  BY <1>0, <1>2, <1>4, <1>5, <1>6, <1>7 DEF TypeOK
<1>9. ParseOK'
  BY <1>0, <1>3, <1>4, <1>6, SlotsStay
<1>10. FailedUnique'
  BY <1>0, <1>4 DEF FailedUnique
<1> QED
  BY <1>3, <1>8, <1>9, <1>10 DEF IndexerInv

\* The steps of the world and of the sources that begin no parse.
LEMMA SourceStep ==
  ASSUME IndexerInv,
         \/ \E m \in Mints : Retrieve(m) \/ Expire(m)
         \/ \E i \in DOMAIN chain : Live_Receive(i)
         \/ Live_Take \/ Live_Resolve \/ Live_Done
         \/ Backfill_Start \/ Backfill_Missing
         \/ Retry_Load
  PROVE  IndexerInv' /\ Grows
<1> USE DEF dbVars, liveVars, bounds
<1>0. TypeOK
  BY DEF IndexerInv
<1>1. ASSUME NEW m \in Mints, Retrieve(m) PROVE IndexerInv' /\ Grows
  <2>1. CurrentOwner(m) \in Wallets /\ CurrentOwner(m) # None
    BY <1>0, OwnerType
  <2>2. owner' \in [Mints -> Wallets \cup {None}]
    BY <1>0, <1>1, <2>1 DEF Retrieve, TypeOK
  <2>3. Grows
    BY <1>0, <1>1, <2>1 DEF Retrieve, TypeOK, Grows
  <2> QED
    BY <1>0, <1>1, <2>2, <2>3, OtherStep DEF Retrieve, TypeOK
<1>2. ASSUME NEW m \in Mints, Expire(m) PROVE IndexerInv' /\ Grows
  BY <1>0, <1>2, SameGrows, OtherStep DEF Expire, TypeOK
<1>3. ASSUME NEW i \in DOMAIN chain, Live_Receive(i)
      PROVE  IndexerInv' /\ Grows
  <2>1. pending' \in Seq(DOMAIN chain)
    BY <1>0, <1>3, AppendProperties DEF Live_Receive, TypeOK
  <2> QED
    BY <1>0, <1>3, <2>1, SameGrows, OtherStep DEF Live_Receive, TypeOK
<1>4. CASE Live_Take
  <2>1. pending' \in Seq(DOMAIN chain) /\ batch' \in Seq(DOMAIN chain)
    BY <1>0, <1>4 DEF Live_Take, TypeOK
  <2> QED
    BY <1>0, <1>4, <2>1, SameGrows, OtherStep DEF Live_Take, TypeOK
<1>5. CASE Live_Resolve
  <2>1. cache' \in [Mints -> {"none", "collection", "NOT_FOUND"}]
    BY <1>0, <1>5 DEF Live_Resolve, TypeOK
  <2> QED
    BY <1>0, <1>5, <2>1, SameGrows, OtherStep DEF Live_Resolve, TypeOK
<1>6. CASE Live_Done
  BY <1>0, <1>6, SameGrows, OtherStep DEF Live_Done, TypeOK
<1>7. CASE Backfill_Start
  <2>1. page' \in DOMAIN chain
    <3>1. chain \in Seq(Tx) /\ chain # <<>> /\ page' = Len(chain)
      BY <1>0, <1>7 DEF Backfill_Start, TypeOK
    <3>2. Len(chain) \in Nat \ {0} /\ DOMAIN chain = 1 .. Len(chain)
      BY <3>1, EmptySeq
    <3> QED
      BY <3>1, <3>2
  <2> QED
    BY <1>0, <1>7, <2>1, SameGrows, OtherStep DEF Backfill_Start, TypeOK
<1>8. CASE Backfill_Missing
  <2>1. page' \in DOMAIN chain \cup {0}
    BY <1>0, <1>8 DEF Backfill_Missing, TypeOK
  <2>2. errors' \in 0 .. MaxErrors
    BY <1>0, <1>8, ErrorCounted DEF Backfill_Missing
  <2> QED
    BY <1>0, <1>8, <2>1, <2>2, SameGrows, OtherStep
       DEF Backfill_Missing, TypeOK
<1>9. CASE Retry_Load
  <2>1. retrying' \in Seq(DOMAIN chain)
    <3>1. failed \in Seq(DOMAIN chain) /\ Len(failed) \in Nat
          /\ DOMAIN failed = 1 .. Len(failed)
      BY <1>0 DEF TypeOK
    <3>2. CASE Len(failed) <= RetryLimit
      BY <1>9, <3>1, <3>2 DEF Retry_Load
    <3>3. CASE ~(Len(failed) <= RetryLimit)
      <4>1. RetryLimit \in Nat
        BY IndexerConstants DEF IndexerConstants
      <4>2. \A i \in 1 .. RetryLimit : failed[i] \in DOMAIN chain
        BY <3>1, <3>3, <4>1
      <4>3. SubSeq(failed, 1, RetryLimit) \in Seq(DOMAIN chain)
        BY <4>1, <4>2, SubSeqProperties
      <4> QED
        BY <1>9, <3>3, <4>3 DEF Retry_Load
    <3> QED
      BY <3>2, <3>3
  <2> QED
    BY <1>0, <1>9, <2>1, SameGrows, OtherStep DEF Retry_Load, TypeOK
<1> QED
  BY <1>1, <1>2, <1>3, <1>4, <1>5, <1>6, <1>7, <1>8, <1>9

\* The steps of the sources that begin a parse.
LEMMA StartStep ==
  ASSUME IndexerInv, NEW p \in Slots, Start(p)
  PROVE  IndexerInv' /\ Grows
<1> USE DEF dbVars, liveVars, bounds
<1>0. TypeOK /\ ParseOK
  BY DEF IndexerInv
<1>1. CASE Live_Parse(p)
  <2>1. batch \in Seq(DOMAIN chain) /\ batch # <<>>
    BY <1>0, <1>1 DEF Live_Parse, TypeOK
  <2>2. Head(batch) \in DOMAIN chain /\ batch' \in Seq(DOMAIN chain)
    BY <1>1, <2>1, HeadTailProperties DEF Live_Parse
  <2> QED
    BY <1>0, <1>1, <2>2, SameGrows, BeginKeeps, SlotStep
       DEF Live_Parse, TypeOK
<1>2. ASSUME NEW i \in DOMAIN chain, Webhook_Parse(p, i)
      PROVE  IndexerInv' /\ Grows
  BY <1>0, <1>2, SameGrows, BeginKeeps, SlotStep DEF Webhook_Parse, TypeOK
<1>3. CASE Backfill_Parse(p)
  <2>1. page \in DOMAIN chain /\ page - 1 \in DOMAIN chain \cup {0}
    <3>1. chain \in Seq(Tx) /\ page \in DOMAIN chain \cup {0} /\ page > 0
      BY <1>0, <1>3 DEF Backfill_Parse, TypeOK
    <3>2. Len(chain) \in Nat /\ DOMAIN chain = 1 .. Len(chain)
      BY <3>1
    <3> QED
      BY <3>1, <3>2
  <2> QED
    BY <1>0, <1>3, <2>1, SameGrows, BeginKeeps, SlotStep
       DEF Backfill_Parse, TypeOK
<1>4. CASE Retry_Parse(p)
  <2>1. retrying \in Seq(DOMAIN chain) /\ retrying # <<>>
    BY <1>0, <1>4 DEF Retry_Parse, TypeOK
  <2>2. Head(retrying) \in DOMAIN chain /\ retrying' \in Seq(DOMAIN chain)
    BY <1>4, <2>1, HeadTailProperties DEF Retry_Parse
  <2> QED
    BY <1>0, <1>4, <2>2, SameGrows, BeginKeeps, SlotStep
       DEF Retry_Parse, TypeOK
<1> QED
  BY <1>1, <1>2, <1>3, <1>4 DEF Start

\* The parser before it writes a table: filter and collection.
LEMMA LookupStep ==
  ASSUME IndexerInv, NEW p \in Slots,
         \/ Parse_Filter(p) \/ Parse_Resolve(p) \/ Parse_Helius(p) \/ Parse_Untracked(p)
         \/ Parse_ResolveRaises(p) \/ Parse_Raise(p)
  PROVE  IndexerInv' /\ Grows
<1> USE DEF dbVars, liveVars, bounds, At
<1>0. TypeOK /\ ParseOK
  BY DEF IndexerInv
<1>1. /\ UNCHANGED <<chain, owner, stored, failed, pending, live, batch, page,
                     retrying, crashes>>
      /\ parse[p].step # "idle"
  BY DEF Parse_Filter, Parse_Resolve, Parse_Helius, Parse_Untracked, Parse_ResolveRaises,
         Parse_Raise
<1>2. Grows
  BY <1>1, SameGrows
<1>3. ParseType' /\ ParseOK'
  <2>1. \/ Skip(p)
        \/ \E s \in {"resolve", "helius", "store", "fail"} : GoTo(p, s)
    BY DEF Parse_Filter, Parse_Resolve, Parse_Helius, Parse_Untracked, Parse_ResolveRaises,
           Parse_Raise
  <2>2. ASSUME NEW s \in {"resolve", "helius", "store", "fail"}, GoTo(p, s)
        PROVE  ParseType' /\ ParseOK'
    <3>1. s \in Steps /\ s \notin {"ownerRead", "ownerWrite", "delete"}
      BY DEF Steps
    <3> QED
      BY <1>0, <1>1, <1>2, <2>2, <3>1, GoToKeeps
  <2> QED
    BY <1>0, <1>1, <1>2, <2>1, <2>2, SkipKeeps
<1>4. cache' \in [Mints -> {"none", "collection", "NOT_FOUND"}]
  BY <1>0 DEF TypeOK, Parse_Filter, Parse_Resolve, Parse_Helius, Parse_Untracked,
              Parse_ResolveRaises, Parse_Raise
<1>5. errors' \in 0 .. MaxErrors
  <2>1. CASE Parse_ResolveRaises(p) \/ Parse_Raise(p)
    BY <1>0, <2>1, ErrorCounted DEF Parse_ResolveRaises, Parse_Raise
  <2>2. CASE Parse_Filter(p) \/ Parse_Resolve(p) \/ Parse_Helius(p) \/ Parse_Untracked(p)
    BY <1>0, <2>2 DEF TypeOK, Parse_Filter, Parse_Resolve, Parse_Helius, Parse_Untracked
  <2> QED
    BY <2>1, <2>2
<1> QED
  BY <1>0, <1>1, <1>2, <1>3, <1>4, <1>5, SlotStep DEF TypeOK

\* The event is stored, or validation refuses it.
LEMMA StoreStep ==
  ASSUME IndexerInv, NEW p \in Slots, Parse_Store(p)
  PROVE  IndexerInv' /\ Grows
<1> USE DEF dbVars, liveVars, bounds, At
<1> DEFINE i == parse[p].tx
<1>0. TypeOK /\ ParseOK /\ FailedUnique
  BY DEF IndexerInv
<1>1. /\ UNCHANGED <<chain, cache, owner, failed, pending, live, batch, page,
                     retrying, errors, crashes>>
      /\ parse[p].step = "store"
  BY DEF Parse_Store
<1>2. i \in DOMAIN chain
  BY <1>0, <1>1 DEF ParseOK, Knows
<1>3. stored \subseteq stored' /\ stored' \subseteq DOMAIN chain
  BY <1>0, <1>2 DEF Parse_Store, TypeOK
<1>4. Grows
  BY <1>1, <1>3 DEF Grows
<1>5. ParseType' /\ ParseOK'
  <2>1. CASE ~Valid(i)
    <3>1. GoTo(p, "fail") /\ "fail" \in Steps
      BY <2>1 DEF Parse_Store, Steps
    <3> QED
      BY <1>0, <1>1, <1>4, <3>1, GoToKeeps
  <2>2. CASE Valid(i) /\ chain[i].kind = "SALE"
    <3>1. GoTo(p, "ownerRead") /\ "ownerRead" \in Steps /\ i \in stored'
      BY <2>2 DEF Parse_Store, Steps
    <3> QED
      BY <1>0, <1>1, <1>4, <2>2, <3>1, GoToKeeps
  <2>3. CASE Valid(i) /\ chain[i].kind # "SALE"
    <3>1. Succeed(p) /\ i \in stored'
      BY <2>3 DEF Parse_Store
    <3> QED
      BY <1>0, <1>1, <1>4, <3>1, SucceedKeeps
  <2> QED
    BY <2>1, <2>2, <2>3
<1>6. TypeOK'
  BY <1>0, <1>1, <1>3, <1>5 DEF TypeOK, ParseType
<1>7. FailedUnique'
  BY <1>0, <1>1 DEF FailedUnique
<1> QED
  BY <1>4, <1>5, <1>6, <1>7 DEF IndexerInv

\* A row of failed transactions is written or deleted, or that raises.
LEMMA FailStep ==
  ASSUME IndexerInv, NEW p \in Slots,
         Parse_Fail(p) \/ Retry_Delete(p) \/ Parse_FailRaises(p)
  PROVE  IndexerInv' /\ Grows
<1> USE DEF dbVars, liveVars, bounds, At
<1> DEFINE i == parse[p].tx
<1>0. TypeOK /\ ParseOK /\ FailedUnique
  BY DEF IndexerInv
<1>1. /\ UNCHANGED <<chain, cache, owner, stored, pending, live, batch, page,
                     retrying, crashes>>
      /\ parse[p].step \in {"fail", "delete"} /\ Skip(p)
  BY DEF Parse_Fail, Retry_Delete, Parse_FailRaises
<1>2. i \in DOMAIN chain
  BY <1>0, <1>1 DEF ParseOK, Knows
<1>3. Grows
  BY <1>1, SameGrows
<1>4. ParseType' /\ ParseOK'
  BY <1>0, <1>1, <1>3, SkipKeeps
<1>5. failed' \in Seq(DOMAIN chain) /\ FailedUnique'
  <2>1. CASE UNCHANGED failed
    BY <1>0, <2>1 DEF TypeOK, FailedUnique
  <2>2. CASE Parse_Fail(p) /\ i \notin FailedTxs
    BY <1>0, <1>1, <1>2, <2>2, AppendRow DEF Parse_Fail
  <2>3. CASE Retry_Delete(p)
    BY <1>0, <1>1, <2>3, RemoveRow DEF Retry_Delete
  <2> QED
    BY <2>1, <2>2, <2>3 DEF Parse_Fail, Parse_FailRaises
<1>6. errors' \in 0 .. MaxErrors
  <2>1. CASE Parse_FailRaises(p)
    BY <1>0, <2>1, ErrorCounted DEF Parse_FailRaises
  <2>2. CASE Parse_Fail(p) \/ Retry_Delete(p)
    BY <1>0, <2>2 DEF TypeOK, Parse_Fail, Retry_Delete
  <2> QED
    BY <2>1, <2>2
<1>7. TypeOK'
  BY <1>0, <1>1, <1>4, <1>5, <1>6 DEF TypeOK, ParseType
<1> QED
  BY <1>3, <1>4, <1>5, <1>7 DEF IndexerInv

\* The owner is looked at and moved, or that raises.
LEMMA OwnerStep ==
  ASSUME IndexerInv, NEW p \in Slots,
         Owner_Read(p) \/ Owner_Write(p) \/ Owner_Raise(p)
  PROVE  IndexerInv' /\ Grows
<1> USE DEF dbVars, liveVars, bounds, At
<1> DEFINE i == parse[p].tx
<1>0. TypeOK /\ ParseOK /\ FailedUnique
  BY DEF IndexerInv
<1>1. /\ UNCHANGED <<chain, cache, stored, failed, pending, live, batch, page,
                     retrying, crashes>>
      /\ parse[p].step \in {"ownerRead", "ownerWrite"}
  BY DEF Owner_Read, Owner_Write, Owner_Raise
<1>2. i \in DOMAIN chain /\ i \in stored /\ chain[i].kind = "SALE"
  BY <1>0, <1>1 DEF ParseOK, Knows
<1>3. mint(i) \in Mints /\ chain[i].buyer \in Wallets
  BY <1>0, <1>2, TxType
<1>4. owner' \in [Mints -> Wallets \cup {None}]
  BY <1>0, <1>3 DEF TypeOK, Owner_Read, Owner_Write, Owner_Raise
<1>5. Grows
  <2>1. CASE Owner_Read(p) \/ Owner_Raise(p)
    BY <1>1, <2>1, SameGrows DEF Owner_Read, Owner_Raise
  <2>2. CASE Owner_Write(p)
    <3>1. chain[i].buyer # None
      BY <1>3, IndexerConstants DEF IndexerConstants
    <3> QED
      BY <1>0, <1>1, <2>2, <3>1 DEF Grows, Owner_Write, TypeOK
  <2> QED
    BY <2>1, <2>2
<1>6. ParseType' /\ ParseOK'
  <2>1. CASE Succeed(p)
    BY <1>0, <1>1, <1>2, <1>5, <2>1, SucceedKeeps
  <2>2. CASE Owner_Read(p) /\ GoTo(p, "ownerWrite")
            /\ owner[mint(i)] # None
    <3>1. "ownerWrite" \in Steps /\ owner'[mint(i)] # None /\ i \in stored'
      BY <1>1, <1>2, <2>2 DEF Steps, Owner_Read
    <3> QED
      BY <1>0, <1>1, <1>2, <1>5, <2>2, <3>1, GoToKeeps
  <2> QED
    BY <2>1, <2>2 DEF Owner_Read, Owner_Write, Owner_Raise
<1>7. errors' \in 0 .. MaxErrors
  <2>1. CASE Owner_Raise(p)
    BY <1>0, <2>1, ErrorCounted DEF Owner_Raise
  <2>2. CASE Owner_Read(p) \/ Owner_Write(p)
    BY <1>0, <2>2 DEF TypeOK, Owner_Read, Owner_Write
  <2> QED
    BY <2>1, <2>2
<1>8. TypeOK'
  BY <1>0, <1>1, <1>4, <1>6, <1>7 DEF TypeOK, ParseType
<1>9. FailedUnique'
  BY <1>0, <1>1 DEF FailedUnique
<1> QED
  BY <1>5, <1>6, <1>8, <1>9 DEF IndexerInv

\* A crash empties the memory of a process and no table.
LEMMA CrashStep ==
  ASSUME IndexerInv, NEW s \in Sources, Crash(s)
  PROVE  IndexerInv' /\ Grows
<1> USE DEF dbVars, liveVars, bounds
<1>0. TypeOK /\ ParseOK /\ FailedUnique
  BY DEF IndexerInv
<1>1. UNCHANGED <<chain, cache, owner, stored, failed, errors>>
  BY DEF Crash
<1>2. Grows
  BY <1>1, SameGrows
<1>3. /\ Idle \in [step : Steps, tx : DOMAIN chain \cup {0}]
      /\ parse' = [p \in Slots |-> IF p[1] = s THEN Idle ELSE parse[p]]
  BY DEF Idle, Steps, Crash
<1>4. parse' \in [Slots -> [step : Steps, tx : DOMAIN chain' \cup {0}]]
  BY <1>0, <1>1, <1>3 DEF TypeOK
<1>5. ParseOK'
  BY <1>0, <1>2, <1>3, <1>4, SlotsStay
<1>6. /\ pending' \in Seq(DOMAIN chain) /\ batch' \in Seq(DOMAIN chain)
      /\ live' \in {"waiting", "resolving", "gathering"}
      /\ page' \in DOMAIN chain \cup {0} /\ retrying' \in Seq(DOMAIN chain)
  <2>1. /\ \/ UNCHANGED <<pending, batch, live>>
           \/ pending' = <<>> /\ batch' = <<>> /\ live' = "waiting"
        /\ page' \in {page, 0}
        /\ retrying' = <<>> \/ UNCHANGED retrying
    BY DEF Crash
  <2>2. <<>> \in Seq(DOMAIN chain)
    BY EmptySeq
  <2> QED
    BY <1>0, <2>1, <2>2 DEF TypeOK
<1>7. crashes' \in 0 .. MaxCrashes
  BY <1>0, IndexerConstants DEF TypeOK, Crash, IndexerConstants
<1>8. TypeOK'
  BY <1>0, <1>1, <1>4, <1>6, <1>7 DEF TypeOK
<1>9. FailedUnique'
  BY <1>0, <1>1 DEF FailedUnique
<1> QED
  BY <1>2, <1>5, <1>8, <1>9 DEF IndexerInv

\* Every step keeps the invariant.
LEMMA NextIndexer == IndexerInv /\ [Next]_vars => IndexerInv'
<1> SUFFICES ASSUME IndexerInv, [Next]_vars PROVE IndexerInv'
  OBVIOUS
<1>1. CASE UNCHANGED vars
  BY <1>1 DEF vars, dbVars, liveVars, bounds, IndexerInv, TypeOK, ParseOK,
              Knows, FailedUnique, mint
<1>2. ASSUME NEW p \in Slots, Parse(p) \/ ParseError(p) PROVE IndexerInv'
  BY <1>2, LookupStep, StoreStep, FailStep, OwnerStep DEF Parse, ParseError
<1> QED
  BY <1>1, <1>2, TransactStep, SourceStep, StartStep, CrashStep DEF Next

\* IndexerInv holds in every reachable state.
THEOREM IndexerInvariant == Spec => []IndexerInv
BY InitIndexer, NextIndexer, PTL DEF Spec

\* Every parse goes on with what still holds of its transaction: an owner is
\* moved and a failed row deleted only after the event was stored.
THEOREM ParsesKnow == Spec => []ParseOK
<1>1. IndexerInv => ParseOK
  BY DEF IndexerInv
<1> QED
  BY <1>1, IndexerInvariant, PTL

\* The tables, the queues and the parses keep their types through any crash.
THEOREM IndexerTyped == Spec => []TypeOK
<1>1. IndexerInv => TypeOK
  BY DEF IndexerInv
<1> QED
  BY <1>1, IndexerInvariant, PTL

\* No transaction has two rows of failed transactions.
THEOREM FailedRowsUnique == Spec => []FailedUnique
<1>1. IndexerInv => FailedUnique
  BY DEF IndexerInv
<1> QED
  BY <1>1, IndexerInvariant, PTL

----------------------------------------------------------------------------
(* EventLog                                                                *)

\* The empty tables are those of an empty log.
LEMMA InitLog == Init => Log!Init
BY DEF Init, Log!Init, FailedTxs

\* A step that changes no table and no transaction.
LEMMA LogStutters ==
  ASSUME UNCHANGED <<chain, stored, failed, owner>>
  PROVE  UNCHANGED Log!vars
BY DEF Log!vars, FailedTxs

\* The steps of the sources are the world's, or stutter.
LEMMA SourceLog ==
  ASSUME IndexerInv,
         \/ Transact
         \/ \E m \in Mints : Retrieve(m) \/ Expire(m)
         \/ \E i \in DOMAIN chain : Live_Receive(i)
         \/ Live_Take \/ Live_Resolve \/ Live_Done
         \/ Backfill_Start \/ Backfill_Missing
         \/ Retry_Load
         \/ \E p \in Slots : Start(p)
         \/ \E s \in Sources : Crash(s)
  PROVE  [Log!Next]_(Log!vars)
<1> USE DEF dbVars, liveVars, bounds
<1>1. CASE Transact
  <2>1. PICK t \in Tx : chain' = Append(chain, t)
    BY <1>1 DEF Transact
  <2>2. t \in Log!Tx
    BY DEF Log!Tx, Tx
  <2>3. UNCHANGED <<stored, FailedTxs, owner>>
    BY <1>1 DEF Transact, FailedTxs
  <2>4. Log!Transact
    BY <2>1, <2>2, <2>3 DEF Log!Transact
  <2> QED
    BY <2>4 DEF Log!Next
<1>2. ASSUME NEW m \in Mints, Retrieve(m) PROVE [Log!Next]_(Log!vars)
  <2>1. CurrentOwner(m) \in Wallets
    BY OwnerType DEF IndexerInv
  <2>2. UNCHANGED <<chain, stored, FailedTxs>>
    BY <1>2 DEF Retrieve, FailedTxs
  <2>3. Log!Retrieve(m)
    BY <1>2, <2>1, <2>2 DEF Retrieve, Log!Retrieve
  <2> QED
    BY <2>3 DEF Log!Next
<1>3. ASSUME NEW i \in DOMAIN chain, Live_Receive(i)
      PROVE  UNCHANGED Log!vars
  BY <1>3, LogStutters DEF Live_Receive
<1>4. ASSUME NEW m \in Mints, Expire(m) PROVE UNCHANGED Log!vars
  BY <1>4, LogStutters DEF Expire
<1>5. CASE \/ Live_Take \/ Live_Resolve \/ Live_Done
           \/ Backfill_Start \/ Backfill_Missing \/ Retry_Load
  BY <1>5, LogStutters
     DEF Live_Take, Live_Resolve, Live_Done, Backfill_Start, Backfill_Missing,
         Retry_Load
<1>6. ASSUME NEW p \in Slots, Start(p) PROVE UNCHANGED Log!vars
  BY <1>6, LogStutters
     DEF Start, Live_Parse, Webhook_Parse, Backfill_Parse, Retry_Parse
<1>7. ASSUME NEW s \in Sources, Crash(s) PROVE UNCHANGED Log!vars
  BY <1>7, LogStutters DEF Crash
<1> QED
  BY <1>1, <1>2, <1>3, <1>4, <1>5, <1>6, <1>7

\* The steps of a parse store, fail, recover or follow, or stutter.
LEMMA ParseLog ==
  ASSUME IndexerInv, NEW p \in Slots, Parse(p) \/ ParseError(p)
  PROVE  [Log!Next]_(Log!vars)
<1> USE DEF dbVars, liveVars, bounds, At
<1> DEFINE i == parse[p].tx
<1>0. TypeOK /\ FailedUnique /\ Knows(p)
  BY DEF IndexerInv, ParseOK
<1>1. CASE \/ Parse_Filter(p) \/ Parse_Resolve(p) \/ Parse_Helius(p) \/ Parse_Untracked(p)
           \/ Owner_Read(p) \/ ParseError(p)
  BY <1>1, LogStutters
     DEF Parse_Filter, Parse_Resolve, Parse_Helius, Parse_Untracked, Owner_Read, ParseError,
         Parse_ResolveRaises, Parse_Raise, Parse_FailRaises, Owner_Raise
<1>2. CASE Parse_Store(p)
  <2>1. i \in DOMAIN chain
    BY <1>0, <1>2 DEF Parse_Store, Knows
  <2>2. UNCHANGED <<chain, FailedTxs, owner>>
    BY <1>2 DEF Parse_Store, FailedTxs
  <2>3. CASE stored' = stored \cup {i}
    <3>1. Log!Store(i)
      BY <2>2, <2>3 DEF Log!Store
    <3> QED
      BY <2>1, <3>1 DEF Log!Next
  <2>4. CASE UNCHANGED stored
    BY <2>2, <2>4 DEF Log!vars
  <2> QED
    BY <1>2, <2>3, <2>4 DEF Parse_Store
<1>3. CASE Parse_Fail(p)
  <2>1. i \in DOMAIN chain
    BY <1>0, <1>3 DEF Parse_Fail, Knows
  <2>2. UNCHANGED <<chain, stored, owner>>
    BY <1>3 DEF Parse_Fail
  <2>3. CASE i \in FailedTxs
    BY <1>3, <2>2, <2>3, LogStutters DEF Parse_Fail
  <2>4. CASE i \notin FailedTxs
    <3>1. FailedTxs' = FailedTxs \cup {i}
      BY <1>0, <1>3, <2>1, <2>2, <2>4, AppendRow DEF Parse_Fail
    <3>2. Log!Fail(i)
      BY <2>2, <3>1 DEF Log!Fail
    <3> QED
      BY <2>1, <3>2 DEF Log!Next
  <2> QED
    BY <2>3, <2>4
<1>4. CASE Retry_Delete(p)
  <2>1. i \in DOMAIN chain /\ i \in stored
    BY <1>0, <1>4 DEF Retry_Delete, Knows
  <2>2. UNCHANGED <<chain, stored, owner>>
    BY <1>4 DEF Retry_Delete
  <2>3. FailedTxs' = FailedTxs \ {i}
    BY <1>0, <1>4, <2>2, RemoveRow DEF Retry_Delete
  <2>4. CASE i \in FailedTxs
    <3>1. Log!Recover(i)
      BY <2>1, <2>2, <2>3, <2>4 DEF Log!Recover
    <3> QED
      BY <2>1, <3>1 DEF Log!Next
  <2>5. CASE i \notin FailedTxs
    BY <2>2, <2>3, <2>5 DEF Log!vars
  <2> QED
    BY <2>4, <2>5
<1>5. CASE Owner_Write(p)
  <2>1. /\ i \in DOMAIN chain /\ i \in stored
        /\ chain[i].kind = "SALE" /\ owner[chain[i].mint] # None
    BY <1>0, <1>5 DEF Owner_Write, Knows, mint
  <2>2. UNCHANGED <<chain, stored, FailedTxs>>
    BY <1>5 DEF Owner_Write, FailedTxs
  <2>3. Log!Follow(i)
    BY <1>5, <2>1, <2>2 DEF Log!Follow, Owner_Write, mint
  <2> QED
    BY <2>1, <2>3 DEF Log!Next
<1> QED
  BY <1>1, <1>2, <1>3, <1>4, <1>5 DEF Parse

\* Every step of the indexer is a step of the log or leaves it alone.
LEMMA NextLog == IndexerInv /\ [Next]_vars => [Log!Next]_(Log!vars)
<1> SUFFICES ASSUME IndexerInv, [Next]_vars PROVE [Log!Next]_(Log!vars)
  OBVIOUS
<1>1. CASE UNCHANGED vars
  BY <1>1, LogStutters DEF vars, dbVars
<1> QED
  BY <1>1, SourceLog, ParseLog DEF Next

\* Whatever the four sources do and wherever their processes crash, readers
\* of the tables see an EventLog.
THEOREM IndexerImplementsLog == Spec => ImplementsEventLog
<1>1. Spec => Log!Spec
  BY InitLog, NextLog, IndexerInvariant, PTL DEF Spec, Log!Spec
<1> QED
  BY <1>1 DEF ImplementsEventLog

----------------------------------------------------------------------------
(* The memory of the sources                                               *)

\* The steps that leave the queues, the page and the rows of a retry alone.
LEMMA WaitingSame ==
  ASSUME UNCHANGED <<pending, batch, page, retrying>>, NEW s
  PROVE  Waiting(s)' = Waiting(s)
BY DEF Waiting

\* A parse begins: its transaction is in the memory of its source.
LEMMA ParsingBegins ==
  ASSUME TypeOK, NEW p \in Slots, NEW i, Begin(p, i), NEW s
  PROVE  Parsing(s) \subseteq Parsing(s)' /\ (p[1] = s => i \in Parsing(s)')
<1>1. /\ parse[p].step = "idle" /\ parse'[p].step = "filter" /\ parse'[p].tx = i
      /\ \A q \in Slots : q # p => parse'[q] = parse[q]
  BY DEF Begin, TypeOK
<1>2. ASSUME NEW q \in SlotsOf(s), parse[q].step # "idle"
      PROVE  parse[q].tx \in Parsing(s)'
  <2>1. q \in Slots /\ q # p
    BY <1>1, <1>2 DEF SlotsOf
  <2>2. parse'[q] = parse[q]
    BY <1>1, <2>1
  <2> QED
    BY <1>2, <2>2 DEF Parsing, SlotsOf
<1>3. Parsing(s) \subseteq Parsing(s)'
  BY <1>2 DEF Parsing
<1>4. ASSUME p[1] = s PROVE i \in Parsing(s)'
  BY <1>1, <1>4 DEF Parsing, SlotsOf
<1> QED
  BY <1>3, <1>4

\* A parse goes on with its transaction.
LEMMA ParsingGoesOn ==
  ASSUME TypeOK, NEW p \in Slots, NEW step, step # "idle", GoTo(p, step), NEW s
  PROVE  Parsing(s) \subseteq Parsing(s)'
<1>1. parse[p] \in [step : Steps, tx : DOMAIN chain \cup {0}]
  BY DEF TypeOK
<1>2. /\ parse'[p].step = step /\ parse'[p].tx = parse[p].tx
      /\ \A q \in Slots : q # p => parse'[q] = parse[q]
  BY <1>1 DEF GoTo, TypeOK
<1>3. ASSUME NEW q \in SlotsOf(s), parse[q].step # "idle"
      PROVE  parse[q].tx \in Parsing(s)'
  <2>1. q \in Slots
    BY DEF SlotsOf
  <2>2. parse'[q].step # "idle" /\ parse'[q].tx = parse[q].tx
    BY <1>2, <1>3, <2>1
  <2>3. q \in SlotsOf(s)'
    BY DEF SlotsOf
  <2> QED
    BY <2>2, <2>3 DEF Parsing
<1> QED
  BY <1>3 DEF Parsing

\* A parse ends: only its own transaction may leave the memory.
LEMMA ParsingEnds ==
  ASSUME TypeOK, NEW p \in Slots, Skip(p), NEW s
  PROVE  \A i \in Parsing(s) \ Parsing(s)' : i = parse[p].tx
<1>1. \A q \in Slots : q # p => parse'[q] = parse[q]
  BY DEF Skip, TypeOK
<1>2. ASSUME NEW q \in SlotsOf(s), parse[q].step # "idle", q # p
      PROVE  parse[q].tx \in Parsing(s)'
  <2>1. parse'[q] = parse[q] /\ q \in SlotsOf(s)'
    BY <1>1, <1>2 DEF SlotsOf
  <2> QED
    BY <1>2, <2>1 DEF Parsing
<1>3. ASSUME NEW i \in Parsing(s), i \notin Parsing(s)' PROVE i = parse[p].tx
  <2>1. PICK q \in SlotsOf(s) : parse[q].step # "idle" /\ i = parse[q].tx
    BY DEF Parsing
  <2> QED
    BY <1>2, <1>3, <2>1
<1> QED
  BY <1>3

\* A parse returns its event: it ends, or goes on to delete a row.
LEMMA ParsingSucceeds ==
  ASSUME TypeOK, NEW p \in Slots, Succeed(p), NEW s
  PROVE  \A i \in Parsing(s) \ Parsing(s)' : i = parse[p].tx
<1>1. CASE p[1] = "retry"
  <2>1. GoTo(p, "delete")
    BY <1>1 DEF Succeed
  <2> QED
    BY <2>1, ParsingGoesOn
<1>2. CASE p[1] # "retry"
  BY <1>2, ParsingEnds DEF Succeed
<1> QED
  BY <1>1, <1>2

\* The first of a queue that is taken and the rest are the queue.
LEMMA HeadAndTail ==
  ASSUME NEW S, NEW q \in Seq(S), q # <<>>
  PROVE  \A k \in DOMAIN q : q[k] = Head(q) \/ \E l \in DOMAIN Tail(q) : Tail(q)[l] = q[k]
<1>1. /\ Len(q) \in Nat \ {0} /\ DOMAIN q = 1 .. Len(q) /\ DOMAIN Tail(q) = 1 .. Len(q) - 1
      /\ \A l \in 1 .. Len(q) - 1 : Tail(q)[l] = q[l + 1]
      /\ Head(q) = q[1]
  OBVIOUS
<1>2. ASSUME NEW k \in DOMAIN q, k # 1
      PROVE  \E l \in DOMAIN Tail(q) : Tail(q)[l] = q[k]
  <2>1. k - 1 \in 1 .. Len(q) - 1 /\ (k - 1) + 1 = k
    BY <1>1, <1>2
  <2>2. Tail(q)[k - 1] = q[k]
    BY <1>1, <2>1
  <2> QED
    BY <1>1, <2>1, <2>2
<1> QED
  BY <1>1, <1>2

\* Between two batches nothing waits in the last one.
BatchTaken == live = "waiting" => batch = <<>>

LEMMA NextBatch == BatchTaken /\ [Next]_vars => BatchTaken'
<1> SUFFICES ASSUME BatchTaken, [Next]_vars PROVE BatchTaken'
  OBVIOUS
<1> USE DEF BatchTaken, dbVars, liveVars, bounds
<1>1. CASE UNCHANGED <<live, batch>>
  BY <1>1
<1>2. CASE \/ Transact \/ Backfill_Start \/ Backfill_Missing \/ Retry_Load
           \/ (\E m \in Mints : Retrieve(m) \/ Expire(m))
           \/ (\E i \in DOMAIN chain : Live_Receive(i))
  BY <1>1, <1>2 DEF Transact, Retrieve, Expire, Live_Receive, Backfill_Start, Backfill_Missing,
                    Retry_Load
<1>3. CASE Live_Take \/ Live_Resolve \/ Live_Done
  BY <1>3 DEF Live_Take, Live_Resolve, Live_Done
<1>4. ASSUME NEW p \in Slots, Start(p) PROVE BatchTaken'
  BY <1>4 DEF Start, Live_Parse, Webhook_Parse, Backfill_Parse, Retry_Parse
<1>5. ASSUME NEW p \in Slots, Parse(p) \/ ParseError(p) PROVE BatchTaken'
  BY <1>1, <1>5
     DEF Parse, ParseError, Parse_Filter, Parse_Resolve, Parse_Helius, Parse_Untracked,
         Parse_Store, Parse_Fail, Owner_Read, Owner_Write, Retry_Delete,
         Parse_ResolveRaises, Parse_Raise, Parse_FailRaises, Owner_Raise
<1>6. ASSUME NEW s \in Sources, Crash(s) PROVE BatchTaken'
  BY <1>6 DEF Crash
<1>7. CASE UNCHANGED vars
  BY <1>1, <1>7 DEF vars
<1> QED
  BY <1>2, <1>3, <1>4, <1>5, <1>6, <1>7 DEF Next

\* The sources pass on what they have taken.
LEMMA SourceKeeps ==
  ASSUME IndexerInv, BatchTaken,
         \/ Transact
         \/ \E m \in Mints : Retrieve(m) \/ Expire(m)
         \/ \E i \in DOMAIN chain : Live_Receive(i)
         \/ Live_Take \/ Live_Resolve \/ Live_Done
         \/ Backfill_Start \/ Backfill_Missing \/ Retry_Load
  PROVE  LeavesSettled
<1> USE DEF dbVars, liveVars, bounds
<1>0. TypeOK
  BY DEF IndexerInv
<1>1. CASE Backfill_Missing
  <2>1. errors \in Nat /\ errors' = errors + 1
    BY <1>0, <1>1, IndexerConstants DEF Backfill_Missing, TypeOK, IndexerConstants
  <2>2. errors' # errors
    BY <2>1
  <2> QED
    BY <2>2 DEF LeavesSettled
<1>2. ASSUME ~Backfill_Missing, NEW s \in Sources PROVE InMemory(s) \subseteq InMemory(s)'
  <2>1. UNCHANGED parse
    BY <1>2 DEF Transact, Retrieve, Expire, Live_Receive, Live_Take, Live_Resolve, Live_Done,
                Backfill_Start, Retry_Load
  <2>2. Parsing(s)' = Parsing(s)
    BY <2>1 DEF Parsing, SlotsOf
  <2>3. Waiting(s) \subseteq Waiting(s)'
    <3>1. CASE UNCHANGED <<pending, batch, page, retrying>>
      BY <3>1, WaitingSame
    <3>2. ASSUME NEW i \in DOMAIN chain, Live_Receive(i) PROVE Waiting(s) \subseteq Waiting(s)'
      <4>1. pending \in Seq(DOMAIN chain) /\ pending' = Append(pending, i)
        BY <1>0, <3>2 DEF Live_Receive, TypeOK
      <4>2. \A k \in DOMAIN pending : k \in DOMAIN pending' /\ pending'[k] = pending[k]
        BY <4>1
      <4>3. UNCHANGED <<batch, page, retrying>>
        BY <3>2 DEF Live_Receive
      <4> QED
        BY <4>2, <4>3 DEF Waiting, Sources
    <3>3. CASE Live_Take
      <4>1. batch = <<>> /\ batch' = pending /\ UNCHANGED <<page, retrying>>
        BY <3>3 DEF Live_Take, BatchTaken
      <4>2. DOMAIN batch = {}
        BY <4>1
      <4> QED
        BY <4>1, <4>2 DEF Waiting, Sources
    <3>4. CASE Backfill_Start
      <4>1. page = 0 /\ UNCHANGED <<pending, batch, retrying>>
        BY <3>4 DEF Backfill_Start
      <4>2. 1 .. page = {}
        BY <4>1
      <4> QED
        BY <4>1, <4>2 DEF Waiting, Sources
    <3>5. CASE Retry_Load
      <4>1. retrying = <<>> /\ UNCHANGED <<pending, batch, page>>
        BY <3>5 DEF Retry_Load
      <4>2. DOMAIN retrying = {}
        BY <4>1
      <4> QED
        BY <4>1, <4>2 DEF Waiting, Sources
    <3>6. CASE Transact \/ Live_Resolve \/ Live_Done \/ \E m \in Mints : Retrieve(m) \/ Expire(m)
      BY <3>1, <3>6 DEF Transact, Retrieve, Expire, Live_Resolve, Live_Done
    <3> QED
      BY <1>2, <3>2, <3>3, <3>4, <3>5, <3>6
  <2> QED
    BY <2>2, <2>3 DEF InMemory
<1>3. CASE ~Backfill_Missing
  BY <1>2, <1>3 DEF LeavesSettled
<1> QED
  BY <1>1, <1>3

\* What a source begins to parse it has still in memory.
LEMMA StartKeeps ==
  ASSUME IndexerInv, NEW p \in Slots, Start(p)
  PROVE  LeavesSettled
<1> USE DEF dbVars, liveVars, bounds
<1>0. TypeOK
  BY DEF IndexerInv
<1>1. ASSUME NEW s \in Sources PROVE InMemory(s) \subseteq InMemory(s)'
  <2>1. CASE p[1] = "live" /\ Live_Parse(p)
    <3>1. batch \in Seq(DOMAIN chain) /\ batch # <<>> /\ batch' = Tail(batch)
          /\ Begin(p, Head(batch)) /\ UNCHANGED <<pending, page, retrying>>
      BY <1>0, <2>1 DEF Live_Parse, TypeOK
    <3>2. Parsing(s) \subseteq Parsing(s)' /\ (s = "live" => Head(batch) \in Parsing(s)')
      BY <1>0, <2>1, <3>1, ParsingBegins
    <3>3. \A k \in DOMAIN batch :
            batch[k] = Head(batch) \/ \E l \in DOMAIN batch' : batch'[l] = batch[k]
      BY <3>1, HeadAndTail
    <3>4. Waiting(s) \subseteq InMemory(s)'
      BY <3>1, <3>2, <3>3 DEF Waiting, InMemory, Sources
    <3> QED
      BY <3>2, <3>4 DEF InMemory
  <2>2. ASSUME NEW i \in DOMAIN chain, Webhook_Parse(p, i)
        PROVE  InMemory(s) \subseteq InMemory(s)'
    <3>1. Parsing(s) \subseteq Parsing(s)'
      BY <1>0, <2>2, ParsingBegins DEF Webhook_Parse
    <3>2. Waiting(s)' = Waiting(s)
      BY <2>2, WaitingSame DEF Webhook_Parse
    <3> QED
      BY <3>1, <3>2 DEF InMemory
  <2>3. CASE p[1] = "backfill" /\ Backfill_Parse(p)
    <3>1. Begin(p, page) /\ page' = page - 1 /\ UNCHANGED <<pending, batch, retrying>>
      BY <2>3 DEF Backfill_Parse
    <3>2. Parsing(s) \subseteq Parsing(s)' /\ (s = "backfill" => page \in Parsing(s)')
      BY <1>0, <2>3, <3>1, ParsingBegins
    <3>3. \A i \in 1 .. page : i = page \/ i \in 1 .. page'
      <4>1. page \in Int
        <5>1. chain \in Seq(Tx) /\ page \in DOMAIN chain \cup {0}
          BY <1>0 DEF TypeOK
        <5>2. DOMAIN chain \subseteq Int
          BY <5>1
        <5> QED
          BY <5>1, <5>2
      <4> QED
        BY <3>1, <4>1
    <3>4. Waiting(s) \subseteq InMemory(s)'
      BY <3>1, <3>2, <3>3 DEF Waiting, InMemory, Sources
    <3> QED
      BY <3>2, <3>4 DEF InMemory
  <2>4. CASE p[1] = "retry" /\ Retry_Parse(p)
    <3>1. retrying \in Seq(DOMAIN chain) /\ retrying # <<>> /\ retrying' = Tail(retrying)
          /\ Begin(p, Head(retrying)) /\ UNCHANGED <<pending, batch, page>>
      BY <1>0, <2>4 DEF Retry_Parse, TypeOK
    <3>2. Parsing(s) \subseteq Parsing(s)' /\ (s = "retry" => Head(retrying) \in Parsing(s)')
      BY <1>0, <2>4, <3>1, ParsingBegins
    <3>3. \A k \in DOMAIN retrying :
            retrying[k] = Head(retrying) \/ \E l \in DOMAIN retrying' : retrying'[l] = retrying[k]
      BY <3>1, HeadAndTail
    <3>4. Waiting(s) \subseteq InMemory(s)'
      BY <3>1, <3>2, <3>3 DEF Waiting, InMemory, Sources
    <3> QED
      BY <3>2, <3>4 DEF InMemory
  <2> QED
    BY <2>1, <2>2, <2>3, <2>4 DEF Start
<1> QED
  BY <1>1 DEF LeavesSettled

\* A parse ends only with its transaction settled.
LEMMA ParseKeeps ==
  ASSUME IndexerInv, NEW p \in Slots, Parse(p) \/ ParseError(p)
  PROVE  LeavesSettled
<1> USE DEF dbVars, liveVars, bounds, At
<1> DEFINE tx == parse[p].tx
           Settled == \/ tx \in stored' \cup FailedTxs'
                      \/ ~Recognised(tx) \/ owner[mint(tx)] = None
                      \/ cache'[mint(tx)] = "NOT_FOUND"
                      \/ errors' # errors
<1>0. TypeOK /\ Knows(p)
  BY DEF IndexerInv, ParseOK
<1>1. UNCHANGED <<pending, batch, page, retrying>>
  BY DEF Parse, ParseError, Parse_Filter, Parse_Resolve, Parse_Helius, Parse_Untracked,
         Parse_Store, Parse_Fail, Owner_Read, Owner_Write, Retry_Delete,
         Parse_ResolveRaises, Parse_Raise, Parse_FailRaises, Owner_Raise
<1>2. \/ \E step \in {"resolve", "helius", "store", "fail", "ownerRead", "ownerWrite"} :
           GoTo(p, step)
      \/ (Skip(p) \/ Succeed(p)) /\ Settled
  <2>1. CASE ParseError(p)
    <3>1. errors \in Nat /\ errors' = errors + 1
      BY <1>0, <2>1, IndexerConstants
         DEF ParseError, Parse_ResolveRaises, Parse_Raise, Parse_FailRaises, Owner_Raise, TypeOK,
             IndexerConstants
    <3>2. errors' # errors
      BY <3>1
    <3> QED
      BY <2>1, <3>2
         DEF ParseError, Parse_ResolveRaises, Parse_Raise, Parse_FailRaises, Owner_Raise
  <2>2. CASE Parse_Filter(p)
    BY <2>2 DEF Parse_Filter
  <2>3. CASE Parse_Resolve(p) \/ Parse_Untracked(p)
    BY <2>3 DEF Parse_Resolve, Parse_Untracked
  <2>4. CASE Parse_Helius(p)
    <3>1. CASE GoTo(p, "store")
      BY <3>1
    <3>2. CASE Skip(p) /\ cache' = [cache EXCEPT ![mint(tx)] = "NOT_FOUND"]
      <4>1. tx \in DOMAIN chain
        BY <1>0, <2>4 DEF Parse_Helius, Knows
      <4>2. mint(tx) \in DOMAIN cache
        BY <1>0, <4>1, TxType DEF TypeOK
      <4>3. cache'[mint(tx)] = "NOT_FOUND"
        BY <3>2, <4>2
      <4> QED
        BY <3>2, <4>3
    <3> QED
      BY <2>4, <3>1, <3>2 DEF Parse_Helius
  <2>5. CASE Parse_Store(p)
    BY <2>5 DEF Parse_Store
  <2>6. CASE Parse_Fail(p)
    <3>1. tx \in FailedTxs'
      <4>1. CASE tx \in FailedTxs
        BY <2>6, <4>1 DEF Parse_Fail, FailedTxs
      <4>2. CASE tx \notin FailedTxs
        <5>1. tx \in DOMAIN chain /\ UNCHANGED chain /\ failed' = Append(failed, tx)
          BY <1>0, <2>6, <4>2 DEF Parse_Fail, Knows
        <5>2. FailedTxs' = FailedTxs \cup {tx}
          BY <1>0, <4>2, <5>1, AppendRow DEF IndexerInv
        <5> QED
          BY <5>2
      <4> QED
        BY <4>1, <4>2
    <3> QED
      BY <2>6, <3>1 DEF Parse_Fail
  <2>7. CASE Owner_Read(p) \/ Owner_Write(p) \/ Retry_Delete(p)
    <3>1. tx \in stored'
      BY <1>0, <2>7 DEF Owner_Read, Owner_Write, Retry_Delete, Knows
    <3> QED
      BY <2>7, <3>1 DEF Owner_Read, Owner_Write, Retry_Delete
  <2> QED
    BY <2>1, <2>2, <2>3, <2>4, <2>5, <2>6, <2>7 DEF Parse
<1> HIDE DEF Settled, tx
<1>3. ASSUME NEW s \in Sources, NEW i \in InMemory(s), i \notin InMemory(s)'
      PROVE  i = tx /\ Settled
  <2>1. i \in Parsing(s) /\ i \notin Parsing(s)'
    <3>1. Waiting(s)' = Waiting(s)
      BY <1>1, WaitingSame
    <3> QED
      BY <1>3, <3>1 DEF InMemory
  <2>2. ASSUME NEW step \in {"resolve", "helius", "store", "fail", "ownerRead", "ownerWrite"},
               GoTo(p, step)
        PROVE  FALSE
    <3>1. step # "idle"
      OBVIOUS
    <3>2. Parsing(s) \subseteq Parsing(s)'
      BY <1>0, <2>2, <3>1, ParsingGoesOn
    <3> QED
      BY <2>1, <3>2
  <2>3. (Skip(p) \/ Succeed(p)) /\ Settled
    BY <1>2, <2>2
  <2> QED
    BY <1>0, <2>1, <2>3, ParsingEnds, ParsingSucceeds DEF tx
<1> QED
  BY <1>3 DEF LeavesSettled, Settled

\* Every step hands on, settles, or is an error or a crash.
LEMMA NextKeeps == IndexerInv /\ BatchTaken /\ [Next]_vars => [LeavesSettled]_vars
<1> SUFFICES ASSUME IndexerInv, BatchTaken, Next PROVE LeavesSettled
  OBVIOUS
<1>1. ASSUME NEW s \in Sources, Crash(s) PROVE LeavesSettled
  <2>1. crashes \in Nat /\ crashes' = crashes + 1
    BY <1>1, IndexerConstants DEF Crash, IndexerInv, TypeOK, IndexerConstants
  <2>2. crashes' # crashes
    BY <2>1
  <2> QED
    BY <2>2 DEF LeavesSettled
<1> QED
  BY <1>1, SourceKeeps, StartKeeps, ParseKeeps DEF Next

\* No source drops a transaction that it has taken up: it is stored or kept for a retry
\* when it leaves the memory, or it is no event, or its NFT is unknown, or something
\* failed in that step.
THEOREM SourcesKeep == Spec => NothingDropped
<1>1. Init => BatchTaken
  BY DEF Init, BatchTaken
<1>2. Spec => [][LeavesSettled]_vars
  BY <1>1, NextBatch, NextKeeps, IndexerInvariant, PTL DEF Spec
<1> QED
  BY <1>2 DEF NothingDropped

----------------------------------------------------------------------------
(* Owners                                                                  *)

\* A sale stays one of its NFT's sales.
LEMMA SalesStay ==
  ASSUME TypeOK, Grows, NEW m \in Mints
  PROVE  {chain[i].buyer : i \in Moves(m)} \subseteq {chain'[i].buyer : i \in Moves(m)'}
<1>1. ASSUME NEW i \in Moves(m) PROVE i \in Moves(m)' /\ chain'[i] = chain[i]
  <2>1. i \in DOMAIN chain /\ mint(i) = m /\ chain[i].kind = "SALE"
    BY DEF Moves
  <2>2. i \in DOMAIN chain' /\ chain'[i] = chain[i]
    BY <2>1 DEF Grows
  <2> QED
    BY <2>1, <2>2 DEF Moves, mint
<1> QED
  BY <1>1

\* The owner that a provider names has held the NFT.
LEMMA NamedHasHeld ==
  ASSUME NEW m \in Mints
  PROVE  CurrentOwner(m) \in {Minter} \cup {chain[i].buyer : i \in Moves(m)}
<1>1. CASE LastMove(m) # {}
  <2>1. (CHOOSE i \in LastMove(m) : TRUE) \in Moves(m)
    BY <1>1 DEF LastMove
  <2> QED
    BY <1>1, <2>1 DEF CurrentOwner
<1> QED
  BY <1>1 DEF CurrentOwner

\* Every step leaves the owners alone, names one, or moves one to a buyer.
LEMMA NextHeld == IndexerInv /\ OwnerHasHeld /\ [Next]_vars => OwnerHasHeld'
<1> SUFFICES ASSUME IndexerInv, OwnerHasHeld, [Next]_vars PROVE OwnerHasHeld'
  OBVIOUS
<1> USE DEF dbVars, liveVars, bounds, At
<1>0. TypeOK /\ ParseOK
  BY DEF IndexerInv
<1>1. ASSUME Grows, UNCHANGED owner PROVE OwnerHasHeld'
  BY <1>0, <1>1, SalesStay DEF OwnerHasHeld
<1>2. ASSUME NEW n \in Mints, Retrieve(n) PROVE OwnerHasHeld'
  <2>1. /\ owner' = [owner EXCEPT ![n] = CurrentOwner(n)] /\ UNCHANGED chain
    BY <1>2 DEF Retrieve
  <2>2. \A m \in Mints : Moves(m)' = Moves(m)
    BY <2>1 DEF Moves, mint
  <2>3. ASSUME NEW m \in Mints
        PROVE  owner'[m] \in {None, Minter} \cup {chain[i].buyer : i \in Moves(m)}
    <3>1. CASE m = n
      <4>1. owner'[n] = CurrentOwner(n)
        BY <1>0, <2>1 DEF TypeOK
      <4> QED
        BY <3>1, <4>1, NamedHasHeld
    <3>2. CASE m # n
      <4>1. owner'[m] = owner[m]
        BY <1>0, <2>1, <3>2 DEF TypeOK
      <4> QED
        BY <4>1 DEF OwnerHasHeld
    <3> QED
      BY <3>1, <3>2
  <2> QED
    BY <2>1, <2>2, <2>3 DEF OwnerHasHeld
<1>3. ASSUME NEW p \in Slots, Owner_Write(p) PROVE OwnerHasHeld'
  <2> DEFINE i == parse[p].tx
  <2>1. owner' = [owner EXCEPT ![mint(i)] = chain[i].buyer] /\ UNCHANGED chain
    BY <1>3 DEF Owner_Write
  <2>2. i \in Moves(mint(i))
    BY <1>0, <1>3 DEF Owner_Write, ParseOK, Knows, Moves
  <2>3. \A m \in Mints : Moves(m)' = Moves(m)
    BY <2>1 DEF Moves, mint
  <2> HIDE DEF i
  <2> QED
    BY <1>0, <2>1, <2>2, <2>3 DEF OwnerHasHeld, TypeOK
<1>4. CASE UNCHANGED vars
  BY <1>1, <1>4, SameGrows DEF vars
<1>5. CASE Transact
  BY <1>1, <1>5, TransactStep DEF Transact
<1>6. CASE \/ \E m \in Mints : Expire(m)
           \/ \E i \in DOMAIN chain : Live_Receive(i)
           \/ Live_Take \/ Live_Resolve \/ Live_Done
           \/ Backfill_Start \/ Backfill_Missing \/ Retry_Load
  <2>1. UNCHANGED owner
    BY <1>6 DEF Expire, Live_Receive, Live_Take, Live_Resolve, Live_Done, Backfill_Start,
                Backfill_Missing, Retry_Load
  <2>2. Grows
    BY <1>6, SourceStep
  <2> QED
    BY <1>1, <2>1, <2>2
<1>7. ASSUME NEW p \in Slots, Start(p) PROVE OwnerHasHeld'
  BY <1>1, <1>7, StartStep DEF Start, Live_Parse, Webhook_Parse, Backfill_Parse, Retry_Parse
<1>8. ASSUME NEW p \in Slots, Parse(p) \/ ParseError(p), ~Owner_Write(p) PROVE OwnerHasHeld'
  <2>1. UNCHANGED owner
    BY <1>8 DEF Parse, ParseError, Parse_Filter, Parse_Resolve, Parse_Helius, Parse_Untracked,
                Parse_Store, Parse_Fail, Owner_Read, Retry_Delete, Parse_ResolveRaises, Parse_Raise,
                Parse_FailRaises, Owner_Raise
  <2>2. Grows
    BY <1>8, LookupStep, StoreStep, FailStep, OwnerStep DEF Parse, ParseError
  <2> QED
    BY <1>1, <2>1, <2>2
<1>9. ASSUME NEW s \in Sources, Crash(s) PROVE OwnerHasHeld'
  BY <1>1, <1>9, CrashStep DEF Crash
<1> QED
  BY <1>2, <1>3, <1>4, <1>5, <1>6, <1>7, <1>8, <1>9 DEF Next

\* An NFT's owner is its first one or has bought this NFT, in every reachable state.
THEOREM OwnersHaveHeld == Spec => []OwnerHasHeld
<1>1. Init => OwnerHasHeld
  BY DEF Init, OwnerHasHeld
<1> QED
  BY <1>1, NextHeld, IndexerInvariant, PTL DEF Spec
=============================================================================
