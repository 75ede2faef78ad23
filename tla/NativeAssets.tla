---------------------------- MODULE NativeAssets ----------------------------
(***************************************************************************)
(* Native assets of blockchain/chain.mjs: create, mint, transfer, burn and *)
(* revoke.  An asset id is the creator and its nonce, so each account may  *)
(* create many.  The balance table is a map without zero entries, bounded  *)
(* by MAX_NATIVE_ASSET_BALANCES.  Fees are one unit and go to the proposer.*)
(***************************************************************************)
EXTENDS Integers, FiniteSets, FiniteSetsExt

CONSTANTS
    Accounts, Proposer,
    MaxSupply,        \* largest maximum supply of the instance
    MaxAssets,        \* MAX_NATIVE_ASSETS
    MaxEntries,       \* MAX_NATIVE_ASSET_BALANCES
    Funds, MaxNonce   \* MaxNonce: bound on the transactions of an account


None == [none |-> TRUE]
Ids == Accounts \X (0..MaxNonce)

VARIABLES balances, nonces, assets, assetBalances
vars == <<balances, nonces, assets, assetBalances>>

Holding(id, a) == IF <<id, a>> \in DOMAIN assetBalances THEN assetBalances[<<id, a>>] ELSE 0
Put(f, key, v) == [k \in DOMAIN f \union {key} |-> IF k = key THEN v ELSE f[k]]
Drop(f, key) == [k \in DOMAIN f \ {key} |-> f[k]]
\* A map write that deletes the entry when nothing is left.
Store(f, key, v) == IF v = 0 THEN Drop(f, key) ELSE Put(f, key, v)
Full == Cardinality(DOMAIN assetBalances) >= MaxEntries

Init ==
    /\ balances = [a \in Accounts |-> Funds] /\ nonces = [a \in Accounts |-> 0]
    /\ assets = [id \in Ids |-> None] /\ assetBalances = [k \in {} |-> 0]

\* assetFeeDecision and chargeAssetFee: next nonce, fee to the proposer.
chargeAssetFee(a) ==
    /\ nonces[a] < MaxNonce /\ balances[a] >= 1
    /\ nonces' = [nonces EXCEPT ![a] = @ + 1]
    /\ balances' = [b \in Accounts |-> balances[b] - (IF b = a THEN 1 ELSE 0) + (IF b = Proposer THEN 1 ELSE 0)]

AssetCreate(a, fixed, initial, max) ==
    /\ chargeAssetFee(a)
    /\ Cardinality({id \in Ids : assets[id] # None}) < MaxAssets
    /\ max > 0 /\ initial <= max /\ (fixed => initial = max) /\ ~(initial > 0 /\ Full)
    /\ assets' = [assets EXCEPT ![<<a, nonces[a]>>] =
           [authority |-> IF fixed THEN None ELSE [who |-> a], fixed |-> fixed, max |-> max, minted |-> initial, supply |-> initial]]
    /\ assetBalances' = IF initial > 0 THEN Put(assetBalances, <<<<a, nonces[a]>>, a>>, initial) ELSE assetBalances

AssetMint(a, id, n) ==
    /\ chargeAssetFee(a) /\ assets[id] # None /\ assets[id].authority = [who |-> a]
    /\ assets[id].minted + n <= assets[id].max
    /\ <<id, a>> \in DOMAIN assetBalances \/ ~Full
    /\ assets' = [assets EXCEPT ![id].minted = @ + n, ![id].supply = @ + n]
    /\ assetBalances' = Put(assetBalances, <<id, a>>, Holding(id, a) + n)

\* Mutant: a full table accepts every transfer.
TransferWhenFull(a, id, b, n) ==
    /\ chargeAssetFee(a) /\ assets[id] # None /\ a # b /\ Holding(id, a) >= n
    /\ assetBalances' = Put(Store(assetBalances, <<id, a>>, Holding(id, a) - n), <<id, b>>, Holding(id, b) + n)
    /\ UNCHANGED assets

\* A new holder needs room in the table unless the sender gives up its entry.
AssetTransfer(a, id, b, n) ==
    /\ chargeAssetFee(a) /\ assets[id] # None /\ a # b /\ Holding(id, a) >= n
    /\ <<id, b>> \in DOMAIN assetBalances \/ ~Full \/ Holding(id, a) = n
    /\ assetBalances' = Put(Store(assetBalances, <<id, a>>, Holding(id, a) - n), <<id, b>>, Holding(id, b) + n)
    /\ UNCHANGED assets

AssetBurn(a, id, n) ==
    /\ chargeAssetFee(a) /\ assets[id] # None /\ Holding(id, a) >= n
    /\ assetBalances' = Store(assetBalances, <<id, a>>, Holding(id, a) - n)
    /\ assets' = [assets EXCEPT ![id].supply = @ - n]

AssetRevokeAuthority(a, id) ==
    /\ chargeAssetFee(a) /\ assets[id] # None /\ ~assets[id].fixed /\ assets[id].authority = [who |-> a]
    /\ assets' = [assets EXCEPT ![id].authority = None]
    /\ UNCHANGED assetBalances

Next == \E a \in Accounts :
    \/ \E fixed \in BOOLEAN, initial \in 0..MaxSupply, max \in 1..MaxSupply : AssetCreate(a, fixed, initial, max)
    \/ \E id \in Ids, n \in 1..MaxSupply :
          AssetMint(a, id, n) \/ AssetBurn(a, id, n) \/ \E b \in Accounts : AssetTransfer(a, id, b, n)
    \/ \E id \in Ids : AssetRevokeAuthority(a, id)

Spec == Init /\ [][Next]_vars

-----------------------------------------------------------------------------
(* What fromVerifiedSnapshot requires of the state                         *)

restoredAsset(id) ==
    LET a == assets[id] IN
    /\ a.max > 0 /\ a.minted <= a.max /\ a.supply <= a.minted
    /\ a.authority \in {None, [who |-> id[1]]}
    /\ a.fixed => a.authority = None /\ a.minted = a.max

\* No empty entries, none of an unknown asset, and the totals are the supplies.
restoredBalances ==
    /\ Cardinality(DOMAIN assetBalances) <= MaxEntries
    /\ \A k \in DOMAIN assetBalances : assetBalances[k] > 0 /\ assets[k[1]] # None
    /\ \A id \in Ids : assets[id] # None =>
           assets[id].supply = SumFunction([a \in Accounts |-> Holding(id, a)])

-----------------------------------------------------------------------------
(* Properties                                                              *)

\* Burning does not reopen the cap: the total ever minted stays below it, and
\* a fixed asset is minted once.
CapIsCumulative == \A id \in Ids : assets[id] # None =>
    /\ assets[id].supply <= assets[id].minted /\ assets[id].minted <= assets[id].max
    /\ assets[id].fixed => assets[id].minted = assets[id].max

\* AssetsRestore: whatever was created, minted, moved and burned, at a full table
\* too, the state is one that a node can restore from a snapshot.
AssetsRestore == restoredBalances /\ \A id \in Ids : assets[id] # None => restoredAsset(id)

\* After a revocation (or for a fixed asset) nothing is minted any more.
RevocationFinal ==
    \A id \in Ids : assets[id] # None /\ assets[id].authority = None =>
          assets'[id].authority = None /\ assets'[id].minted = assets[id].minted

=============================================================================
