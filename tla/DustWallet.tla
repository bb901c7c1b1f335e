----------------------------- MODULE DustWallet -----------------------------
(***************************************************************************)
(* The dust coins that pay a wallet's fees, from the node's nullifier set  *)
(* to the wallet's copy of it (balance_ffi.rs, dust_ffi.rs, serialize.rs,  *)
(* zswap_ffi.rs).                                                          *)
(*                                                                         *)
(* The wallet learns of its coins by replaying the chain's events into a   *)
(* DustLocalState, which it saves to and restores from a checkpoint.  A    *)
(* balanced transaction spends one coin, selected from that state; the     *)
(* node refuses a coin it has seen spent (error 115).  Two things keep the *)
(* wallet from selecting a coin twice while the event of its spend has not *)
(* come: a mark in the state, which a crash or a timeout takes away, and a *)
(* durable skip set of nullifiers, which the caller prunes against         *)
(* dust_current_nullifiers.                                                *)
(*                                                                         *)
(* A nullifier stands for its coin.  Which of the coins that can pay the   *)
(* fee is selected, and a selection none can pay, are left open.           *)
(***************************************************************************)
EXTENDS Naturals, FiniteSets

CONSTANTS
    Coins,      \* every dust UTXO, past and future (bound)
    NoCoin,     \* no coin
    Paths,      \* the ways this wallet spends dust
    PruneWhen,  \* what the caller waits for before it prunes the skip set
    Forgets,    \* how a mark can be lost before the spend is replayed
    Lossy,      \* the event of an own spend may be missing from the stream
    MaxBuilt    \* transactions out per coin (bound)

ASSUME ParametersAssumption ==
    /\ NoCoin \notin Coins
    /\ IsFiniteSet(Coins)
    /\ Paths \subseteq {"balance", "serialize", "shielded"}
    /\ PruneWhen \subseteq {"unmarked", "saved", "synced"}
    /\ Forgets \subseteq {"crash", "lapse"}
    /\ Lossy \in BOOLEAN
    /\ MaxBuilt \in Nat

VARIABLES
    height,  \* number of dust events on the chain
    born,    \* the event that created each coin, 0 for none yet
    gone,    \* the event that spent it, 0 for none
    spent,   \* the coins whose nullifier the node has seen
    built,   \* per coin, the finished transactions that spend it
    dust,    \* the DustLocalState behind the pointer: events replayed, marks
    disk,    \* the last checkpoint of it
    skip,    \* the durable skip set
    ret      \* the coin a balance has returned and the caller not recorded

chain == <<height, born, gone>>
vars == <<height, born, gone, spent, built, dust, disk, skip, ret>>

(* The coins a state at event p tracks, and those utxos() lists.           *)
Tracked(p) == {c \in Coins : born[c] \in 1..p /\ gone[c] \notin 1..p}
Selectable(d) == Tracked(d.pos) \ d.pending

Unborn == {c \in Coins : born[c] = 0}

States == [pos : Nat, pending : SUBSET Coins]

Init ==
    /\ height = 0
    /\ born = [c \in Coins |-> 0]
    /\ gone = [c \in Coins |-> 0]
    /\ spent = {}
    /\ built = [c \in Coins |-> 0]
    /\ dust = [pos |-> 0, pending |-> {}]
    /\ disk = [pos |-> 0, pending |-> {}]
    /\ skip = {}
    /\ ret = NoCoin

-----------------------------------------------------------------------------
(* The chain.                                                              *)

(* A NIGHT UTXO of the wallet starts to generate: DustInitialUtxo.         *)
Mint(c) ==
    /\ c \in Unborn
    /\ height' = height + 1
    /\ born' = [born EXCEPT ![c] = height']
    /\ UNCHANGED <<gone, spent, built, dust, disk, skip, ret>>

(* The node takes a transaction that spends c and creates s (none when the *)
(* coins of the model have run out); the event may be missing.             *)
Accept(c, s) ==
    /\ built[c] > 0
    /\ c \notin spent
    /\ IF Unborn = {} THEN s = NoCoin ELSE s \in Unborn
    /\ built' = [built EXCEPT ![c] = @ - 1]
    /\ spent' = spent \cup {c}
    /\ \/ /\ height' = height + 1
          /\ gone' = [gone EXCEPT ![c] = height']
          /\ born' = [x \in Coins |-> IF x = s THEN height' ELSE born[x]]
       \/ /\ Lossy
          /\ UNCHANGED <<height, gone, born>>
    /\ UNCHANGED <<dust, disk, skip, ret>>

(* Error 115, or a transaction that is never submitted or expires.         *)
Lose(c) ==
    /\ built[c] > 0
    /\ built' = [built EXCEPT ![c] = @ - 1]
    /\ UNCHANGED <<chain, spent, dust, disk, skip, ret>>

-----------------------------------------------------------------------------
(* Slips: what a slip in the code would make of the actions below.  They   *)
(* are part of no specification.                                           *)

(* The balancer does not look at the nullifiers to exclude.                *)
EveryCandidate == Selectable(dust)

(* The state after the spend is not written back.                          *)
SerializeWithoutMark(c) ==
    /\ "serialize" \in Paths
    /\ built[c] < MaxBuilt
    /\ c \in Selectable(dust)
    /\ built' = [built EXCEPT ![c] = @ + 1]
    /\ UNCHANGED <<chain, spent, dust, disk, skip, ret>>

(* The position after a replay is off by one.                              *)
ReplayPastTip(p) ==
    /\ p > dust.pos
    /\ dust' = [pos |-> p + 1, pending |-> dust.pending \cap Tracked(p)]
    /\ UNCHANGED <<chain, spent, built, disk, skip, ret>>

(* A restart finds no checkpoint and starts from an empty state.           *)
CrashFromScratch ==
    /\ "crash" \in Forgets
    /\ dust' = [pos |-> 0, pending |-> {}]
    /\ ret' = NoCoin
    /\ UNCHANGED <<chain, spent, built, disk, skip>>

(* What is listed is dropped and what is not is kept.                      *)
PruneListed ==
    /\ "unmarked" \in PruneWhen => dust.pending = {}
    /\ "saved" \in PruneWhen => disk = dust
    /\ "synced" \in PruneWhen => dust.pos = height
    /\ skip' = skip \ Selectable(dust)
    /\ UNCHANGED <<chain, spent, built, dust, disk, ret>>

(* The place in the list is off by one: another coin is spent.             *)
BuildShieldedNextTo(c) ==
    \E x \in Selectable(dust) :
        /\ x # c
        /\ built[x] < MaxBuilt
        /\ built' = [built EXCEPT ![x] = @ + 1]
        /\ UNCHANGED <<chain, spent, dust, disk, ret>>

-----------------------------------------------------------------------------
(* Spending.                                                               *)

(* select_dust_spends passes over the nullifiers to exclude.               *)
Candidates == Selectable(dust) \ skip

(* balance_proven_transaction: the first candidate that can pay is spent   *)
(* in a copy of the state; once the transaction is proven, sealed and      *)
(* merged the copy replaces the state, and the caller gets the transaction *)
(* and the nullifier.                                                      *)
Balance(c) ==
    /\ "balance" \in Paths
    /\ ret = NoCoin
    /\ c \in Candidates
    /\ dust' = [pos |-> dust.pos, pending |-> dust.pending \cup {c}]
    /\ ret' = c
    /\ UNCHANGED <<chain, spent, built, disk, skip>>

(* The caller records the nullifier before it lets the transaction out.    *)
Record ==
    /\ ret # NoCoin
    /\ built[ret] < MaxBuilt
    /\ skip' = skip \cup {ret}
    /\ built' = [built EXCEPT ![ret] = @ + 1]
    /\ ret' = NoCoin
    /\ UNCHANGED <<chain, spent, dust, disk>>

(* serialize_unshielded_transaction_with_dust: no skip set.                *)
SerializeWithDust(c) ==
    /\ "serialize" \in Paths
    /\ built[c] < MaxBuilt
    /\ c \in Selectable(dust)
    /\ dust' = [pos |-> dust.pos, pending |-> dust.pending \cup {c}]
    /\ built' = [built EXCEPT ![c] = @ + 1]
    /\ UNCHANGED <<chain, spent, disk, skip, ret>>

(* zswap_build_shielded_transaction_with_dust spends any coin the state    *)
(* lists that it is told to, by its place in the list; it drops the states *)
(* after its spends, so that nothing marks their coins.                    *)
BuildShielded(c) ==
    /\ c \in Selectable(dust)
    /\ built[c] < MaxBuilt
    /\ built' = [built EXCEPT ![c] = @ + 1]
    /\ UNCHANGED <<chain, spent, dust, disk, ret>>

(* The caller of it finds the place in the list dust_current_nullifiers    *)
(* gives, passes over its skip set, and records the nullifier.             *)
SendShielded(c) ==
    /\ "shielded" \in Paths
    /\ ret = NoCoin
    /\ c \in Candidates
    /\ BuildShielded(c)
    /\ skip' = skip \cup {c}

-----------------------------------------------------------------------------
(* Keeping the state.                                                      *)

(* dust_replay_events: a new state with the events up to p applied; a coin *)
(* still tracked keeps its mark.                                           *)
Replay(p) ==
    /\ p > dust.pos
    /\ dust' = [pos |-> p, pending |-> dust.pending \cap Tracked(p)]
    /\ UNCHANGED <<chain, spent, built, disk, skip, ret>>

(* The ledger lets a mark lapse when its pending_until has passed.         *)
MarkLapses(c) ==
    /\ "lapse" \in Forgets
    /\ c \in dust.pending
    /\ dust' = [pos |-> dust.pos, pending |-> dust.pending \ {c}]
    /\ UNCHANGED <<chain, spent, built, disk, skip, ret>>

(* serialize_dust_state and deserialize_dust_state.                        *)
Save ==
    /\ disk # dust
    /\ disk' = dust
    /\ UNCHANGED <<chain, spent, built, dust, skip, ret>>

Crash ==
    /\ "crash" \in Forgets
    /\ dust' = disk
    /\ ret' = NoCoin
    /\ UNCHANGED <<chain, spent, built, disk, skip>>

(* The caller drops from the skip set what dust_current_nullifiers does    *)
(* not list.                                                               *)
MayPrune ==
    /\ "unmarked" \in PruneWhen => dust.pending = {}
    /\ "saved" \in PruneWhen => disk = dust
    /\ "synced" \in PruneWhen => dust.pos = height

Prune ==
    /\ MayPrune
    /\ skip' = skip \cap Selectable(dust)
    /\ UNCHANGED <<chain, spent, built, dust, disk, ret>>

Next ==
    \/ \E c \in Coins : Mint(c)
    \/ \E c \in Coins, s \in Coins \cup {NoCoin} : Accept(c, s)
    \/ \E c \in Coins : Lose(c)
    \/ \E c \in Coins : Balance(c)
    \/ Record
    \/ \E c \in Coins : SerializeWithDust(c)
    \/ \E c \in Coins : SendShielded(c)
    \/ \E p \in 1..height : Replay(p)
    \/ \E c \in Coins : MarkLapses(c)
    \/ Save
    \/ Crash
    \/ Prune

Spec == Init /\ [][Next]_vars

-----------------------------------------------------------------------------
(* Properties.                                                             *)

(* Types, and that neither the state nor its checkpoint runs ahead of the  *)
(* chain.                                                                  *)
TypeOK ==
    /\ height \in Nat
    /\ born \in [Coins -> 0..height]
    /\ gone \in [Coins -> 0..height]
    /\ spent \subseteq Coins
    /\ built \in [Coins -> Nat]
    /\ dust \in States /\ dust.pos <= height
    /\ disk \in States /\ disk.pos <= height
    /\ skip \subseteq Coins
    /\ ret \in Coins \cup {NoCoin}

(* No transaction is out that spends a coin the node has seen spent or     *)
(* another transaction spends: select_dust_spends never picks a coin that  *)
(* an earlier balance has used, so the node never answers with error 115.  *)
NeverDoubleSpent ==
    \A c \in Coins : built[c] <= IF c \in spent THEN 0 ELSE 1

(* What the caller drops from the skip set has been confirmed spent: the   *)
(* state has replayed the event of the spend.                              *)
PruneOnlyConfirmed ==
    [][\A c \in skip \ skip' : gone[c] \in 1..dust.pos]_vars

(* A spend that both the state and its checkpoint have replayed stays      *)
(* replayed: neither a later replay, which builds on the state it is given,*)
(* nor a restart makes the coin selectable again.                          *)
Settled(c) == gone[c] \in 1..dust.pos /\ gone[c] \in 1..disk.pos

SettledStaysSpent ==
    [][\A c \in Coins : Settled(c) => Settled(c)' /\ c \notin Selectable(dust)']_vars

(* What the node sees of the wallet is that it pays with a coin once: the  *)
(* skip set, or the marks while none is lost, are enough.                  *)
Spending == INSTANCE SpendOnce WITH
    out <- {{c} : c \in {x \in Coins : built[x] > 0}},
    spent <- spent

ImplementsSpendOnce == Spending!Spec
=============================================================================
