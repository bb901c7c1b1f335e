---------------------------- MODULE CallPipeline ----------------------------
(***************************************************************************)
(* A contract call from its assembly to the node's verdict, and the time   *)
(* it takes: contract_assemble_call_tx, zkir_prove_transaction_local,      *)
(* contract_sign_proven_offer, balance_proven_transaction, submission.     *)
(*                                                                         *)
(* Everything a transaction promises is fixed from the parameters the      *)
(* caller fetched when it began: the TTLs from the chain tip and the       *)
(* global_ttl, the fee from the price. Assembly, two proofs and a          *)
(* signature later the chain has moved on. What the node then checks is    *)
(* what the codes the source names check: TTLs (182), the balance with the *)
(* fee and the unshielded offer (138), the offer's signature (175).        *)
(*                                                                         *)
(* A time unit is a second or a block, fees are functions of one price,    *)
(* and of a transaction only its form and its promises are kept. One call  *)
(* is under way at a time: calls share nothing here.                       *)
(***************************************************************************)
EXTENDS Integers

CONSTANTS
    Margin,         \* DUST_TTL_MARGIN_SECS
    MaxWindow,      \* DUST_TTL_MAX_WINDOW_SECS
    FeeBlocks,      \* DEFAULT_FEE_BLOCKS_MARGIN
    Overhead,       \* FEE_OVERHEAD_PERCENT
    Hour,           \* the TTL of a call whose caller names none
    Ceilings,       \* what a network's global_ttl may be
    MaxPrice,       \* bound on the price of a unit of fee
    MaxSkew,        \* bound on how far a client's clock is ahead
    MaxTime,        \* bound on the time of the chain
    CallFee(_),     \* CallFee(p): fee of a call at price p
    DustFee(_),     \* DustFee(p): fee of a dust intent
    MergedFee(_),   \* MergedFee(p): fee of the two merged
    KeyFiles,       \* the files a proof reads
    None            \* no transaction, view, signature or dust intent

VARIABLES
    now,      \* the time of the chain
    price,    \* the price it charges
    ceiling,  \* its global_ttl
    view,     \* what the caller has fetched of these, and its clock's lead
    tx,       \* the transaction in the caller's hands
    keys,     \* the key files in keys_dir
    rayon,    \* the process-wide thread pool
    verdict   \* what the last call of the library or the node answered

vars == <<now, price, ceiling, view, tx, keys, rayon, verdict>>

Prices == 0 .. MaxPrice + FeeBlocks

ASSUME TimesAssumption ==
    /\ Margin \in Nat /\ MaxWindow \in Nat \ {0} /\ Hour \in Nat
    /\ FeeBlocks \in Nat /\ Overhead \in Nat
    /\ MaxPrice \in Nat /\ MaxSkew \in Nat /\ MaxTime \in Nat
    /\ Ceilings \subseteq Nat

\* The ledger's side of the fee: it grows with the price, a call is free only
\* where the price is 0, and merging costs no more than the parts.
ASSUME FeesAssumption ==
    \A p \in Prices :
        /\ CallFee(p) \in Nat /\ DustFee(p) \in Nat /\ MergedFee(p) \in Nat
        /\ CallFee(p) = 0 <=> p = 0
        /\ MergedFee(p) <= CallFee(p) + DustFee(p)
        /\ \A q \in Prices : p <= q => MergedFee(p) <= MergedFee(q)

Lesser(a, b) == IF a <= b THEN a ELSE b

\* Slips the run must catch, here and below: each is a definition that follows
\* with one mistake in it. A fixed window, whatever the ceiling is:
WindowFixed(g) == MaxWindow

\* dust_intent_ttl_window_secs: under the ceiling by the margin, or half of a
\* ceiling the margin would eat up. The callers' IntentTtl does the same.
Window(g) ==
    LET capped == Lesser(g - Margin, MaxWindow)
    IN  IF capped > 0 THEN capped ELSE g \div 2

\* merged_total_fee.
MergedTotal(base, dust) ==
    LET merged == base + dust IN merged + (merged * Overhead) \div 100

\* The price fees_with_margin reckons with: FeeBlocks rises from now. The
\* price of a network without fees does not rise.
Peak(p) == IF p = 0 THEN 0 ELSE p + FeeBlocks

-----------------------------------------------------------------------------
\* The objects.

\* What a caller asks for: the ways the circuit moves unshielded value, the
\* offers supplied and whether their amounts are what the circuit moves,
\* whether it names a TTL, and whether it tells the balancer the chain's tip.
Jobs == {job \in [moves : SUBSET {"in", "out"}, offers : SUBSET {"funding", "withdrawal"},
                  exact : BOOLEAN, sized : BOOLEAN, anchored : BOOLEAN] :
            job.offers = {} => job.exact}

\* An offer, whether it is the right amount, and whether it spends UTXOs, whose
\* owner has to sign it.
Offers == [kind : {"none", "funding", "withdrawal"}, exact : BOOLEAN, spends : BOOLEAN]

NoOffer == [kind |-> "none", exact |-> TRUE, spends |-> FALSE]

\* build_funding_offer: UTXOs of the wallet in, the change out, so that the
\* amount the caller names remains, whatever the UTXOs hold.
FundingOffer(job) == [kind |-> "funding", exact |-> job.exact, spends |-> TRUE]

\* build_withdrawal_offer: the recipient's output alone, of the amount named.
WithdrawalOffer(job) == [kind |-> "withdrawal", exact |-> job.exact, spends |-> FALSE]
Stages == {"unproven", "proven", "balancing", "sealed"}

\* What the signature of an offer covers: the intent with its TTL and offer,
\* the calls erased to what is left of their proofs or preimages. Sealing does
\* not show in it (the binding is downgraded).
SignedData == [form : {"preimage", "proof"}, offer : Offers, ttl : Nat]
DataToSign(t) ==
    [form |-> IF t.stage = "unproven" THEN "preimage" ELSE "proof",
     offer |-> t.offer, ttl |-> t.ttl]

Dusts == [fee : Nat, ttl : Nat]
Txs == [stage : Stages, job : Jobs, offer : Offers,
        sig : SignedData \cup {None}, ttl : Nat, dust : Dusts \cup {None}]
Views == [tip : Nat, lead : 0 .. MaxSkew, price : 0 .. MaxPrice]

ASSUME NoneAssumption == None \notin SignedData \cup Dusts \cup Txs \cup Views

Tx(stage, job, offer, sig, ttl, dust) ==
    [stage |-> stage, job |-> job, offer |-> offer, sig |-> sig, ttl |-> ttl, dust |-> dust]

\* t at another stage.
At(t, stage) == Tx(stage, t.job, t.offer, t.sig, t.ttl, t.dust)

InHand(stage) == tx # None /\ tx.stage = stage

Init ==
    /\ now = 0
    /\ price \in {0, 1} \cap 0 .. MaxPrice
    /\ ceiling \in Ceilings
    /\ view = None
    /\ tx = None
    /\ keys = {}
    /\ rayon = "unloaded"
    /\ verdict = "none"

-----------------------------------------------------------------------------
\* The node (external).

\* Error 182: expired, or too far in the future.
InTime(ttl) == now <= ttl /\ ttl <= now + ceiling

\* Error 138: the fee, and the offer that answers what the circuit moves.
Pays(t) ==
    IF t.dust = None THEN CallFee(price) = 0 ELSE MergedFee(price) <= t.dust.fee

Balances(t) ==
    /\ t.offer.kind = "funding" <=> "in" \in t.job.moves
    /\ t.offer.kind = "withdrawal" <=> "out" \in t.job.moves
    /\ t.offer.exact

Accepts(t) ==
    /\ InTime(t.ttl)
    /\ t.dust # None => InTime(t.dust.ttl)
    /\ Pays(t)
    /\ Balances(t)
    /\ t.offer.spends => t.sig = DataToSign(t)

Tick ==
    /\ now < MaxTime
    /\ now' = now + 1
    /\ price' \in IF price = 0 THEN {0} ELSE {price, price + 1} \cap 0 .. MaxPrice
    /\ UNCHANGED <<ceiling, view, tx, keys, rayon, verdict>>

Submit ==
    /\ InHand("sealed")
    /\ verdict' = IF Accepts(tx) THEN "accepted" ELSE "refused"
    /\ tx' = None
    /\ view' = None
    /\ UNCHANGED <<now, price, ceiling, keys, rayon>>

-----------------------------------------------------------------------------
\* The library's thread pool and the key files.

\* init_proving_thread_pool: capped at its first call, if nothing has used the
\* pool before (an uncapped pool stays).
Capped == IF rayon = "full" THEN "full" ELSE "capped"

\* A slip: JNI_OnLoad sets up logging only.
LoadUncapped ==
    /\ rayon = "unloaded"
    /\ rayon' = "unused"
    /\ UNCHANGED <<now, price, ceiling, view, tx, keys, verdict>>

\* JNI_OnLoad, before any native method runs.
Load ==
    /\ rayon = "unloaded"
    /\ rayon' = Capped
    /\ UNCHANGED <<now, price, ceiling, view, tx, keys, verdict>>

Loaded == rayon # "unloaded"

\* Any other use of the ledger: rayon starts with all cores if it must.
UseLedger ==
    /\ Loaded
    /\ rayon' = IF rayon = "unused" THEN "full" ELSE rayon
    /\ UNCHANGED <<now, price, ceiling, view, tx, keys, verdict>>

\* The application downloads a key file (external).
Download(f) ==
    /\ f \notin keys
    /\ keys' = keys \cup {f}
    /\ UNCHANGED <<now, price, ceiling, view, tx, rayon, verdict>>

-----------------------------------------------------------------------------
\* The caller fetches parameters, price and tip; lead is how far the time it
\* goes by is ahead of the chain.
Fetch(lead) ==
    /\ Loaded
    /\ tx = None
    /\ view' = [tip |-> now + lead, lead |-> lead, price |-> price]
    /\ verdict' = "none"
    /\ UNCHANGED <<now, price, ceiling, tx, keys, rayon>>

\* check_unshielded_offer_present: supplied offers are never looked into.
Supported(job) == job.offers # {} \/ job.moves = {}

\* A funding offer is taken before a withdrawal, and one offer only.
OfferOf(job) ==
    IF "funding" \in job.offers THEN FundingOffer(job)
    ELSE IF "withdrawal" \in job.offers THEN WithdrawalOffer(job) ELSE NoOffer

\* assemble_call_tx_impl: the offer is attached unsigned. A caller that names
\* no TTL gets its own clock plus an hour.
Assemble(job) ==
    /\ view # None /\ tx = None
    /\ Supported(job)
    /\ tx' = Tx("unproven", job, OfferOf(job), None,
                view.tip + (IF job.sized THEN Window(ceiling) ELSE Hour), None)
    /\ verdict' = "done"
    /\ UNCHANGED <<now, price, ceiling, view, keys, rayon>>

\* An error answers it: no offer for what the circuit moves, inputs below the
\* amount, another token among them, or anything that does not parse.
AssembleFails ==
    /\ view # None /\ tx = None
    /\ verdict' = "error"
    /\ UNCHANGED <<now, price, ceiling, view, tx, keys, rayon>>

\* zkir_prove_transaction_local, with every file it resolves in place.
Prove ==
    /\ InHand("unproven")
    /\ keys = KeyFiles
    /\ tx' = At(tx, "proven")
    /\ rayon' = Capped
    /\ verdict' = "done"
    /\ UNCHANGED <<now, price, ceiling, view, keys>>

\* A file is missing or proving fails: the caller keeps what it passed.
ProveFails ==
    /\ InHand("unproven")
    /\ rayon' = Capped
    /\ verdict' = "error"
    /\ UNCHANGED <<now, price, ceiling, view, tx, keys>>

\* A slip: the offer of an unproven transaction is signed, too.
MaySignEarly == InHand("unproven") \/ InHand("proven")

\* Only a proven transaction, not yet sealed, decodes as one.
MaySign == InHand("proven")

\* contract_sign_proven_offer signs an offer without signatures; one without
\* inputs stays without.
SignProvenOffer ==
    /\ MaySign
    /\ tx.offer.kind # "none" /\ tx.sig = None
    /\ tx' = Tx(tx.stage, tx.job, tx.offer,
                IF tx.offer.spends THEN DataToSign(tx) ELSE None, tx.ttl, tx.dust)
    /\ verdict' = "done"
    /\ UNCHANGED <<now, price, ceiling, view, keys, rayon>>

\* No unsigned offer, not a proven transaction, or a key that owns no input.
SignFails ==
    /\ tx # None
    /\ verdict' = "error"
    /\ UNCHANGED <<now, price, ceiling, view, tx, keys, rayon>>

\* balance_proven_transaction sizes fee and TTL with the parameters it is
\* given, the TTL from the tip or, without one, from the time s to which dust
\* is synced. Where nothing is charged no dust intent is made.
BaseFee == CallFee(Peak(view.price))

BalanceFree ==
    /\ InHand("proven")
    /\ BaseFee = 0
    /\ tx' = At(tx, "sealed")
    /\ rayon' = Capped
    /\ verdict' = "done"
    /\ UNCHANGED <<now, price, ceiling, view, keys>>

DustTtl(s) == (IF tx.job.anchored THEN view.tip ELSE s) + Window(ceiling)

Balance(s) ==
    /\ InHand("proven")
    /\ BaseFee # 0
    /\ tx' = Tx("balancing", tx.job, tx.offer, tx.sig, tx.ttl,
                [fee |-> MergedTotal(BaseFee, DustFee(Peak(view.price))),
                 ttl |-> DustTtl(s)])
    /\ rayon' = Capped
    /\ UNCHANGED <<now, price, ceiling, view, keys, verdict>>

\* The dust intent is proven; both are sealed, then merged.
BalanceDone ==
    /\ InHand("balancing")
    /\ keys = KeyFiles
    /\ tx' = At(tx, "sealed")
    /\ verdict' = "done"
    /\ UNCHANGED <<now, price, ceiling, view, keys, rayon>>

\* A slip: the transaction that could not be paid for keeps the dust intent.
BalanceFailsKeepsDust ==
    /\ InHand("balancing")
    /\ tx' = At(tx, "proven")
    /\ verdict' = "error"
    /\ UNCHANGED <<now, price, ceiling, view, keys, rayon>>

\* No coin pays the fee, or proving fails: the caller still has the proven one.
BalanceFails ==
    /\ InHand("balancing")
    /\ tx' = Tx("proven", tx.job, tx.offer, tx.sig, tx.ttl, None)
    /\ verdict' = "error"
    /\ UNCHANGED <<now, price, ceiling, view, keys, rayon>>

\* seal_proven_transaction, for a caller that pays no fee this way.
Seal ==
    /\ InHand("proven")
    /\ tx' = At(tx, "sealed")
    /\ verdict' = "done"
    /\ UNCHANGED <<now, price, ceiling, view, keys, rayon>>

\* The caller gives the call up.
GiveUp ==
    /\ tx # None /\ tx.stage # "balancing"
    /\ tx' = None
    /\ UNCHANGED <<now, price, ceiling, view, keys, rayon, verdict>>

Next ==
    \/ Tick \/ Submit
    \/ Load \/ UseLedger \/ \E f \in KeyFiles : Download(f)
    \/ \E lead \in 0 .. MaxSkew : Fetch(lead)
    \/ \E job \in Jobs : Assemble(job)
    \/ AssembleFails
    \/ Prove \/ ProveFails
    \/ SignProvenOffer \/ SignFails
    \/ BalanceFree
    \/ \E s \in 0 .. now : Balance(s)
    \/ BalanceDone \/ BalanceFails
    \/ Seal \/ GiveUp

Spec == Init /\ [][Next]_vars

-----------------------------------------------------------------------------
\* Properties.

\* Every variable keeps its type, and only a balanced transaction has dust.
TypeOK ==
    /\ now \in Nat
    /\ price \in 0 .. MaxPrice
    /\ ceiling \in Ceilings
    /\ view \in Views \cup {None}
    /\ tx \in Txs \cup {None}
    /\ tx # None => view # None
    /\ tx # None /\ tx.stage \in {"unproven", "proven"} => tx.dust = None
    /\ keys \subseteq KeyFiles
    /\ rayon \in {"unloaded", "unused", "capped", "full"}
    /\ verdict \in {"none", "done", "error", "accepted", "refused"}

\* However the caller orders its calls, a signature that the library has put
\* on a transaction covers what the node will check it against: no later
\* operation changes what was signed, in particular not the proof, which
\* replaces the preimage the signature would have covered (error 175).
SignatureStaysValid ==
    tx # None /\ tx.sig # None => tx.sig = DataToSign(tx)

\* What the window leaves for a clock that is ahead of the chain's.
Slack == IF ceiling > Margin THEN Margin ELSE ceiling \div 2

\* The call asks for what the library supports: it names a TTL and the tip,
\* moves value one way at most, and supplies no offer but that way's, of the
\* right amount.
Proper(job) ==
    /\ job.sized /\ job.anchored /\ job.exact
    /\ job.moves # {"in", "out"}
    /\ "funding" \in job.offers => "in" \in job.moves
    /\ "withdrawal" \in job.offers => "out" \in job.moves

\* The chain is where the window and the fee margin provide for.
Timely ==
    /\ view.lead <= Slack
    /\ now <= view.tip + Window(ceiling)
    /\ price <= view.price + FeeBlocks

\* A proper call that reaches the node in time, its offer signed and balanced
\* where a fee is charged, is accepted, whatever global_ttl the network has
\* and however the price has risen: its TTLs are neither past nor beyond the
\* ceiling, the fee covers the merged transaction, and what the circuit moves
\* has its offer.
TimelyCallAccepted ==
    /\ InHand("sealed")
    /\ Proper(tx.job)
    /\ Timely
    /\ tx.offer.spends => tx.sig # None
    /\ tx.dust = None => view.price = 0
    => Accepts(tx)

\* On a device with more than one core, proving never takes every one of them,
\* whichever part of the library uses the pool first: it is capped before any
\* of them can run.
LeavesACore == rayon # "full"
=============================================================================
