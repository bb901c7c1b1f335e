------------------------- MODULE CallPipelineProofs -------------------------
(***************************************************************************)
(* For every global_ttl, margin, window, price and fee: what a contract    *)
(* call promises when it is assembled and balanced holds when the node     *)
(* looks at it, provided it gets there in time.                            *)
(***************************************************************************)
EXTENDS CallPipeline, TLAPS

-----------------------------------------------------------------------------
(* Arithmetic.                                                             *)

(* The window is a time, and with the slack for a clock that is ahead it   *)
(* stays under the ceiling, one within the margin included.                *)
LEMMA WindowFits ==
  ASSUME NEW g \in Nat
  PROVE  /\ Window(g) \in Nat
         /\ Window(g) + (IF g > Margin THEN Margin ELSE g \div 2) <= g
  BY TimesAssumption DEF Window, Lesser

(* The overhead only adds to the sum of the fees.                          *)
LEMMA MergedTotalCovers ==
  ASSUME NEW b \in Nat, NEW d \in Nat
  PROVE  MergedTotal(b, d) \in Nat /\ b + d <= MergedTotal(b, d)
<1> DEFINE more == ((b + d) * Overhead) \div 100
<1>1. (b + d) * Overhead \in Nat
  BY TimesAssumption
<1>2. more \in Nat
  <2> DEFINE x == (b + d) * Overhead
  <2>1. x \in Nat
    BY <1>1
  <2> HIDE DEF x
  <2>2. x \div 100 \in Nat
    BY <2>1
  <2> QED BY <2>2 DEF x
<1> QED BY <1>2 DEF MergedTotal

LEMMA PeakIsPrice ==
  ASSUME NEW p \in 0 .. MaxPrice
  PROVE  Peak(p) \in Prices
  BY TimesAssumption DEF Peak, Prices

(* Fees at the peak of a price are numbers, and a call costs nothing only  *)
(* where the price is 0.                                                   *)
LEMMA PeakFees ==
  ASSUME NEW p \in 0 .. MaxPrice
  PROVE  /\ CallFee(Peak(p)) \in Nat /\ DustFee(Peak(p)) \in Nat
         /\ CallFee(Peak(p)) # 0 => p # 0
<1>1. Peak(p) \in Prices
  BY PeakIsPrice
<1> QED BY <1>1, FeesAssumption DEF Peak

(* The fee sized at one price pays for the merged transaction at every     *)
(* price up to the peak.                                                   *)
LEMMA FeeCovers ==
  ASSUME NEW p \in 0 .. MaxPrice, NEW q \in 0 .. MaxPrice, p # 0, q <= p + FeeBlocks
  PROVE  MergedFee(q) <= MergedTotal(CallFee(Peak(p)), DustFee(Peak(p)))
<1>1. Peak(p) \in Prices /\ q \in Prices /\ q <= Peak(p)
  BY TimesAssumption DEF Peak, Prices
<1>2. /\ MergedFee(q) \in Nat /\ MergedFee(Peak(p)) \in Nat
      /\ MergedFee(q) <= MergedFee(Peak(p))
      /\ MergedFee(Peak(p)) <= CallFee(Peak(p)) + DustFee(Peak(p))
  BY <1>1, FeesAssumption
<1>3. /\ MergedTotal(CallFee(Peak(p)), DustFee(Peak(p))) \in Nat
      /\ CallFee(Peak(p)) + DustFee(Peak(p))
           <= MergedTotal(CallFee(Peak(p)), DustFee(Peak(p)))
  BY PeakFees, MergedTotalCovers
<1>4. CallFee(Peak(p)) \in Nat /\ DustFee(Peak(p)) \in Nat
  BY PeakFees
<1> QED BY <1>2, <1>3, <1>4

LEMMA OfferTypes == ASSUME NEW job \in Jobs PROVE OfferOf(job) \in Offers
  BY DEF OfferOf, FundingOffer, WithdrawalOffer, NoOffer, Offers, Jobs

-----------------------------------------------------------------------------
(* The invariant.                                                          *)

(* The chain has not gone back behind what the caller fetched of it.       *)
ViewInv ==
    view # None =>
        /\ view.tip <= now + view.lead
        /\ view.price = 0 <=> price = 0

(* What the transaction promises comes from what the caller fetched.       *)
DustPromise ==
    tx.dust # None =>
        /\ view.price # 0
        /\ tx.dust.fee = MergedTotal(BaseFee, DustFee(Peak(view.price)))
        /\ tx.job.anchored => tx.dust.ttl = view.tip + Window(ceiling)

TxInv ==
    tx # None =>
        /\ Supported(tx.job)
        /\ tx.offer = OfferOf(tx.job)
        /\ tx.ttl = view.tip + (IF tx.job.sized THEN Window(ceiling) ELSE Hour)
        /\ DustPromise

CallInv == TypeOK /\ ViewInv /\ TxInv /\ SignatureStaysValid

LEMMA CallInit == ASSUME Init PROVE CallInv
  BY TimesAssumption DEF Init, CallInv, TypeOK, ViewInv, TxInv, SignatureStaysValid

(* A transaction that keeps its promises and changes its stage only.       *)
LEMMA SameButStage ==
  ASSUME CallInv, tx # None, NEW stage \in Stages, tx' = At(tx, stage),
         UNCHANGED <<view, ceiling>>, stage = "unproven" <=> tx.stage = "unproven",
         stage \in {"unproven", "proven"} => tx.dust = None
  PROVE  /\ tx' \in Txs
         /\ tx'.stage \in {"unproven", "proven"} => tx'.dust = None
         /\ TxInv' /\ SignatureStaysValid'
<1> USE DEF CallInv, TypeOK
<1>1. tx \in Txs /\ tx' = Tx(stage, tx.job, tx.offer, tx.sig, tx.ttl, tx.dust)
  BY DEF At
<1>2. tx' \in Txs /\ (tx'.stage \in {"unproven", "proven"} => tx'.dust = None)
  BY <1>1 DEF Tx, Txs
<1>3. /\ tx'.stage = stage /\ tx'.job = tx.job /\ tx'.offer = tx.offer
      /\ tx'.sig = tx.sig /\ tx'.ttl = tx.ttl /\ tx'.dust = tx.dust
  BY <1>1 DEF Tx
<1>4. TxInv'
  BY <1>3 DEF TxInv, DustPromise, BaseFee
<1>5. DataToSign(tx)' = DataToSign(tx)
  BY <1>3 DEF DataToSign
<1>6. SignatureStaysValid'
  BY <1>3, <1>5 DEF SignatureStaysValid
<1> QED BY <1>2, <1>4, <1>6

(* Steps that leave the transaction alone.                                 *)
LEMMA SameTransaction ==
  ASSUME CallInv, UNCHANGED <<view, tx, ceiling>>
  PROVE  TxInv' /\ SignatureStaysValid'
  BY DEF CallInv, TxInv, DustPromise, BaseFee, SignatureStaysValid, DataToSign

(* A dust intent whose fee and TTL are sized to what was fetched.          *)
LEMMA BalanceKeepsPromises ==
  ASSUME CallInv, NEW s \in 0 .. now, Balance(s)
  PROVE  CallInv'
<1> USE DEF CallInv, TypeOK
<1>1. tx \in Txs /\ view \in Views /\ ceiling \in Nat /\ now \in Nat
  BY TimesAssumption DEF Balance, InHand
<1>2. view.tip \in Nat /\ view.price \in 0 .. MaxPrice
  BY <1>1 DEF Views
<1> DEFINE fee == MergedTotal(BaseFee, DustFee(Peak(view.price)))
<1>3. fee \in Nat /\ view.price # 0
  BY <1>2, PeakFees, MergedTotalCovers DEF Balance, BaseFee
<1>4. DustTtl(s) \in Nat
  BY <1>1, <1>2, WindowFits DEF DustTtl
<1> DEFINE d == [fee |-> fee, ttl |-> DustTtl(s)]
<1>5. d \in Dusts /\ d.fee = fee /\ d.ttl = DustTtl(s)
  BY <1>3, <1>4 DEF Dusts
<1>6. tx' = Tx("balancing", tx.job, tx.offer, tx.sig, tx.ttl, d)
  BY DEF Balance
<1> HIDE DEF d
<1>7. tx' \in Txs /\ tx'.stage = "balancing"
  BY <1>1, <1>5, <1>6 DEF Tx, Txs, Stages
<1>8. /\ tx'.job = tx.job /\ tx'.offer = tx.offer /\ tx'.sig = tx.sig
      /\ tx'.ttl = tx.ttl /\ tx'.dust = d
  BY <1>6 DEF Tx
<1>9. TypeOK'
  BY <1>7 DEF Balance, InHand, Capped
<1>10. ViewInv'
  BY DEF Balance, ViewInv
<1>11. TxInv'
  <2>1. tx.job.anchored => d.ttl = view.tip + Window(ceiling)
    BY <1>5 DEF DustTtl
  <2> QED BY <1>3, <1>5, <1>8, <2>1 DEF Balance, InHand, TxInv, DustPromise, BaseFee
<1>12. SignatureStaysValid'
  BY <1>7, <1>8 DEF Balance, InHand, SignatureStaysValid, DataToSign
<1> QED BY <1>9, <1>10, <1>11, <1>12

LEMMA AssembleMakesPromises ==
  ASSUME CallInv, NEW job \in Jobs, Assemble(job)
  PROVE  CallInv'
<1> USE DEF CallInv, TypeOK
<1>1. view \in Views /\ view.tip \in Nat /\ ceiling \in Nat
  BY TimesAssumption DEF Assemble, Views
<1> DEFINE t == view.tip + (IF job.sized THEN Window(ceiling) ELSE Hour)
<1>2. t \in Nat
  BY <1>1, WindowFits, TimesAssumption
<1>3. tx' = Tx("unproven", job, OfferOf(job), None, t, None)
  BY DEF Assemble
<1>4. /\ tx' \in Txs /\ tx'.stage = "unproven" /\ tx'.job = job /\ tx'.dust = None
      /\ tx'.offer = OfferOf(job) /\ tx'.sig = None /\ tx'.ttl = t
  BY <1>2, <1>3, OfferTypes DEF Tx, Txs, Stages
<1>5. TypeOK'
  BY <1>4 DEF Assemble
<1>6. ViewInv'
  BY DEF Assemble, ViewInv
<1>7. TxInv'
  BY <1>4 DEF Assemble, TxInv, DustPromise
<1>8. SignatureStaysValid'
  BY <1>4 DEF SignatureStaysValid
<1> QED BY <1>5, <1>6, <1>7, <1>8

LEMMA SigningCovers ==
  ASSUME CallInv, SignProvenOffer
  PROVE  CallInv'
<1> USE DEF CallInv, TypeOK
<1>1. tx \in Txs /\ tx.stage = "proven"
  BY DEF SignProvenOffer, MaySign, InHand
<1> DEFINE sig == IF tx.offer.spends THEN DataToSign(tx) ELSE None
<1>2. DataToSign(tx) \in SignedData
  BY <1>1 DEF DataToSign, SignedData, Txs
<1>3. tx' = Tx(tx.stage, tx.job, tx.offer, sig, tx.ttl, tx.dust)
  BY DEF SignProvenOffer
<1>4. tx' \in Txs
  BY <1>1, <1>2, <1>3 DEF Tx, Txs
<1>5. /\ tx'.stage = tx.stage /\ tx'.job = tx.job /\ tx'.offer = tx.offer
      /\ tx'.sig = sig /\ tx'.ttl = tx.ttl /\ tx'.dust = tx.dust
  BY <1>3 DEF Tx
<1>6. TypeOK'
  BY <1>1, <1>4, <1>5 DEF SignProvenOffer, MaySign, InHand
<1>7. ViewInv'
  BY DEF SignProvenOffer, ViewInv
<1>8. TxInv'
  BY <1>1, <1>5 DEF SignProvenOffer, MaySign, InHand, TxInv, DustPromise, BaseFee
<1>9. SignatureStaysValid'
  <2>1. DataToSign(tx)' = DataToSign(tx)
    BY <1>5 DEF DataToSign
  <2> QED BY <1>5, <2>1 DEF SignatureStaysValid
<1> QED BY <1>6, <1>7, <1>8, <1>9

(* An unproven transaction has no signature that proving could void.       *)
Unsigned == tx # None /\ tx.stage = "unproven" => tx.sig = None

LEMMA ProvingKeeps ==
  ASSUME CallInv, Unsigned, Prove
  PROVE  CallInv'
<1> USE DEF CallInv, TypeOK
<1>1. tx # None /\ tx \in Txs /\ tx.stage = "unproven" /\ tx.sig = None /\ tx.dust = None
  BY DEF Prove, InHand, Unsigned
<1>2. tx' = Tx("proven", tx.job, tx.offer, None, tx.ttl, None)
  BY <1>1 DEF Prove, At
<1>3. /\ tx' \in Txs /\ tx'.stage = "proven" /\ tx'.job = tx.job
      /\ tx'.offer = tx.offer /\ tx'.sig = None /\ tx'.ttl = tx.ttl /\ tx'.dust = None
  BY <1>1, <1>2 DEF Tx, Txs, Stages
<1>4. TypeOK'
  BY <1>1, <1>3 DEF Prove, Capped
<1>5. ViewInv'
  BY DEF Prove, ViewInv
<1>6. TxInv' /\ SignatureStaysValid'
  BY <1>1, <1>3 DEF Prove, TxInv, DustPromise, SignatureStaysValid
<1> QED BY <1>4, <1>5, <1>6

LEMMA FailureKeeps ==
  ASSUME CallInv, BalanceFails
  PROVE  CallInv'
<1> USE DEF CallInv, TypeOK
<1>1. tx # None /\ tx \in Txs /\ tx.stage = "balancing"
  BY DEF BalanceFails, InHand
<1>2. tx' = Tx("proven", tx.job, tx.offer, tx.sig, tx.ttl, None)
  BY DEF BalanceFails
<1>3. /\ tx' \in Txs /\ tx'.stage = "proven" /\ tx'.job = tx.job
      /\ tx'.offer = tx.offer /\ tx'.sig = tx.sig /\ tx'.ttl = tx.ttl /\ tx'.dust = None
  BY <1>1, <1>2 DEF Tx, Txs, Stages
<1>4. TypeOK'
  BY <1>1, <1>3 DEF BalanceFails
<1>5. ViewInv'
  BY DEF BalanceFails, ViewInv
<1>6. TxInv'
  BY <1>1, <1>3 DEF BalanceFails, TxInv, DustPromise
<1>7. SignatureStaysValid'
  BY <1>1, <1>3 DEF SignatureStaysValid, DataToSign
<1> QED BY <1>4, <1>5, <1>6, <1>7

(* Nothing that is done to a call breaks what it promises.                 *)
LEMMA CallStep ==
  ASSUME CallInv, Unsigned, [Next]_vars
  PROVE  CallInv' /\ Unsigned'
<1> USE DEF CallInv, TypeOK
<1>1. ASSUME Tick PROVE CallInv'
  <2>1. TypeOK'
    BY <1>1, TimesAssumption DEF Tick
  <2>2. ViewInv'
    BY <1>1, TimesAssumption DEF Tick, ViewInv, Views
  <2> QED BY <1>1, <2>1, <2>2, SameTransaction DEF Tick
<1>2. ASSUME Load \/ UseLedger \/ AssembleFails \/ ProveFails \/ SignFails PROVE CallInv'
  <2>1. UNCHANGED <<now, price, ceiling, view, tx, keys>>
    BY <1>2 DEF Load, UseLedger, AssembleFails, ProveFails, SignFails
  <2>2. TypeOK'
    BY <1>2, <2>1 DEF Load, UseLedger, AssembleFails, ProveFails, SignFails, Capped
  <2>3. ViewInv'
    BY <2>1 DEF ViewInv
  <2> QED BY <2>1, <2>2, <2>3, SameTransaction
<1>3. ASSUME NEW f \in KeyFiles, Download(f) PROVE CallInv'
  <2>1. TypeOK'
    BY <1>3 DEF Download
  <2>2. ViewInv'
    BY <1>3 DEF Download, ViewInv
  <2> QED BY <1>3, <2>1, <2>2, SameTransaction DEF Download
<1>4. ASSUME NEW lead \in 0 .. MaxSkew, Fetch(lead) PROVE CallInv'
  <2>1. view' \in Views /\ view'.tip = now + lead /\ view'.lead = lead /\ view'.price = price
    BY <1>4, TimesAssumption DEF Fetch, Views
  <2>2. TypeOK'
    BY <1>4, <2>1 DEF Fetch
  <2>3. ViewInv'
    BY <1>4, <2>1, TimesAssumption DEF Fetch, ViewInv
  <2>4. TxInv' /\ SignatureStaysValid'
    BY <1>4 DEF Fetch, TxInv, SignatureStaysValid
  <2> QED BY <2>2, <2>3, <2>4
<1>5. ASSUME Submit PROVE CallInv'
  BY <1>5 DEF Submit, InHand, ViewInv, TxInv, SignatureStaysValid
<1>6. ASSUME GiveUp PROVE CallInv'
  BY <1>6 DEF GiveUp, ViewInv, TxInv, SignatureStaysValid
<1>7. ASSUME BalanceFree \/ BalanceDone \/ Seal PROVE CallInv'
  <2>1. tx # None /\ tx.stage # "unproven" /\ tx' = At(tx, "sealed")
    BY <1>7 DEF BalanceFree, BalanceDone, Seal, InHand
  <2>2. UNCHANGED <<now, price, ceiling, view, keys>>
    BY <1>7 DEF BalanceFree, BalanceDone, Seal
  <2>3. tx' \in Txs /\ tx'.stage \notin {"unproven", "proven"} /\ TxInv' /\ SignatureStaysValid'
    <3>1. tx' \in Txs /\ TxInv' /\ SignatureStaysValid'
      BY <2>1, <2>2, SameButStage DEF Stages
    <3> QED BY <2>1, <3>1 DEF At, Tx
  <2>4. TypeOK'
    BY <1>7, <2>1, <2>2, <2>3 DEF BalanceFree, BalanceDone, Seal, Capped
  <2>5. ViewInv'
    BY <2>2 DEF ViewInv
  <2> QED BY <2>3, <2>4, <2>5
<1>8. ASSUME UNCHANGED vars PROVE CallInv'
  <2>1. TypeOK' /\ ViewInv'
    BY <1>8 DEF vars, ViewInv
  <2> QED BY <1>8, <2>1, SameTransaction DEF vars
<1>9. CallInv'
  BY <1>1, <1>2, <1>3, <1>4, <1>5, <1>6, <1>7, <1>8, AssembleMakesPromises,
     SigningCovers, BalanceKeepsPromises, ProvingKeeps, FailureKeeps DEF Next
<1>10. Unsigned'
  <2>1. tx' # None /\ tx'.stage = "unproven" => tx'.sig = None
    <3>1. ASSUME NEW job \in Jobs, Assemble(job) PROVE tx'.sig = None
      BY <3>1 DEF Assemble, Tx
    <3>2. ASSUME SignProvenOffer PROVE tx'.stage = "proven"
      BY <3>2 DEF SignProvenOffer, MaySign, InHand, Tx
    <3>3. ASSUME Prove \/ BalanceFree \/ BalanceDone \/ Seal
          PROVE tx'.stage # "unproven"
      BY <3>3 DEF Prove, BalanceFree, BalanceDone, Seal, At, Tx
    <3>4. ASSUME NEW s \in 0 .. now, Balance(s) PROVE tx'.stage # "unproven"
      BY <3>4 DEF Balance, Tx
    <3>5. ASSUME BalanceFails PROVE tx'.stage # "unproven"
      BY <3>5 DEF BalanceFails, Tx
    <3>6. ASSUME UNCHANGED tx \/ tx' = None
          PROVE tx' # None /\ tx'.stage = "unproven" => tx'.sig = None
      BY <3>6 DEF Unsigned
    <3>7. ASSUME \/ Tick \/ Load \/ UseLedger \/ AssembleFails \/ ProveFails \/ SignFails
                 \/ \E f \in KeyFiles : Download(f)
                 \/ \E lead \in 0 .. MaxSkew : Fetch(lead)
                 \/ Submit \/ GiveUp \/ UNCHANGED vars
          PROVE UNCHANGED tx \/ tx' = None
      BY <3>7 DEF Tick, Load, UseLedger, AssembleFails, ProveFails, SignFails, Download,
                  Fetch, Submit, GiveUp, vars
    <3> QED BY <3>1, <3>2, <3>3, <3>4, <3>5, <3>6, <3>7 DEF Next
  <2> QED BY <2>1 DEF Unsigned
<1> QED BY <1>9, <1>10

LEMMA CallInvariant == Spec => [](CallInv /\ Unsigned)
<1>1. Init => CallInv /\ Unsigned
  BY CallInit DEF Init, Unsigned
<1> QED BY <1>1, CallStep, PTL DEF Spec

-----------------------------------------------------------------------------
(* Every variable keeps its type, and only a balanced transaction has dust.*)
THEOREM CallTypeCorrect == Spec => []TypeOK
  BY CallInvariant, PTL DEF CallInv

(* A signature covers what the node will check it against, whatever is done*)
(* to the transaction afterwards (contract_ffi.rs 1083).                   *)
THEOREM SignaturesStayValid == Spec => []SignatureStaysValid
  BY CallInvariant, PTL DEF CallInv

-----------------------------------------------------------------------------
(* The thread pool is never left to size itself: it is capped when the     *)
(* library is loaded, before anything else in it can run.                  *)
CappedFirst ==
    /\ rayon \in {"unloaded", "capped"}
    /\ rayon = "unloaded" => view = None /\ tx = None

LEMMA CappedStep == ASSUME CappedFirst, [Next]_vars PROVE CappedFirst'
<1> USE DEF CappedFirst, Capped
<1>1. ASSUME Tick \/ Submit \/ GiveUp PROVE CappedFirst'
  BY <1>1 DEF Tick, Submit, GiveUp
<1>2. ASSUME Load \/ UseLedger \/ \E f \in KeyFiles : Download(f) PROVE CappedFirst'
  BY <1>2 DEF Load, UseLedger, Loaded, Download
<1>3. ASSUME \E lead \in 0 .. MaxSkew : Fetch(lead) PROVE CappedFirst'
  BY <1>3 DEF Fetch, Loaded
<1>4. ASSUME AssembleFails \/ \E job \in Jobs : Assemble(job) PROVE CappedFirst'
  BY <1>4 DEF Assemble, AssembleFails
<1>5. ASSUME Prove \/ ProveFails \/ BalanceFree \/ \E s \in 0 .. now : Balance(s)
      PROVE CappedFirst'
  BY <1>5 DEF Prove, ProveFails, BalanceFree, Balance
<1>6. ASSUME SignProvenOffer \/ SignFails \/ BalanceDone \/ BalanceFails \/ Seal
      PROVE CappedFirst'
  BY <1>6 DEF SignProvenOffer, MaySign, SignFails, BalanceDone, BalanceFails, Seal, InHand
<1>7. ASSUME UNCHANGED vars PROVE CappedFirst'
  BY <1>7 DEF vars
<1> QED BY <1>1, <1>2, <1>3, <1>4, <1>5, <1>6, <1>7 DEF Next

(* Proving never takes every core: JNI_OnLoad caps the pool first.         *)
THEOREM ProvingLeavesACore == Spec => []LeavesACore
<1>1. Init => CappedFirst
  BY DEF Init, CappedFirst
<1>2. CappedFirst => LeavesACore
  BY DEF CappedFirst, LeavesACore
<1> QED BY <1>1, <1>2, CappedStep, PTL DEF Spec

-----------------------------------------------------------------------------
(* The node's verdict.                                                     *)

(* A TTL of tip and window is neither past nor beyond the ceiling when the *)
(* call is timely, although the clock it was taken from is ahead.          *)
LEMMA TimelyIsInTime ==
  ASSUME TypeOK, ViewInv, view # None, Timely
  PROVE  InTime(view.tip + Window(ceiling))
<1>1. view \in Views /\ ceiling \in Nat /\ now \in Nat
  BY TimesAssumption DEF TypeOK
<1>2. view.tip \in Nat /\ view.lead \in Nat
  BY <1>1, TimesAssumption DEF Views
<1>3. view.tip <= now + view.lead /\ view.lead <= Slack /\ now <= view.tip + Window(ceiling)
  BY DEF ViewInv, Timely
<1>4. Window(ceiling) \in Nat /\ Window(ceiling) + Slack <= ceiling
  BY <1>1, WindowFits DEF Slack
<1>5. Slack \in Nat
  BY <1>1, TimesAssumption DEF Slack
<1> QED BY <1>1, <1>2, <1>3, <1>4, <1>5 DEF InTime

(* What the circuit moves has its offer.                                   *)
LEMMA ProperIsBalanced ==
  ASSUME NEW job \in Jobs, Supported(job), Proper(job)
  PROVE  /\ OfferOf(job).kind = "funding" <=> "in" \in job.moves
         /\ OfferOf(job).kind = "withdrawal" <=> "out" \in job.moves
         /\ OfferOf(job).exact
<1>1. job.moves \subseteq {"in", "out"} /\ job.offers \subseteq {"funding", "withdrawal"}
  BY DEF Jobs
<1> QED BY <1>1 DEF Supported, Proper, OfferOf, FundingOffer, WithdrawalOffer, NoOffer

(* A proper call that reaches the node in time, its offer signed and       *)
(* balanced where a fee is charged, is accepted, whatever the global_ttl   *)
(* and however the price has risen (balance_ffi.rs 60-83, 575-617).        *)
THEOREM TimelyCallsAreAccepted == Spec => []TimelyCallAccepted
<1>1. CallInv => TimelyCallAccepted
  <2> SUFFICES ASSUME CallInv, InHand("sealed"), Proper(tx.job), Timely,
                      tx.offer.spends => tx.sig # None,
                      tx.dust = None => view.price = 0
               PROVE  Accepts(tx)
    BY DEF TimelyCallAccepted
  <2> USE DEF CallInv
  <2>1. tx # None /\ tx \in Txs /\ view # None /\ view \in Views /\ tx.job \in Jobs
    BY DEF TypeOK, InHand, Txs
  <2>2. InTime(view.tip + Window(ceiling))
    BY <2>1, TimelyIsInTime
  <2>3. InTime(tx.ttl) /\ (tx.dust # None => InTime(tx.dust.ttl))
    BY <2>1, <2>2 DEF TxInv, DustPromise, Proper
  <2>4. view.price \in 0 .. MaxPrice /\ price \in 0 .. MaxPrice
    BY <2>1 DEF TypeOK, Views
  <2>5. Pays(tx)
    <3>1. CASE tx.dust = None
      <4>1. price = 0 /\ 0 \in Prices
        BY <2>1, <2>4, <3>1, TimesAssumption DEF ViewInv, Prices
      <4> QED BY <3>1, <4>1, FeesAssumption DEF Pays
    <3>2. CASE tx.dust # None
      <4>1. /\ view.price # 0
            /\ tx.dust.fee = MergedTotal(CallFee(Peak(view.price)), DustFee(Peak(view.price)))
        BY <2>1, <3>2 DEF TxInv, DustPromise, BaseFee
      <4>2. price <= view.price + FeeBlocks
        BY DEF Timely
      <4> QED BY <2>4, <3>2, <4>1, <4>2, FeeCovers DEF Pays
    <3> QED BY <3>1, <3>2
  <2>6. Balances(tx)
    BY <2>1, ProperIsBalanced DEF TxInv, Balances
  <2>7. tx.offer.spends => tx.sig = DataToSign(tx)
    BY <2>1 DEF SignatureStaysValid
  <2> QED BY <2>3, <2>5, <2>6, <2>7 DEF Accepts
<1> QED BY <1>1, CallInvariant, PTL
=============================================================================
