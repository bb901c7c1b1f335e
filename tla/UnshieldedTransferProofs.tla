---------------------- MODULE UnshieldedTransferProofs ----------------------
(***************************************************************************)
(* For any number of UTXOs and owners, any order in which the caller names *)
(* the inputs and any segment of the dust intent: the signatures of a      *)
(* transfer are over one and the same data, and what is serialized from    *)
(* them verifies.                                                          *)
(***************************************************************************)
EXTENDS UnshieldedTransfer, FiniteSetTheorems, SequenceTheorems, TLAPS

-----------------------------------------------------------------------------
(* The ledger's order.                                                     *)

LEMMA SubsetsAreFinite ==
  ASSUME NEW S \in SUBSET Utxos
  PROVE  IsFiniteSet(S) /\ Cardinality(S) \in Nat
  BY FS_Subset, FS_CardinalityType, TransferAssumption

(* A set of UTXOs has a last one: take a smallest set without; less a      *)
(* member it has one, and either that or the member is last in all of it.  *)
LEMMA HasLast ==
  ASSUME NEW S \in SUBSET Utxos, S # {}
  PROVE  \E x \in S : \A y \in S : y <= x
<1> DEFINE Endless == {T \in SUBSET Utxos : T # {} /\ ~ \E x \in T : \A y \in T : y <= x}
<1>1. IsWellFoundedOn(StrictSubsetOrdering(Utxos), SUBSET Utxos)
  BY FS_StrictSubsetOrderingWellFounded, FS_FiniteSubsetsOfFinite, TransferAssumption
<1>2. SUFFICES ASSUME Endless # {} PROVE FALSE
  OBVIOUS
<1>3. Endless \subseteq SUBSET Utxos
  OBVIOUS
<1> HIDE DEF Endless
<1>4. PICK T \in Endless : \A U \in Endless : <<U, T>> \notin StrictSubsetOrdering(Utxos)
  BY <1>1, <1>2, <1>3, WFMin
<1>5. T \in SUBSET Utxos /\ T # {} /\ ~ \E x \in T : \A y \in T : y <= x
  BY DEF Endless
<1>6. PICK x \in T : TRUE
  BY <1>5
<1> DEFINE U == T \ {x}
<1>7. U \in SUBSET Utxos /\ <<U, T>> \in StrictSubsetOrdering(Utxos)
  BY <1>5, <1>6 DEF StrictSubsetOrdering
<1>8. U = {} \/ \E z \in U : \A y \in U : y <= z
  BY <1>4, <1>7 DEF Endless
<1>9. T \subseteq Nat
  BY <1>5, TransferAssumption
<1>10. CASE U = {}
  BY <1>5, <1>6, <1>9, <1>10
<1>11. CASE \E z \in U : \A y \in U : y <= z
  <2>1. PICK z \in U : \A y \in U : y <= z
    BY <1>11
  <2>2. CASE x <= z
    BY <1>5, <1>6, <2>1, <2>2
  <2>3. CASE z <= x
    <3>1. \A y \in T : y <= x
      BY <1>6, <1>9, <2>1, <2>3
    <3> QED BY <1>5, <1>6, <3>1
  <2> QED BY <1>6, <1>9, <2>1, <2>2, <2>3
<1> QED BY <1>8, <1>10, <1>11

Sorts(q, S) == q \in [1..Cardinality(S) -> S] /\ Range(q) = S /\ Ascending(q)

(* A list in order with a later UTXO at its end is in order.               *)
LEMMA SortedGrows ==
  ASSUME NEW S \in SUBSET Utxos, NEW x \in S, \A y \in S : y <= x,
         NEW q, Sorts(q, S \ {x})
  PROVE  \E r : Sorts(r, S)
<1> DEFINE n == Cardinality(S)
<1> DEFINE r == [i \in 1..n |-> IF i = n THEN x ELSE q[i]]
<1>1. n \in Nat /\ n >= 1 /\ Cardinality(S \ {x}) = n - 1
  BY SubsetsAreFinite, FS_RemoveElement, FS_EmptySet
<1>2. q \in [1..(n - 1) -> S \ {x}] /\ Range(q) = S \ {x} /\ Ascending(q)
  BY <1>1 DEF Sorts
<1> HIDE DEF n
<1>3. r \in [1..n -> S]
  BY <1>1, <1>2
<1>4. Range(r) = S
  <2>1. \A y \in S \ {x} : \E i \in 1..(n - 1) : q[i] = y
    BY <1>2 DEF Range
  <2>2. \A y \in S : \E i \in 1..n : r[i] = y
    BY <1>1, <2>1
  <2> QED BY <1>3, <2>2 DEF Range
<1>5. Ascending(r)
  <2> SUFFICES ASSUME NEW i \in 1..n, NEW j \in 1..n, i < j PROVE r[i] < r[j]
    BY DEF Ascending
  <2>1. i \in 1..(n - 1) /\ r[i] = q[i] /\ q[i] \in S /\ q[i] # x
    BY <1>1, <1>2
  <2>2. CASE j = n
    <3>1. q[i] <= x /\ q[i] \in Nat /\ x \in Nat /\ r[j] = x
      BY <2>1, <2>2, TransferAssumption
    <3> QED BY <2>1, <3>1
  <2>3. CASE j # n
    BY <1>1, <1>2, <2>1, <2>3 DEF Ascending
  <2> QED BY <2>2, <2>3
<1> QED BY <1>3, <1>4, <1>5 DEF Sorts, n

(* Every set of UTXOs can be put in order.                                 *)
LEMMA SortedExists ==
  ASSUME NEW S \in SUBSET Utxos
  PROVE  \E q : Sorts(q, S)
<1> DEFINE Unsorted == {T \in SUBSET Utxos : ~ \E q : Sorts(q, T)}
<1>1. IsWellFoundedOn(StrictSubsetOrdering(Utxos), SUBSET Utxos)
  BY FS_StrictSubsetOrderingWellFounded, FS_FiniteSubsetsOfFinite, TransferAssumption
<1>2. SUFFICES ASSUME Unsorted # {} PROVE FALSE
  OBVIOUS
<1>3. Unsorted \subseteq SUBSET Utxos
  OBVIOUS
<1> HIDE DEF Unsorted
<1>4. PICK T \in Unsorted : \A U \in Unsorted : <<U, T>> \notin StrictSubsetOrdering(Utxos)
  BY <1>1, <1>2, <1>3, WFMin
<1>5. T \in SUBSET Utxos /\ ~ \E q : Sorts(q, T)
  BY DEF Unsorted
<1>6. CASE T = {}
  <2> DEFINE q == [i \in 1..0 |-> 0]
  <2>1. Cardinality(T) = 0
    BY <1>6, FS_EmptySet
  <2>2. 1..0 = {}
    OBVIOUS
  <2>3. Sorts(q, T)
    BY <1>6, <2>1, <2>2 DEF Sorts, Range, Ascending
  <2> QED BY <1>5, <2>3
<1>7. CASE T # {}
  <2>1. PICK x \in T : \A y \in T : y <= x
    BY <1>5, <1>7, HasLast
  <2>2. T \ {x} \in SUBSET Utxos /\ <<T \ {x}, T>> \in StrictSubsetOrdering(Utxos)
    BY <1>5, <2>1 DEF StrictSubsetOrdering
  <2>3. PICK q : Sorts(q, T \ {x})
    BY <1>4, <2>2 DEF Unsorted
  <2> QED BY <1>5, <2>1, <2>3, SortedGrows
<1> QED BY <1>6, <1>7

LEMMA SortedSorts ==
  ASSUME NEW S \in SUBSET Utxos
  PROVE  Sorts(Sorted(S), S)
  BY SortedExists DEF Sorted, Sorts

-----------------------------------------------------------------------------
(* What is signed.                                                         *)

(* The data of a transfer of S, whatever the order of its inputs.          *)
DataOf(S, t, r) ==
    DataToSign(BaseSegment,
               [inputs |-> Sorted(S), ttl |-> t \div Second, binding |-> r, dust |-> FALSE])

(* Every signature of the transfer, and the message out for the next, is   *)
(* over its data.                                                          *)
SignInv ==
    /\ want \subseteq Utxos
    /\ ttl \in Nat /\ random \in Nat /\ drawn \in Nat
    /\ random <= drawn
    /\ DOMAIN sigs = want
    /\ msg # NoMsg => msg[1] \in want /\ random # 0 /\ msg[2] = DataOf(want, ttl, random)
    /\ \A u \in want :
        sigs[u] = NoSig \/ (random # 0 /\ sigs[u] = Sign(Owner[u], DataOf(want, ttl, random)))

LEMMA SignInit == ASSUME Init PROVE SignInv
  BY DEF Init, SignInv

LEMMA SignStep == ASSUME SignInv, [Next]_vars PROVE SignInv'
<1> USE DEF SignInv
<1>1. ASSUME NEW S \in SUBSET Utxos, NEW t \in Ttls, Begin(S, t) PROVE SignInv'
  <2>1. want = {} /\ want' = S /\ sigs' = [u \in S |-> NoSig] /\ ttl' \in Nat
    BY <1>1, TransferAssumption DEF Begin
  <2>2. msg = NoMsg /\ msg' = NoMsg
    BY <1>1, <2>1 DEF Begin
  <2> QED BY <1>1, <2>1, <2>2 DEF Begin
<1>2. ASSUME AskMessage PROVE SignInv'
  <2>1. PICK list \in Listings : \E i \in 1..Len(list) :
            sigs[list[i]] = NoSig /\ GetMessage(list, i, drawn + 1)
    BY <1>2 DEF AskMessage
  <2>2. PICK i \in 1..Len(list) : GetMessage(list, i, drawn + 1)
    BY <2>1
  <2>3. list \in [1..Cardinality(want) -> want] /\ Range(list) = want /\ list[i] \in want
    <3>1. list \in [1..Cardinality(want) -> want] /\ Range(list) = want
      BY DEF Listings
    <3>2. Cardinality(want) \in Nat
      BY SubsetsAreFinite
    <3>3. Len(list) = Cardinality(want)
      BY <3>1, <3>2
    <3> QED BY <2>2, <3>1, <3>3
  <2> DEFINE r == IF random = 0 THEN drawn + 1 ELSE random
  <2>4. random' = r /\ msg' = <<list[i], DataToSign(BaseSegment, Intent(list, ttl, r))>>
    BY <2>2 DEF GetMessage
  <2>5. DataToSign(BaseSegment, Intent(list, ttl, r)) = DataOf(want, ttl, r)
    BY <2>3 DEF Intent, Offer, DataOf
  <2>6. r \in Nat /\ r # 0 /\ random' <= drawn' /\ drawn' \in Nat
    BY <2>2, <2>4 DEF GetMessage
  <2>7. UNCHANGED <<want, ttl, sigs>>
    BY <2>2 DEF GetMessage
  <2>8. \A u \in want : sigs[u] = NoSig \/ random' = random
    BY <2>4
  <2> HIDE DEF r
  <2>9. msg'[1] = list[i] /\ msg'[2] = DataOf(want, ttl, r)
    BY <2>4, <2>5
  <2>10. \A u \in want : \/ sigs[u] = NoSig
                         \/ random' # 0 /\ sigs[u] = Sign(Owner[u], DataOf(want, ttl, random'))
    BY <2>4, <2>6, <2>8
  <2> QED BY <2>3, <2>4, <2>6, <2>7, <2>9, <2>10 DEF DataOf
<1>3. ASSUME SignMessage PROVE SignInv'
  <2>1. /\ msg[1] \in want /\ random # 0
        /\ sigs' = [sigs EXCEPT ![msg[1]] = Sign(Owner[msg[1]], DataOf(want, ttl, random))]
    BY <1>3 DEF SignMessage
  <2>2. UNCHANGED <<want, ttl, random, drawn>> /\ msg' = NoMsg
    BY <1>3 DEF SignMessage
  <2>3. DOMAIN sigs' = want
    BY <2>1
  <2>4. \A u \in want : \/ sigs'[u] = NoSig
                        \/ random # 0 /\ sigs'[u] = Sign(Owner[u], DataOf(want, ttl, random))
    <3> TAKE u \in want
    <3>1. CASE u = msg[1]
      <4>1. sigs'[u] = Sign(Owner[u], DataOf(want, ttl, random))
        BY <2>1, <3>1
      <4> QED BY <2>1, <4>1
    <3>2. CASE u # msg[1]
      <4>1. sigs'[u] = sigs[u]
        BY <2>1, <3>2
      <4> QED BY <4>1
    <3> QED BY <3>1, <3>2
  <2>5. DataOf(want, ttl, random)' = DataOf(want, ttl, random)
    BY <2>2 DEF DataOf
  <2> QED BY <2>2, <2>3, <2>4, <2>5
<1>4. ASSUME Serialize \/ (\E seg \in Segments : SerializeWithDust(seg)) \/ UNCHANGED vars
      PROVE SignInv'
  <2>1. UNCHANGED <<want, ttl, random, drawn, msg, sigs>>
    BY <1>4 DEF Serialize, SerializeWithDust, vars
  <2>2. DataOf(want, ttl, random)' = DataOf(want, ttl, random)
    BY <2>1 DEF DataOf
  <2> QED BY <2>1, <2>2
<1>5. ASSUME StartOver PROVE SignInv'
  BY <1>5 DEF StartOver
<1> QED BY <1>1, <1>2, <1>3, <1>4, <1>5 DEF Next

LEMMA SignInvariant == Spec => []SignInv
  BY SignInit, SignStep, PTL DEF Spec

(* Types, and that the randomness of a transfer is one that was drawn.     *)
THEOREM TransferTypeCorrect == Spec => []TypeOK
<1>1. SignInv => TypeOK
  BY DEF SignInv, TypeOK
<1> QED BY <1>1, SignInvariant, PTL

(* The signatures collected for a transfer are all over the same data, in  *)
(* whatever order the caller names its inputs (serialize.rs 1046).         *)
THEOREM SignaturesAreOverOneIntent == Spec => []SignaturesAgree
<1>1. SignInv => SignaturesAgree
  BY DEF SignInv, SignaturesAgree, Sign
<1> QED BY <1>1, SignInvariant, PTL

-----------------------------------------------------------------------------
(* What is serialized.                                                     *)

(* tx spends S, listed as list, with a signature of each one's owner over  *)
(* the data of the transfer; what else is in it spends and signs nothing.  *)
TransferOf(tx, S, t, r, list) ==
    /\ list \in [1..Cardinality(S) -> S] /\ Range(list) = S
    /\ BaseSegment \in DOMAIN tx.intents
    /\ tx.intents[BaseSegment] = Intent(list, t, r)
    /\ tx.signatures[BaseSegment] =
         [i \in 1..Cardinality(S) |-> Sign(Owner[list[i]], DataOf(S, t, r))]
    /\ \A seg \in DOMAIN tx.intents :
        seg # BaseSegment => tx.intents[seg].inputs = <<>> /\ tx.signatures[seg] = <<>>
    /\ tx.ordered => list = Sorted(S)

LEMMA BaseIsTransfer ==
  ASSUME SignInv, AllSigned, NEW list \in Listings
  PROVE  TransferOf(Base(list, ttl, random, SignaturesOf(list)), want, ttl, random, list)
<1> DEFINE tx == Base(list, ttl, random, SignaturesOf(list))
<1>1. list \in [1..Cardinality(want) -> want] /\ Range(list) = want
  BY DEF Listings
<1>2. Cardinality(want) \in Nat
  BY SubsetsAreFinite DEF SignInv
<1>3. Len(list) = Cardinality(want)
  BY <1>1, <1>2
<1>4. SignaturesOf(list) = [i \in 1..Cardinality(want) |->
                              Sign(Owner[list[i]], DataOf(want, ttl, random))]
  <2>1. \A i \in 1..Cardinality(want) :
          sigs[list[i]] = Sign(Owner[list[i]], DataOf(want, ttl, random))
    BY <1>1 DEF SignInv, AllSigned
  <2> QED BY <1>3, <2>1 DEF SignaturesOf
<1>5. /\ DOMAIN tx.intents = {BaseSegment}
      /\ tx.intents[BaseSegment] = Intent(list, ttl, random)
      /\ tx.signatures[BaseSegment] = SignaturesOf(list)
  BY DEF Base
<1>6. tx.ordered => list = Sorted(want)
  BY <1>1 DEF Base, Offer
<1> QED BY <1>1, <1>4, <1>5, <1>6 DEF TransferOf

LEMMA DustKeepsTransfer ==
  ASSUME NEW tx, NEW S, NEW t, NEW r, NEW list, TransferOf(tx, S, t, r, list),
         NEW seg \in Segments, NEW d
  PROVE  TransferOf(WithDust(tx, seg, d), S, t, r, list)
<1> DEFINE new == WithDust(tx, seg, d)
<1>1. seg # BaseSegment
  BY TransferAssumption DEF BaseSegment
<1>2. /\ DOMAIN new.intents = DOMAIN tx.intents \cup {seg}
      /\ new.ordered = tx.ordered
      /\ \A k \in DOMAIN tx.intents \cup {seg} :
           /\ new.intents[k] = IF k = seg THEN DustIntent(d) ELSE tx.intents[k]
           /\ new.signatures[k] = IF k = seg THEN <<>> ELSE tx.signatures[k]
  BY DEF WithDust
<1> HIDE DEF new
<1>3. DustIntent(d).inputs = <<>>
  BY DEF DustIntent
<1>4. /\ BaseSegment \in DOMAIN new.intents
      /\ new.intents[BaseSegment] = tx.intents[BaseSegment]
      /\ new.signatures[BaseSegment] = tx.signatures[BaseSegment]
  BY <1>1, <1>2 DEF TransferOf
<1>5. \A k \in DOMAIN new.intents :
        k # BaseSegment => new.intents[k].inputs = <<>> /\ new.signatures[k] = <<>>
  BY <1>2, <1>3 DEF TransferOf
<1>6. TransferOf(new, S, t, r, list)
  BY <1>2, <1>4, <1>5 DEF TransferOf
<1> QED BY <1>6 DEF new

SentInv ==
    sent # NoTx => \E S \in SUBSET Utxos, t \in Nat, r \in Nat :
                    \E list \in [1..Cardinality(S) -> S] : TransferOf(sent, S, t, r, list)

LEMMA SentStep == ASSUME SignInv, SentInv, [Next]_vars PROVE SentInv'
<1>1. ASSUME Serialize PROVE SentInv'
  <2>1. AllSigned
    BY <1>1 DEF Serialize
  <2>2. PICK list \in Listings : sent' = Base(list, ttl, random, SignaturesOf(list))
    BY <1>1 DEF Serialize
  <2>3. TransferOf(sent', want, ttl, random, list)
    BY <2>1, <2>2, BaseIsTransfer
  <2>4. /\ want \in SUBSET Utxos /\ ttl \in Nat /\ random \in Nat
        /\ list \in [1..Cardinality(want) -> want]
    BY DEF SignInv, Listings
  <2> QED BY <2>3, <2>4 DEF SentInv
<1>2. ASSUME NEW seg \in Segments, SerializeWithDust(seg) PROVE SentInv'
  <2>1. AllSigned
    BY <1>2 DEF SerializeWithDust
  <2>2. PICK list \in Listings :
          sent' = WithDust(Base(list, ttl, random, SignaturesOf(list)), seg, ttl)
    BY <1>2 DEF SerializeWithDust
  <2>3. TransferOf(sent', want, ttl, random, list)
    BY <2>1, <2>2, BaseIsTransfer, DustKeepsTransfer
  <2>4. /\ want \in SUBSET Utxos /\ ttl \in Nat /\ random \in Nat
        /\ list \in [1..Cardinality(want) -> want]
    BY DEF SignInv, Listings
  <2> QED BY <2>3, <2>4 DEF SentInv
<1>3. ASSUME StartOver PROVE SentInv'
  BY <1>3 DEF StartOver, SentInv
<1>4. ASSUME \/ \E S \in SUBSET Utxos, t \in Ttls : Begin(S, t)
             \/ AskMessage \/ SignMessage \/ UNCHANGED vars
      PROVE SentInv'
  <2>1. sent' = sent
    BY <1>4 DEF Begin, AskMessage, GetMessage, SignMessage, vars
  <2> QED BY <2>1 DEF SentInv
<1> QED BY <1>1, <1>2, <1>3, <1>4 DEF Next

(* A position of the sorted inputs holds the UTXO that was listed there or *)
(* one of the same owner.                                                  *)
LEMMA SameOwners ==
  ASSUME NEW tx, NEW S \in SUBSET Utxos, NEW t, NEW r, NEW list,
         TransferOf(tx, S, t, r, list), OneOwner(tx) \/ tx.ordered,
         NEW i \in 1..Cardinality(S)
  PROVE  Owner[Sorted(S)[i]] = Owner[list[i]]
<1>1. CASE tx.ordered
  BY <1>1 DEF TransferOf
<1>2. CASE OneOwner(tx)
  <2>1. tx.intents[BaseSegment].inputs = Sorted(S)
    BY DEF TransferOf, Intent, Offer
  <2>2. Sorted(S) \in [1..Cardinality(S) -> S] /\ Range(Sorted(S)) = S /\ list[i] \in S
    BY SortedSorts DEF Sorts, TransferOf
  <2>3. PICK j \in 1..Cardinality(S) : Sorted(S)[j] = list[i]
    BY <2>2 DEF Range
  <2> QED BY <1>2, <2>1, <2>2, <2>3 DEF OneOwner
<1> QED BY <1>1, <1>2

(* Every signature stands where an input of its owner does.                *)
InPlace(tx) ==
    \A i \in DOMAIN tx.intents[BaseSegment].inputs :
        tx.signatures[BaseSegment][i].key = Owner[tx.intents[BaseSegment].inputs[i]]

LEMMA InPlaceVerifies ==
  ASSUME NEW tx, NEW S \in SUBSET Utxos, NEW t, NEW r, NEW list, TransferOf(tx, S, t, r, list)
  PROVE  WellFormed(tx) <=> InPlace(tx)
<1> DEFINE n == Cardinality(S)
           ins == tx.intents[BaseSegment].inputs
           ss == tx.signatures[BaseSegment]
<1>1. n \in Nat
  BY SubsetsAreFinite
<1>2. Sorted(S) \in [1..n -> S] /\ Ascending(Sorted(S)) /\ Len(Sorted(S)) = n
  BY <1>1, SortedSorts DEF Sorts
<1>3. ins = Sorted(S) /\ DataToSign(BaseSegment, tx.intents[BaseSegment]) = DataOf(S, t, r)
  BY DEF TransferOf, Intent, Offer, DataOf
<1>4. ss = [i \in 1..n |-> Sign(Owner[list[i]], DataOf(S, t, r))]
  BY DEF TransferOf
<1>5. DOMAIN ins = 1..n /\ Len(ins) = n /\ Ascending(ins)
  BY <1>2, <1>3
<1> HIDE DEF n, ins
<1>6. Len(ss) = n
  BY <1>1, <1>4
<1>7. \A i \in 1..n : ss[i].key = Owner[list[i]] /\ ss[i] = Sign(ss[i].key, DataOf(S, t, r))
  BY <1>4 DEF Sign
<1> HIDE DEF ss
<1>8. \A i \in 1..n : ss[i].key = Owner[ins[i]] <=> ss[i] = Sign(Owner[ins[i]], DataOf(S, t, r))
  BY <1>7 DEF Sign
<1> DEFINE Checked(seg) ==
             /\ Ascending(tx.intents[seg].inputs)
             /\ Len(tx.signatures[seg]) = Len(tx.intents[seg].inputs)
             /\ \A i \in 1..Len(tx.intents[seg].inputs) :
                  Verifies(Owner[tx.intents[seg].inputs[i]],
                           DataToSign(seg, tx.intents[seg]), tx.signatures[seg][i])
<1>9. Checked(BaseSegment) <=> \A i \in 1..n : ss[i].key = Owner[ins[i]]
  BY <1>3, <1>5, <1>6, <1>8 DEF ins, ss, Verifies
<1>10. \A seg \in DOMAIN tx.intents : seg # BaseSegment => Checked(seg)
  <2> SUFFICES ASSUME NEW seg \in DOMAIN tx.intents, seg # BaseSegment PROVE Checked(seg)
    OBVIOUS
  <2>1. tx.intents[seg].inputs = <<>> /\ tx.signatures[seg] = <<>>
    BY DEF TransferOf
  <2> QED BY <2>1 DEF Ascending
<1>11. WellFormed(tx) <=> \A seg \in DOMAIN tx.intents : Checked(seg)
  BY DEF WellFormed
<1>12. InPlace(tx) <=> \A i \in 1..n : ss[i].key = Owner[ins[i]]
  BY <1>5 DEF InPlace, ins, ss
<1>13. BaseSegment \in DOMAIN tx.intents
  BY DEF TransferOf
<1> HIDE DEF Checked
<1> QED BY <1>9, <1>10, <1>11, <1>12, <1>13

(* The node refuses a serialized transfer for one reason only: a signature *)
(* stands where sorting has put an input of another owner.  What is sorted,*)
(* counted and signed is otherwise right, for any inputs in any order and  *)
(* with or without a fee (serialize.rs 515).                               *)
OnlyMisplacedRefused == sent # NoTx => (WellFormed(sent) <=> InPlace(sent))

LEMMA SentAlways == Spec => []SentInv
<1>1. Init => SentInv
  BY DEF Init, SentInv
<1> QED BY <1>1, SentStep, SignInvariant, PTL DEF Spec

THEOREM OnlyTheOrderCounts == Spec => []OnlyMisplacedRefused
<1>1. SentInv => OnlyMisplacedRefused
  <2> SUFFICES ASSUME SentInv, sent # NoTx PROVE WellFormed(sent) <=> InPlace(sent)
    BY DEF OnlyMisplacedRefused
  <2>1. PICK S \in SUBSET Utxos, t \in Nat, r \in Nat :
            \E list \in [1..Cardinality(S) -> S] : TransferOf(sent, S, t, r, list)
    BY DEF SentInv
  <2>2. PICK list : TransferOf(sent, S, t, r, list)
    BY <2>1
  <2> QED BY <2>2, InPlaceVerifies
<1> QED BY <1>1, SentAlways, PTL

(* A serialized transfer passes the node's checks, with and without a fee, *)
(* if its inputs have one owner or were listed in the ledger's order       *)
(* (serialize.rs 515).                                                     *)
THEOREM SerializedTransfersVerify == Spec => []SerializedVerifies
<1>1. SentInv => SerializedVerifies
  <2> SUFFICES ASSUME SentInv, sent # NoTx, OneOwner(sent) \/ sent.ordered
               PROVE  WellFormed(sent)
    BY DEF SerializedVerifies
  <2>1. PICK S \in SUBSET Utxos, t \in Nat, r \in Nat :
            \E list \in [1..Cardinality(S) -> S] : TransferOf(sent, S, t, r, list)
    BY DEF SentInv
  <2>2. PICK list : TransferOf(sent, S, t, r, list)
    BY <2>1
  <2>3. \A i \in 1..Cardinality(S) : Owner[Sorted(S)[i]] = Owner[list[i]]
    <3> SUFFICES ASSUME NEW i \in 1..Cardinality(S)
                 PROVE  Owner[Sorted(S)[i]] = Owner[list[i]]
      OBVIOUS
    <3> QED BY <2>2, SameOwners
  <2>4. /\ sent.intents[BaseSegment].inputs = Sorted(S)
        /\ sent.signatures[BaseSegment] =
             [i \in 1..Cardinality(S) |-> Sign(Owner[list[i]], DataOf(S, t, r))]
        /\ DOMAIN Sorted(S) = 1..Cardinality(S)
    BY <2>2, SortedSorts DEF TransferOf, Intent, Offer, Sorts
  <2>5. InPlace(sent)
    BY <2>3, <2>4 DEF InPlace, Sign
  <2> QED BY <2>2, <2>5, InPlaceVerifies
<1> QED BY <1>1, SentAlways, PTL
=============================================================================
