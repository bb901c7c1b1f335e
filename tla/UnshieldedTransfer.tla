------------------------- MODULE UnshieldedTransfer -------------------------
(***************************************************************************)
(* Signing and serializing an unshielded transfer (serialize.rs and        *)
(* transaction_ffi.rs).                                                    *)
(*                                                                         *)
(* The library keeps nothing between calls.  The caller asks for the       *)
(* signing message once per input, has each signed by the input's owner,   *)
(* and hands inputs, outputs, signatures, TTL and binding randomness over  *)
(* for serialization, with or without a dust spend that pays the fee.  It  *)
(* may name the inputs in another order at every call, start over, and     *)
(* serialize again.  What the node checks is modelled as the code's        *)
(* comments give it.                                                       *)
(*                                                                         *)
(* A UTXO is a number, and the ledger's order of UTXOs the order of        *)
(* numbers.  Outputs are sorted and signed as the inputs are: they stand   *)
(* for themselves in no property and are left out, like the proof          *)
(* server's key material and the network.                                  *)
(***************************************************************************)
EXTENDS Naturals, Sequences, FiniteSets, Functions

CONSTANTS
    Utxos,     \* the wallet's UTXOs
    Owner,     \* the key that owns each
    Ttls,      \* times to live a caller may ask for, in milliseconds
    Second,    \* milliseconds in a second
    Segments,  \* segments the dust intent may be given (bound)
    MaxRandom, \* bound on random values drawn
    NoSig,     \* no signature yet
    NoTx       \* no transaction yet

ASSUME TransferAssumption ==
    /\ Utxos \subseteq Nat /\ IsFiniteSet(Utxos)
    /\ Ttls \subseteq Nat
    /\ Second \in Nat \ {0}
    /\ Segments \subseteq Nat \ {0, 1}
    /\ MaxRandom \in Nat

VARIABLES
    want,    \* the UTXOs of the transfer, {} for none
    ttl,     \* its TTL
    random,  \* the randomness the caller got with the first message, or 0
    drawn,   \* how many random values have been drawn; a value is its number
    msg,     \* the message to be signed next, with the UTXO it is for
    sigs,    \* the signature got for each UTXO of the transfer
    sent     \* the transaction last serialized from it

vars == <<want, ttl, random, drawn, msg, sigs, sent>>

NoMsg == <<>>

(* The orders in which the caller may name the inputs.                     *)
Listings == {list \in [1..Cardinality(want) -> want] : Range(list) = want}

-----------------------------------------------------------------------------
(* What is built.                                                          *)

BaseSegment == 1

(* The members of S in ascending order.                                    *)
Ascending(q) == \A i, j \in DOMAIN q : i < j => q[i] < q[j]

Sorted(S) == CHOOSE q \in [1..Cardinality(S) -> S] : Range(q) = S /\ Ascending(q)

(* An intent with an offer, without its signatures and proofs.             *)
Offer(list) == Sorted(Range(list))

Intent(list, t, r) ==
    [inputs |-> Offer(list), ttl |-> t \div Second, binding |-> r, dust |-> FALSE]

(* The intent that pays the fee spends no UTXO and binds nothing.          *)
DustIntent(t) ==
    [inputs |-> <<>>, ttl |-> t \div Second, binding |-> 0, dust |-> TRUE]

DataToSign(segment, intent) == <<segment, intent>>

(* sign_data with the key of create_signing_key, and verify_signature with *)
(* that of get_verifying_key.                                              *)
Sign(key, data) == [key |-> key, data |-> data]

Verifies(key, data, signature) == signature = Sign(key, data)

(* A transaction maps segments to intents and their signatures.  ordered   *)
(* records how the caller listed the inputs; it is not in the bytes.       *)
Base(list, t, r, ss) ==
    [intents |-> [seg \in {BaseSegment} |-> Intent(list, t, r)],
     signatures |-> [seg \in {BaseSegment} |-> ss],
     ordered |-> list = Offer(list)]

(* Transaction::merge, which refuses two intents in one segment.           *)
Mergeable(tx, seg) == seg \notin DOMAIN tx.intents

(* A slip, part of no specification: the dust actions go into the intent   *)
(* that has been signed.                                                   *)
WithDustInBase(tx, seg, t) ==
    [tx EXCEPT !.intents[BaseSegment] = [@ EXCEPT !.dust = TRUE]]

WithDust(tx, seg, t) ==
    LET segs == DOMAIN tx.intents \cup {seg}
    IN  [intents |-> [s \in segs |-> IF s = seg THEN DustIntent(t) ELSE tx.intents[s]],
         signatures |-> [s \in segs |-> IF s = seg THEN <<>> ELSE tx.signatures[s]],
         ordered |-> tx.ordered]

(* The node: inputs sorted and spent once, one signature per input, each   *)
(* by its owner and over the data of the intent it stands in.              *)
WellFormed(tx) ==
    \A seg \in DOMAIN tx.intents :
        LET intent == tx.intents[seg]
            ss == tx.signatures[seg]
            ins == intent.inputs
        IN  /\ Ascending(ins)
            /\ Len(ss) = Len(ins)
            /\ \A i \in 1..Len(ins) : Verifies(Owner[ins[i]], DataToSign(seg, intent), ss[i])

Init ==
    /\ want = {} /\ ttl = 0 /\ random = 0 /\ drawn = 0
    /\ msg = NoMsg /\ sigs = <<>> /\ sent = NoTx

-----------------------------------------------------------------------------
(* Slips, part of no specification.                                        *)

(* The value drawn is not given back to the caller's count of them.        *)
GetMessageUncounted(list, i, fresh) ==
    /\ i \in 1..Len(list)
    /\ LET r == IF random = 0 THEN fresh ELSE random
       IN  /\ random' = r
           /\ msg' = <<list[i], DataToSign(BaseSegment, Intent(list, ttl, r))>>
    /\ UNCHANGED <<want, ttl, drawn, sigs, sent>>

(* The randomness is not read back: it comes out as another.               *)
GetMessageRedraws(list, i, fresh) ==
    /\ i \in 1..Len(list)
    /\ random' = fresh
    /\ msg' = <<list[i], DataToSign(BaseSegment, Intent(list, ttl, fresh))>>
    /\ drawn' = fresh
    /\ UNCHANGED <<want, ttl, sigs, sent>>

-----------------------------------------------------------------------------
(* Calls.                                                                  *)

Begin(S, t) ==
    /\ want = {} /\ S # {}
    /\ want' = S
    /\ ttl' = t
    /\ sigs' = [u \in S |-> NoSig]
    /\ UNCHANGED <<random, drawn, msg, sent>>

(* get_signing_message_for_input.  Without randomness it draws a value     *)
(* and gives it out with the message.                                      *)
GetMessage(list, i, fresh) ==
    /\ i \in 1..Len(list)
    /\ LET r == IF random = 0 THEN fresh ELSE random
       IN  /\ random' = r
           /\ msg' = <<list[i], DataToSign(BaseSegment, Intent(list, ttl, r))>>
    /\ drawn' = IF random = 0 THEN fresh ELSE drawn
    /\ UNCHANGED <<want, ttl, sigs, sent>>

AskMessage ==
    /\ want # {} /\ msg = NoMsg
    /\ random = 0 => drawn < MaxRandom
    /\ \E list \in Listings : \E i \in 1..Len(list) :
        /\ sigs[list[i]] = NoSig
        /\ GetMessage(list, i, drawn + 1)

(* sign_data, with the key of the owner of the input asked about.          *)
SignMessage ==
    /\ msg # NoMsg
    /\ sigs' = [sigs EXCEPT ![msg[1]] = Sign(Owner[msg[1]], msg[2])]
    /\ msg' = NoMsg
    /\ UNCHANGED <<want, ttl, random, drawn, sent>>

AllSigned == want # {} /\ \A u \in want : sigs[u] # NoSig

SignaturesOf(list) == [i \in 1..Len(list) |-> sigs[list[i]]]

(* serialize_unshielded_transaction: no fee.                               *)
Serialize ==
    /\ AllSigned
    /\ \E list \in Listings :
        sent' = Base(list, ttl, random, SignaturesOf(list))
    /\ UNCHANGED <<want, ttl, random, drawn, msg, sigs>>

(* serialize_unshielded_transaction_with_dust; without a coin that can pay *)
(* it changes nothing (DustWallet has the coins).                          *)
SerializeWithDust(seg) ==
    /\ AllSigned
    /\ \E list \in Listings :
        LET tx == Base(list, ttl, random, SignaturesOf(list))
        IN  /\ Mergeable(tx, seg)
            /\ sent' = WithDust(tx, seg, ttl)
    /\ UNCHANGED <<want, ttl, random, drawn, msg, sigs>>

(* The caller starts over, at any point.                                   *)
StartOver ==
    /\ want # {}
    /\ want' = {} /\ ttl' = 0 /\ random' = 0 /\ msg' = NoMsg /\ sigs' = <<>>
    /\ sent' = NoTx
    /\ UNCHANGED drawn

Next ==
    \/ \E S \in SUBSET Utxos, t \in Ttls : Begin(S, t)
    \/ AskMessage
    \/ SignMessage
    \/ Serialize
    \/ \E seg \in Segments : SerializeWithDust(seg)
    \/ StartOver

Spec == Init /\ [][Next]_vars

-----------------------------------------------------------------------------
(* Properties.                                                             *)

(* Types, and that the randomness of a transfer is one that was drawn and  *)
(* what is signed belongs to it.                                           *)
TypeOK ==
    /\ want \subseteq Utxos
    /\ ttl \in Nat /\ random \in Nat /\ drawn \in Nat
    /\ random <= drawn
    /\ DOMAIN sigs = want
    /\ msg # NoMsg => msg[1] \in want

(* The signatures collected for a transfer are all over the same data,     *)
(* however the caller orders its inputs and its calls ("every input must   *)
(* sign the SAME binding").                                                *)
SignaturesAgree ==
    \A u \in want, v \in want :
        sigs[u] # NoSig /\ sigs[v] # NoSig => sigs[u].data = sigs[v].data

OneOwner(tx) ==
    \A i, j \in DOMAIN tx.intents[BaseSegment].inputs :
        Owner[tx.intents[BaseSegment].inputs[i]] = Owner[tx.intents[BaseSegment].inputs[j]]

(* A serialized transfer passes the node's checks, with and without a fee, *)
(* if its inputs have one owner or were listed in the ledger's order.      *)
SerializedVerifies ==
    sent # NoTx => (OneOwner(sent) \/ sent.ordered => WellFormed(sent))

(* The same of inputs of several owners listed in any order: sorting moves *)
(* the inputs and leaves the signatures where they are.                    *)
OwnersMaySign == sent # NoTx => WellFormed(sent)
=============================================================================
