----------------------- MODULE DustRegistrationProofs -----------------------
(***************************************************************************)
(* For every number of purses, rate, ratio, fee and margin: the loop never *)
(* registers a UTXO that generates already if its caller waits before it   *)
(* filters, and a registration that has passed the gate can pay.           *)
(***************************************************************************)
EXTENDS DustRegistration, FiniteSetTheorems, TLAPS

-----------------------------------------------------------------------------
(* Ages and the dust they stand for.                                       *)

LEMMA ProductGrows ==
  ASSUME NEW a \in Nat, NEW b \in Nat, NEW k \in Nat, a <= b
  PROVE  a * k \in Nat /\ b * k \in Nat /\ a * k <= b * k
<1>1. PICK d \in Nat : b = a + d
  <2>1. b - a \in Nat /\ b = a + (b - a)
    OBVIOUS
  <2> QED BY <2>1
<1>2. b * k = a * k + d * k
  BY <1>1
<1>3. a * k \in Nat /\ d * k \in Nat
  BY <1>1
<1> QED BY <1>2, <1>3

(* An older UTXO has generated no less, and dust is a number.              *)
LEMMA GeneratedGrows ==
  ASSUME NEW n \in Purses, NEW a \in Nat, NEW b \in Nat, a <= b
  PROVE  LET Dust(x) == Lesser(x * (Value[n] * Rate), Value[n] * Ratio)
         IN  Dust(a) \in Nat /\ Dust(a) <= Dust(b)
<1>1. Value[n] \in Nat
  BY ParametersAssumption
<1> DEFINE k == Value[n] * Rate
<1> DEFINE cap == Value[n] * Ratio
<1>2. k \in Nat /\ cap \in Nat
  BY <1>1, ProductGrows, ParametersAssumption
<1> HIDE DEF k, cap
<1>3. a * k \in Nat /\ b * k \in Nat /\ a * k <= b * k
  BY <1>2, ProductGrows
<1>4. Lesser(a * k, cap) \in Nat /\ Lesser(a * k, cap) <= Lesser(b * k, cap)
  BY <1>2, <1>3 DEF Lesser
<1> QED BY <1>4 DEF k, cap

LEMMA GeneratedIsNat ==
  ASSUME TypeOK, NEW n \in Purses
  PROVE  Generated(n) \in Nat
<1>1. age[n] \in Nat
  BY ParametersAssumption DEF TypeOK
<1> QED BY <1>1, GeneratedGrows DEF Generated

-----------------------------------------------------------------------------
(* Types.                                                                  *)

(* A registration is out for NIGHT the wallet has.                         *)
PurseLives == out # None => out.purse \in live

LEMMA RegistrationInit == ASSUME Init PROVE TypeOK /\ PurseLives
<1>1. age \in [Purses -> 0 .. MaxAge]
  BY ParametersAssumption DEF Init
<1>2. moves \in 0 .. MaxMoves
  BY ParametersAssumption DEF Init
<1> QED BY <1>1, <1>2 DEF Init, TypeOK, PurseLives

LEMMA RenewedTypes ==
  ASSUME TypeOK, NEW n \in Purses, Renewed(n)
  PROVE  /\ age' \in [Purses -> 0 .. MaxAge]
         /\ seen' \subseteq seen /\ marked' \subseteq seen'
<1>1. age' \in [Purses -> 0 .. MaxAge]
  BY ParametersAssumption DEF TypeOK, Renewed
<1>2. seen' \subseteq seen /\ marked' \subseteq seen'
  BY DEF TypeOK, Renewed
<1> QED BY <1>1, <1>2

LEMMA BuildTypes ==
  ASSUME TypeOK, NEW gated \in BOOLEAN, NEW n \in Purses
  PROVE  Registration(n, gated) \in Outs
<1>1. Generated(n) \in Nat
  BY GeneratedIsNat
<1> QED BY <1>1 DEF Registration, Outs, TypeOK

LEMMA TypeStep == ASSUME TypeOK, PurseLives, [Next]_vars PROVE TypeOK' /\ PurseLives'
<1> USE DEF TypeOK, wallet
<1>1. ASSUME Tick PROVE TypeOK'
  <2>1. age' \in [Purses -> 0 .. MaxAge]
    BY <1>1, ParametersAssumption DEF Tick, Lesser
  <2>2. fee' \in 1 .. MaxFee
    BY <1>1 DEF Tick
  <2> QED BY <1>1, <2>1, <2>2 DEF Tick
<1>2. ASSUME NEW n \in Purses, Receive(n) PROVE TypeOK'
  <2>1. Renewed(n)
    BY <1>2 DEF Receive
  <2>2. generating \subseteq generating' /\ generating' \subseteq live'
    BY <1>2 DEF Receive
  <2>3. UNCHANGED <<registered, todo, out, fee, moves>> /\ live' = live \cup {n}
    BY <1>2 DEF Receive
  <2> QED BY <2>1, <2>2, <2>3, RenewedTypes
<1>3. ASSUME NEW n \in Purses, Move(n) PROVE TypeOK'
  <2>1. Renewed(n)
    BY <1>3 DEF Move
  <2>2. generating \subseteq generating' /\ generating' \subseteq live'
    BY <1>3 DEF Move
  <2>3. out' \in Outs \cup {None}
    BY <1>3 DEF Move, Outs
  <2>4. moves' \in 0 .. MaxMoves
    BY <1>3, ParametersAssumption DEF Move
  <2>5. UNCHANGED <<live, registered, todo, fee>>
    BY <1>3 DEF Move
  <2> QED BY <2>1, <2>2, <2>3, <2>4, <2>5, RenewedTypes
<1>4. ASSUME NEW n \in Purses, Mark(n) PROVE TypeOK'
  BY <1>4 DEF Mark
<1>5. ASSUME Accept PROVE TypeOK'
  <2>1. out.purse \in Purses /\ Renewed(out.purse)
    BY <1>5 DEF Accept, Outs
  <2>2. out.purse \in live
    BY <1>5 DEF Accept, PurseLives
  <2> QED BY <1>5, <2>1, <2>2, RenewedTypes DEF Accept
<1>6. ASSUME Lose \/ \E kept \in SUBSET marked : Sync(kept) PROVE TypeOK'
  <2>1. CASE Lose
    BY <2>1 DEF Lose
  <2>2. ASSUME NEW kept \in SUBSET marked, Sync(kept) PROVE TypeOK'
    BY <2>2 DEF Sync
  <2> QED BY <1>6, <2>1, <2>2
<1>7. ASSUME Filter \/ Done \/ BuildRefuses PROVE TypeOK'
  BY <1>7 DEF Filter, Done, BuildRefuses
<1>8. ASSUME NEW gated \in BOOLEAN, Build(gated) PROVE TypeOK'
  <2>1. PICK n \in Best(todo) : out' = Registration(n, gated)
    BY <1>8 DEF Build
  <2>2. out' \in Outs
    BY <1>8, <2>1, BuildTypes DEF Build, Best
  <2> QED BY <1>8, <2>2 DEF Build
<1>9. ASSUME UNCHANGED vars PROVE TypeOK'
  BY <1>9 DEF vars
<1>10. TypeOK'
  BY <1>1, <1>2, <1>3, <1>4, <1>5, <1>6, <1>7, <1>8, <1>9 DEF Next
<1>11. live \subseteq live'
  BY DEF Next, Tick, Receive, Move, Mark, Accept, Lose, Sync, Filter, Done, Build,
         BuildRefuses, vars
<1>12. PurseLives'
  <2>1. ASSUME NEW gated \in BOOLEAN, Build(gated) PROVE PurseLives'
    BY <2>1 DEF Build, Best, Registration, PurseLives
  <2>2. ASSUME NEW n \in Purses, Move(n) PROVE PurseLives'
    <3>1. CASE out # None /\ out.purse = n
      <4>1. out \in Outs /\ out' = [out EXCEPT !.dead = TRUE]
        BY <2>2, <3>1 DEF Move
      <4>2. out'.purse = out.purse
        BY <4>1 DEF Outs
      <4> QED BY <3>1, <4>2, <1>11 DEF PurseLives
    <3>2. CASE ~(out # None /\ out.purse = n)
      BY <2>2, <3>2, <1>11 DEF Move, PurseLives
    <3> QED BY <3>1, <3>2
  <2>3. ASSUME out' = out \/ out' = None PROVE PurseLives'
    BY <2>3, <1>11 DEF PurseLives
  <2>4. ASSUME \/ Tick \/ Accept \/ Lose \/ Filter \/ Done \/ BuildRefuses
               \/ \E kept \in SUBSET marked : Sync(kept)
               \/ \E n \in Purses : Receive(n) \/ Mark(n)
               \/ UNCHANGED vars
        PROVE out' = out \/ out' = None
    BY <2>4 DEF Tick, Accept, Lose, Sync, Filter, Done, BuildRefuses, Receive, Mark, vars
  <2> QED BY <2>1, <2>2, <2>3, <2>4 DEF Next
<1> QED BY <1>10, <1>12

LEMMA TypeInvariant == Spec => [](TypeOK /\ PurseLives)
<1> QED BY RegistrationInit, TypeStep, PTL DEF Spec

(* Every variable keeps its type, and the dust state lists no coin that    *)
(* does not exist.                                                         *)
THEOREM RegistrationTypeCorrect == Spec => []TypeOK
  BY TypeInvariant, PTL

-----------------------------------------------------------------------------
(* The loop registers what does not generate yet.                          *)

(* A caller that waits: nothing is out, its dust state is the chain's and  *)
(* nothing in it is marked.                                                *)
Patient == Guards = {"settled", "synced", "unmarked"}

(* While a list is in hand nothing is out and the list is right; the UTXO  *)
(* of a registration that is out does not generate.                        *)
ListInv ==
    /\ todo # None => out = None /\ todo \cap generating = {}
    /\ NeverRegistersTwice

LEMMA ListStep ==
  ASSUME Patient, TypeOK, PurseLives, ListInv, [Next]_vars
  PROVE  ListInv'
<1> USE DEF ListInv, NeverRegistersTwice
<1>1. ASSUME NEW n \in Purses, Receive(n) PROVE ListInv'
  <2>1. generating' \subseteq generating \cup {n} /\ n \notin live
    BY <1>1 DEF Receive
  <2>2. UNCHANGED <<todo, out>>
    BY <1>1 DEF Receive
  <2>3. (todo # None => n \notin todo) /\ (out # None => out.purse # n)
    BY <2>1 DEF TypeOK, PurseLives
  <2> QED BY <2>1, <2>2, <2>3
<1>2. ASSUME NEW n \in Purses, Move(n) PROVE ListInv'
  <2>1. generating' \subseteq generating \cup {n} /\ todo = None /\ todo' = None
    BY <1>2 DEF Move
  <2>2. CASE out # None /\ out.purse = n
    <3>1. out \in Outs /\ out' = [out EXCEPT !.dead = TRUE]
      BY <1>2, <2>2 DEF Move, TypeOK
    <3>2. out'.dead
      BY <3>1 DEF Outs
    <3> QED BY <2>1, <3>2
  <2>3. CASE ~(out # None /\ out.purse = n)
    BY <1>2, <2>1, <2>3 DEF Move
  <2> QED BY <2>2, <2>3
<1>3. ASSUME Filter PROVE ListInv'
  <2>1. out = None /\ seen = generating /\ marked = {}
    BY <1>3 DEF Filter, MayFilter, Patient
  <2> QED BY <1>3, <2>1 DEF Filter
<1>4. ASSUME NEW gated \in BOOLEAN, Build(gated) PROVE ListInv'
  <2>1. PICK n \in Best(todo) : out' = Registration(n, gated)
    BY <1>4 DEF Build
  <2>2. n \notin generating /\ out'.purse = n
    BY <1>4, <2>1 DEF Build, Best, Registration
  <2> QED BY <1>4, <2>2 DEF Build
<1>5. ASSUME Accept PROVE ListInv'
  BY <1>5 DEF Accept
<1>6. ASSUME Done \/ BuildRefuses \/ Lose PROVE ListInv'
  BY <1>6 DEF Done, BuildRefuses, Lose
<1>7. ASSUME \/ Tick \/ (\E kept \in SUBSET marked : Sync(kept))
             \/ (\E n \in Purses : Mark(n)) \/ UNCHANGED vars
      PROVE ListInv'
  BY <1>7 DEF Tick, Sync, Mark, vars
<1> QED BY <1>1, <1>2, <1>3, <1>4, <1>5, <1>6, <1>7 DEF Next

(* A patient caller never registers a UTXO that generates already, however *)
(* stale its dust state was and whatever was marked in it (serialize.rs    *)
(* 1346).                                                                  *)
THEOREM PatientCallersRegisterOnce ==
  ASSUME Patient
  PROVE  Spec => []NeverRegistersTwice
<1>1. Init => ListInv
  BY DEF Init, ListInv, NeverRegistersTwice
<1>2. TypeOK /\ PurseLives /\ ListInv /\ [Next]_vars => ListInv'
  BY ListStep
<1>3. ListInv => NeverRegistersTwice
  BY DEF ListInv
<1> QED BY <1>1, <1>2, <1>3, TypeInvariant, PTL DEF Spec

-----------------------------------------------------------------------------
(* The gate.                                                               *)

(* What has passed the gate allows the fee with its margin, and its UTXO   *)
(* has generated that and more.                                            *)
GateInv ==
    out # None /\ out.gated /\ ~out.dead =>
        /\ out.quoted + FeeMargin <= out.allow
        /\ out.allow <= Generated(out.purse)

LEMMA GateStep ==
  ASSUME TypeOK, PurseLives, GateInv, [Next]_vars
  PROVE  GateInv'
<1> USE DEF GateInv
<1>1. ASSUME UNCHANGED out, age' = age PROVE GateInv'
  BY <1>1 DEF Generated
<1>2. ASSUME Tick PROVE GateInv'
  <2>1. UNCHANGED out
    BY <1>2 DEF Tick
  <2>2. ASSUME out # None PROVE Generated(out.purse) \in Nat
                                /\ Generated(out.purse) <= Generated(out.purse)'
    <3>1. out.purse \in live /\ out.purse \in Purses
      BY <2>2 DEF PurseLives, TypeOK
    <3>2. age[out.purse] \in 0 .. MaxAge
      BY <3>1 DEF TypeOK
    <3>3. age'[out.purse] = Lesser(age[out.purse] + 1, MaxAge)
      BY <1>2, <3>1 DEF Tick
    <3>4. age'[out.purse] \in Nat /\ age[out.purse] <= age'[out.purse]
      BY <3>2, <3>3, ParametersAssumption DEF Lesser
    <3>5. age[out.purse] \in Nat
      BY <3>2, ParametersAssumption
    <3> QED BY <2>1, <3>1, <3>4, <3>5, GeneratedGrows DEF Generated
  <2>3. ASSUME out # None PROVE Generated(out.purse)' \in Nat
    <3>1. TypeOK' /\ out.purse \in Purses
      BY <2>3, TypeStep DEF TypeOK, PurseLives
    <3>2. age'[out.purse] \in Nat
      BY <3>1, ParametersAssumption DEF TypeOK
    <3> QED BY <2>1, <3>1, <3>2, GeneratedGrows DEF Generated
  <2>4. out # None => out.allow \in Nat
    BY DEF TypeOK, Outs
  <2> QED BY <2>1, <2>2, <2>3, <2>4
<1>3. ASSUME NEW n \in Purses, Receive(n) PROVE GateInv'
  <2>1. UNCHANGED out /\ age' = [age EXCEPT ![n] = 0] /\ n \notin live
    BY <1>3 DEF Receive, Renewed
  <2>2. out # None => out.purse # n /\ out.purse \in Purses
    BY <2>1 DEF PurseLives, TypeOK
  <2>3. out # None => age'[out.purse] = age[out.purse]
    BY <2>1, <2>2 DEF TypeOK
  <2> QED BY <2>1, <2>3 DEF Generated
<1>4. ASSUME NEW n \in Purses, Move(n) PROVE GateInv'
  <2>1. age' = [age EXCEPT ![n] = 0]
    BY <1>4 DEF Move, Renewed
  <2>2. CASE out # None /\ out.purse = n
    <3>1. out \in Outs /\ out' = [out EXCEPT !.dead = TRUE]
      BY <1>4, <2>2 DEF Move, TypeOK
    <3>2. out'.dead
      BY <3>1 DEF Outs
    <3> QED BY <3>2
  <2>3. CASE ~(out # None /\ out.purse = n)
    <3>1. UNCHANGED out
      BY <1>4, <2>3 DEF Move
    <3>2. out # None => age'[out.purse] = age[out.purse]
      BY <2>1, <2>3 DEF TypeOK, PurseLives
    <3> QED BY <3>1, <3>2 DEF Generated
  <2> QED BY <2>2, <2>3
<1>5. ASSUME NEW gated \in BOOLEAN, Build(gated) PROVE GateInv'
  <2>1. PICK n \in Best(todo) : /\ gated => Generated(n) >= Required
                                /\ out' = Registration(n, gated)
    BY <1>5 DEF Build
  <2>2. /\ out'.purse = n /\ out'.allow = Generated(n) /\ out'.quoted = fee
        /\ out'.gated => gated
    BY <2>1 DEF Registration
  <2>3. n \in Purses /\ Generated(n) \in Nat
    BY <1>5, <2>1, GeneratedIsNat DEF Build, Best, TypeOK
  <2>4. Generated(n)' = Generated(n)
    BY <1>5 DEF Build, Generated
  <2>5. fee \in Nat /\ FeeMargin \in Nat
    BY ParametersAssumption DEF TypeOK
  <2>6. Generated(out.purse)' = Generated(n)
    BY <1>5, <2>2 DEF Build, Generated
  <2> QED BY <2>1, <2>2, <2>3, <2>5, <2>6 DEF Required
<1>6. ASSUME Accept \/ Lose PROVE GateInv'
  BY <1>6 DEF Accept, Lose
<1>7. ASSUME \/ Filter \/ Done \/ BuildRefuses
             \/ \E kept \in SUBSET marked : Sync(kept)
             \/ \E n \in Purses : Mark(n)
             \/ UNCHANGED vars
      PROVE GateInv'
  <2>1. UNCHANGED <<age, out>>
    BY <1>7 DEF Sync, Filter, Done, BuildRefuses, Mark, vars
  <2> QED BY <1>1, <2>1
<1> QED BY <1>2, <1>3, <1>4, <1>5, <1>6, <1>7 DEF Next

(* A registration that has passed the gate is not refused for its fee while*)
(* the fee stays within the margin (serialize.rs 1671, error 138).         *)
THEOREM GatedRegistrationsArePaid == Spec => []MaturedIsAccepted
<1>1. Init => GateInv
  BY DEF Init, GateInv
<1>2. TypeOK /\ PurseLives /\ GateInv /\ [Next]_vars => GateInv'
  BY GateStep
<1>3. TypeOK /\ PurseLives /\ GateInv => MaturedIsAccepted
  <2> SUFFICES ASSUME TypeOK, PurseLives, GateInv, out # None, out.gated, ~out.dead,
                      fee <= out.quoted + FeeMargin
               PROVE  Accepts(out)
    BY DEF MaturedIsAccepted
  <2>1. out \in Outs /\ out.purse \in Purses /\ out.allow \in Nat /\ out.quoted \in Nat
    BY DEF TypeOK, Outs
  <2>2. Generated(out.purse) \in Nat /\ fee \in Nat /\ FeeMargin \in Nat
    BY <2>1, GeneratedIsNat, ParametersAssumption DEF TypeOK
  <2>3. out.quoted + FeeMargin <= out.allow /\ out.allow <= Generated(out.purse)
    BY DEF GateInv
  <2> QED BY <2>1, <2>2, <2>3 DEF Accepts, Lesser
<1> QED BY <1>1, <1>2, <1>3, TypeInvariant, PTL DEF Spec

-----------------------------------------------------------------------------
(* The choice.                                                             *)

(* Among the UTXOs listed there is one with the most dust to its credit.   *)
(* Take a smallest list without: less an entry it has one, and either that *)
(* or the entry is the best of the whole list.                             *)
LEMMA HasBest ==
  ASSUME TypeOK, NEW list \in SUBSET Purses, list # {}
  PROVE  Best(list) # {}
<1> DEFINE Without == {S \in SUBSET Purses : S # {} /\ Best(S) = {}}
<1>1. IsWellFoundedOn(StrictSubsetOrdering(Purses), SUBSET Purses)
  BY FS_StrictSubsetOrderingWellFounded, FS_FiniteSubsetsOfFinite, ParametersAssumption
<1>2. SUFFICES ASSUME Without # {} PROVE FALSE
  OBVIOUS
<1>3. Without \subseteq SUBSET Purses
  OBVIOUS
<1> HIDE DEF Without
<1>4. PICK S \in Without : \A U \in Without : <<U, S>> \notin StrictSubsetOrdering(Purses)
  BY <1>1, <1>2, <1>3, WFMin
<1>5. S \in SUBSET Purses /\ S # {} /\ Best(S) = {}
  BY DEF Without
<1>6. PICK x \in S : TRUE
  BY <1>5
<1> DEFINE T == S \ {x}
<1>7. T \in SUBSET Purses /\ <<T, S>> \in StrictSubsetOrdering(Purses)
  BY <1>5, <1>6 DEF StrictSubsetOrdering
<1>8. T = {} \/ Best(T) # {}
  BY <1>4, <1>7 DEF Without
<1>9. \A n \in Purses : Generated(n) \in Nat
  BY GeneratedIsNat
<1>10. CASE T = {}
  <2>1. S = {x} /\ Generated(x) <= Generated(x)
    BY <1>5, <1>6, <1>9, <1>10
  <2> QED BY <1>5, <2>1 DEF Best
<1>11. CASE T # {}
  <2>1. PICK n \in T : \A m \in T : Generated(m) <= Generated(n)
    BY <1>7, <1>8, <1>11 DEF Best
  <2>2. CASE Generated(x) <= Generated(n)
    BY <1>5, <2>1, <2>2 DEF Best
  <2>3. CASE ~(Generated(x) <= Generated(n))
    <3>1. \A m \in S : Generated(m) <= Generated(x)
      BY <1>5, <1>6, <1>9, <2>1, <2>3
    <3> QED BY <1>5, <1>6, <3>1 DEF Best
  <2> QED BY <2>2, <2>3
<1> QED BY <1>10, <1>11

(* DUST_NOT_MATURED means that no UTXO of the list could have paid, not    *)
(* only the one that was looked at (serialize.rs 1514, 1671).              *)
THEOREM RefusalMeansNoneCanPay == Spec => RefusesOnlyUnpayable
<1> DEFINE NonePays == \A n \in todo : Generated(n) < fee + FeeMargin
<1>1. TypeOK /\ [Next]_vars => [BuildRefuses => NonePays]_vars
  <2> SUFFICES ASSUME TypeOK, BuildRefuses, NEW n \in todo
               PROVE  Generated(n) < fee + FeeMargin
    OBVIOUS
  <2>1. todo \in SUBSET Purses /\ todo # {}
    BY DEF BuildRefuses, TypeOK
  <2>2. PICK b \in Best(todo) : TRUE
    BY <2>1, HasBest
  <2>3. Generated(b) < fee + FeeMargin
    BY <2>2 DEF BuildRefuses, Required
  <2>4. Generated(n) <= Generated(b) /\ b \in Purses
    BY <2>1, <2>2 DEF Best
  <2>5. Generated(n) \in Nat /\ Generated(b) \in Nat /\ fee \in Nat /\ FeeMargin \in Nat
    BY <2>1, <2>4, GeneratedIsNat, ParametersAssumption DEF TypeOK
  <2> QED BY <2>3, <2>4, <2>5
<1> QED BY <1>1, TypeInvariant, PTL DEF Spec, RefusesOnlyUnpayable
=============================================================================
