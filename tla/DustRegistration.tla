-------------------------- MODULE DustRegistration --------------------------
(***************************************************************************)
(* The loop by which a wallet makes its NIGHT generate dust (serialize.rs):*)
(* dust_filter_unregistered_night names the UTXOs that do not generate     *)
(* yet, build_dust_registration_transaction registers the one of them with *)
(* the most dust to its credit, and so on until the filter answers with    *)
(* none.                                                                   *)
(*                                                                         *)
(* A registration spends its NIGHT UTXO, puts one of the same value in its *)
(* place and pays its fee from the dust the old one would have generated:  *)
(* one that is too young cannot pay, and the builder says so instead of    *)
(* building a transaction the node refuses (error 138).                    *)
(*                                                                         *)
(* A member of Purses is an amount of NIGHT of the wallet, whichever UTXO  *)
(* holds it; its age is that UTXO's. Whether it generates is known to the  *)
(* chain; the wallet knows what its dust state lists, which lags behind and*)
(* leaves out the coins that are marked as being spent.                    *)
(***************************************************************************)
EXTENDS Naturals, FiniteSets

CONSTANTS
    Purses,      \* the wallet's NIGHT, past and future (bound)
    Value,       \* Value[n]: how much NIGHT a purse is
    Rate,        \* GENERATION_DECAY_RATE
    Ratio,       \* NIGHT_DUST_RATIO
    FeeMargin,   \* what fees_with_margin adds to the fee
    MaxFee,      \* bound on the fee of a registration
    MaxAge,      \* bound on an age: it generates no more after that
    MaxMoves,    \* bound on the transfers between registrations
    Guards,      \* what the caller waits for before it filters
    None         \* no list, no transaction

ASSUME ParametersAssumption ==
    /\ IsFiniteSet(Purses)
    /\ Value \in [Purses -> Nat]
    /\ Rate \in Nat /\ Ratio \in Nat /\ FeeMargin \in Nat
    /\ MaxFee \in Nat /\ MaxAge \in Nat /\ MaxMoves \in Nat
    /\ Guards \subseteq {"settled", "synced", "unmarked"}

VARIABLES
    live,        \* the purses there are
    age,         \* the age of each one's UTXO
    generating,  \* those that generate dust on the chain
    registered,  \* whether the night key has a registration
    seen,        \* those with a dust coin in the wallet's dust state
    marked,      \* and those whose coin there is marked as being spent
    todo,        \* what the filter has answered, or None
    out,         \* the registration that is out, or None
    fee,         \* what the node charges for one
    moves        \* how many transfers there have been

vars == <<live, age, generating, registered, seen, marked, todo, out, fee, moves>>
wallet == <<seen, marked>>

Lesser(a, b) == IF a <= b THEN a ELSE b

Outs == [purse : Purses, allow : Nat, quoted : Nat, gated : BOOLEAN, dead : BOOLEAN]

Init ==
    /\ live = {}
    /\ age = [n \in Purses |-> 0]
    /\ generating = {}
    /\ registered = FALSE
    /\ seen = {} /\ marked = {}
    /\ todo = None /\ out = None
    /\ fee \in 1 .. MaxFee
    /\ moves = 0

-----------------------------------------------------------------------------
\* The dust a UTXO would have generated (generationless_fee_availability).
Generated(n) == Lesser(age[n] * (Value[n] * Rate), Value[n] * Ratio)

\* A slip: the UTXO with the most NIGHT is taken.
BestByValue(list) == {n \in list : \A m \in list : Value[m] <= Value[n]}

\* The UTXO with the most of it; among equals the first listed.
Best(list) == {n \in list : \A m \in list : Generated(m) <= Generated(n)}

\* The intent of one registration: its UTXO in, one of the same value out, all
\* that the UTXO has generated allowed for the fee; one signature covers them.
Registration(n, gated) ==
    [purse |-> n, allow |-> Generated(n), quoted |-> fee, gated |-> gated, dead |-> FALSE]

-----------------------------------------------------------------------------
\* The chain (external).

\* Time passes, and the fee moves by a step.
Tick ==
    /\ age' = [n \in Purses |-> IF n \in live THEN Lesser(age[n] + 1, MaxAge) ELSE 0]
    /\ fee' \in {fee - 1, fee, fee + 1} \cap 1 .. MaxFee
    /\ UNCHANGED <<live, generating, registered, wallet, todo, out, moves>>

\* A slip: the mark of the old UTXO's coin stays.
RenewedKeepsMark(n) ==
    /\ age' = [age EXCEPT ![n] = 0]
    /\ seen' = seen \ {n}
    /\ UNCHANGED marked

\* n holds a new UTXO: it generates if the key is registered, and the wallet's
\* state does not know it.
Renewed(n) ==
    /\ age' = [age EXCEPT ![n] = 0]
    /\ seen' = seen \ {n}
    /\ marked' = marked \ {n}

Receive(n) ==
    /\ n \notin live
    /\ live' = live \cup {n}
    /\ Renewed(n)
    /\ generating' = IF registered THEN generating \cup {n} ELSE generating
    /\ UNCHANGED <<registered, todo, out, fee, moves>>

\* A transfer spends the UTXO and returns its change: what is out for it is
\* void. The wallet does not build one between a filter and its build.
Move(n) ==
    /\ n \in live
    /\ todo = None
    /\ moves < MaxMoves
    /\ moves' = moves + 1
    /\ Renewed(n)
    /\ generating' = IF registered THEN generating \cup {n} ELSE generating
    /\ out' = IF out # None /\ out.purse = n THEN [out EXCEPT !.dead = TRUE] ELSE out
    /\ UNCHANGED <<live, registered, todo, fee>>

\* The node lets the registration pay no more than it allows and its UTXO has
\* generated, and refuses one whose UTXO is spent.
Accepts(o) ==
    /\ ~o.dead
    /\ fee <= Lesser(o.allow, Generated(o.purse))

Accept ==
    /\ out # None
    /\ Accepts(out)
    /\ Renewed(out.purse)
    /\ generating' = generating \cup {out.purse}
    /\ registered' = TRUE
    /\ out' = None
    /\ UNCHANGED <<live, todo, fee, moves>>

\* It is refused, or never reaches the node.
Lose ==
    /\ out # None
    /\ out' = None
    /\ UNCHANGED <<live, age, generating, registered, wallet, todo, fee, moves>>

-----------------------------------------------------------------------------
\* The wallet's dust state.

\* Dust events are replayed up to the tip: every purse that generates has its
\* coin. One whose spend is among the events is followed by a new coin, and
\* the mark of one that nothing will spend lapses; the others, of balances
\* still in flight, are kept.
Sync(kept) ==
    /\ seen' = generating
    /\ marked' = kept
    /\ UNCHANGED <<live, age, generating, registered, todo, out, fee, moves>>

\* A balance spends the dust coin of n.
Mark(n) ==
    /\ n \in seen
    /\ marked' = marked \cup {n}
    /\ UNCHANGED <<live, age, generating, registered, seen, todo, out, fee, moves>>

-----------------------------------------------------------------------------
\* Slips the run must catch: each is a definition below with a mistake in it.

\* The caller filters whenever it likes.
MayFilterAnytime == todo = None

\* The gate looks at the fee without its margin.
RequiredNoMargin == fee

\* An answer that nothing has matured leaves the list as it is.
BuildRefusesStuck ==
    /\ todo \notin {None, {}}
    /\ \A n \in Best(todo) : Generated(n) < fee + FeeMargin
    /\ UNCHANGED vars

-----------------------------------------------------------------------------
\* The loop.

\* A careful caller waits until its last registration is done with and its
\* dust state has every event and no mark.
MayFilter ==
    /\ todo = None
    /\ "settled" \in Guards => out = None
    /\ "synced" \in Guards => seen = generating
    /\ "unmarked" \in Guards => marked = {}

\* dust_filter_unregistered_night. utxos() does not list a marked coin.
Filter ==
    /\ MayFilter
    /\ todo' = live \ (seen \ marked)
    /\ UNCHANGED <<live, age, generating, registered, wallet, out, fee, moves>>

\* The answer is empty: the loop is over until there is something new.
Done ==
    /\ todo = {}
    /\ todo' = None
    /\ UNCHANGED <<live, age, generating, registered, wallet, out, fee, moves>>

Required == fee + FeeMargin

\* build_dust_registration_transaction, with the ledger's parameters (gated)
\* or without: the best UTXO alone, one output, one signature over both.
Build(gated) ==
    /\ todo \notin {None, {}}
    /\ \E n \in Best(todo) :
        /\ gated => Generated(n) >= Required
        /\ out' = Registration(n, gated)
    /\ todo' = None
    /\ UNCHANGED <<live, age, generating, registered, wallet, fee, moves>>

\* DUST_NOT_MATURED: the caller waits and begins again.
BuildRefuses ==
    /\ todo \notin {None, {}}
    /\ \A n \in Best(todo) : Generated(n) < Required
    /\ todo' = None
    /\ UNCHANGED <<live, age, generating, registered, wallet, out, fee, moves>>

Next ==
    \/ Tick
    \/ \E n \in Purses : Receive(n) \/ Move(n) \/ Mark(n)
    \/ Accept \/ Lose
    \/ \E kept \in SUBSET marked : Sync(kept)
    \/ Filter \/ Done
    \/ \E gated \in BOOLEAN : Build(gated)
    \/ BuildRefuses

Spec == Init /\ [][Next]_vars

\* Time passes; the caller keeps its state synced, and a sync comes at which no
\* balance is in flight any more; it keeps its loop going, with the parameters
\* at hand, and finds the moment at which it may filter; a
\* registration that the node would accept again and again is accepted once.
FairSpec ==
    /\ Spec
    /\ WF_vars(Tick) /\ WF_vars(Sync({}))
    /\ SF_vars(Filter) /\ WF_vars(Done)
    /\ WF_vars(Build(TRUE) \/ BuildRefuses)
    /\ SF_vars(Accept) /\ WF_vars(Lose)

-----------------------------------------------------------------------------
\* Properties.

\* Every variable keeps its type, and the dust state lists no coin that does
\* not exist.
TypeOK ==
    /\ live \subseteq Purses
    /\ age \in [Purses -> 0 .. MaxAge]
    /\ generating \subseteq live
    /\ registered \in BOOLEAN
    /\ seen \subseteq generating /\ marked \subseteq seen
    /\ todo # None => todo \subseteq live
    /\ out \in Outs \cup {None}
    /\ fee \in 1 .. MaxFee
    /\ moves \in 0 .. MaxMoves

\* The loop never registers a UTXO that generates already: it would pay the
\* fee again, and what the UTXO has generated would start over. The answer of
\* the filter is right when it is used, however stale the dust state was
\* before and whatever balances have marked in it.
NeverRegistersTwice ==
    out # None /\ ~out.dead => out.purse \notin generating

\* A registration that has passed the gate is not refused for its fee while
\* the fee stays within the margin (error 138): the node, too, finds that the
\* UTXO has generated what the registration allows.
MaturedIsAccepted ==
    out # None /\ out.gated /\ ~out.dead /\ fee <= out.quoted + FeeMargin => Accepts(out)

\* DUST_NOT_MATURED means that no listed UTXO could have paid, not only the
\* one that was looked at.
RefusesOnlyUnpayable ==
    [][BuildRefuses => \A n \in todo : Generated(n) < fee + FeeMargin]_vars

\* A purse that can pay the highest fee once it is old enough.
Payable(n) == Lesser(MaxAge * (Value[n] * Rate), Value[n] * Ratio) >= MaxFee + FeeMargin

\* The loop gets there: such a purse generates in the end, although fees move,
\* registrations are lost, coins are too young at first and others never
\* mature.
LoopEnds ==
    \A n \in Purses : Payable(n) => (n \in live ~> n \in generating)
=============================================================================
