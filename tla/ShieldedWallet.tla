--------------------------- MODULE ShieldedWallet ---------------------------
(***************************************************************************)
(* Shielded transfers (zswap_ffi.rs).                                      *)
(*                                                                         *)
(* A ZswapLocalState is a value: replay and spend leave the state they are *)
(* given alone and return another, which the caller puts in its place.  A  *)
(* transfer selects coins, spends them one by one on a chain of states     *)
(* (each moves its coin to pending_spends), puts the last of these states  *)
(* in place of the wallet's, makes an offer of the inputs, may merge it    *)
(* with another, and builds a transaction.  The wallet's state is saved    *)
(* and restored, and transfers and syncs may overlap.                      *)
(*                                                                         *)
(* A nullifier stands for its coin.  Outputs carry no state; what the node *)
(* does with an offer whose values do not balance is left out.             *)
(***************************************************************************)
EXTENDS Naturals, FiniteSets, Functions

CONSTANTS
    Coins,       \* every shielded coin of the wallet, past and future (bound)
    Value,       \* its value
    Amounts,     \* what a transfer may ask for
    Transfers,   \* transfers in flight at once (bound)
    NoState,     \* no sync is running
    Serialised,  \* the caller lets one user at a time work on the state
    SaveFirst    \* and saves the state before it lets a transaction out

ASSUME WalletAssumption ==
    /\ IsFiniteSet(Coins)
    /\ Value \in [Coins -> Nat]
    /\ Amounts \subseteq Nat
    /\ Serialised \in BOOLEAN /\ SaveFirst \in BOOLEAN

VARIABLES
    height,  \* number of zswap events on the chain
    born,    \* the event that created each coin, 0 for none yet
    gone,    \* the event that spent it, 0 for none
    cur,     \* the wallet's state: events replayed, pending spends
    disk,    \* the last serialisation of it
    stage,   \* how far each transfer has come
    todo,    \* the coins it has selected and not spent
    ins,     \* the coins it has spent
    view,    \* the state it has got from its last spend
    sync     \* the state a running replay was given

chain == <<height, born, gone>>
jobs == <<stage, todo, ins, view>>
vars == <<height, born, gone, cur, disk, stage, todo, ins, view, sync>>

States == [pos : Nat, pending : SUBSET Coins]
Stages == {"idle", "spending", "offer", "out"}

Total(S) == FoldFunctionOnSet(+, 0, Value, S)

(* The coins of a state at event p; a state keeps a coin while its spend   *)
(* is pending.                                                             *)
Tracked(p) == {c \in Coins : born[c] \in 1..p /\ gone[c] \notin 1..p}

(* A slip, part of no specification: pending coins are not passed over.    *)
AvailablePending(s) == Tracked(s.pos)

Available(s) == Tracked(s.pos) \ s.pending

(* The balance the wallet shows: a pending coin counts until it is gone.   *)
Balance(s) == Total(Tracked(s.pos))

(* A spend of c is pending in the state or has been replayed by it.        *)
Reserved(s, c) == c \in s.pending \/ gone[c] \in 1..s.pos

Unborn == {c \in Coins : born[c] = 0}

NoView == [pos |-> 0, pending |-> {}]

(* Transfer x is over, and what it held is gone.                           *)
Over(x) ==
    /\ stage' = [stage EXCEPT ![x] = "idle"]
    /\ todo' = [todo EXCEPT ![x] = {}]
    /\ ins' = [ins EXCEPT ![x] = {}]
    /\ view' = [view EXCEPT ![x] = NoView]

(* Nobody works on the wallet's state.                                     *)
Unused == sync = NoState /\ \A x \in Transfers : stage[x] # "spending"

Init ==
    /\ height = 0
    /\ born = [c \in Coins |-> 0]
    /\ gone = [c \in Coins |-> 0]
    /\ cur = [pos |-> 0, pending |-> {}]
    /\ disk = cur
    /\ stage = [x \in Transfers |-> "idle"]
    /\ todo = [x \in Transfers |-> {}]
    /\ ins = [x \in Transfers |-> {}]
    /\ view = [x \in Transfers |-> NoView]
    /\ sync = NoState

-----------------------------------------------------------------------------
(* The chain.                                                              *)

Mint(c) ==
    /\ c \in Unborn
    /\ height' = height + 1
    /\ born' = [born EXCEPT ![c] = height']
    /\ UNCHANGED <<gone, cur, disk, jobs, sync>>

(* The node takes a transaction; change, if any, is a coin of the wallet.  *)
Accept(x, change) ==
    /\ stage[x] = "out"
    /\ \A c \in ins[x] : gone[c] = 0
    /\ height' = height + 1
    /\ gone' = [c \in Coins |-> IF c \in ins[x] THEN height' ELSE gone[c]]
    /\ born' = [c \in Coins |-> IF c \in change THEN height' ELSE born[c]]
    /\ Over(x)
    /\ UNCHANGED <<cur, disk, sync>>

(* The node refuses it, or it expires on the way.                          *)
Lose(x) ==
    /\ stage[x] = "out"
    /\ Over(x)
    /\ UNCHANGED <<chain, cur, disk, sync>>

-----------------------------------------------------------------------------
(* Slips, part of no specification.                                        *)

(* Selection stops only when it has more than enough.                      *)
SelectionsOver(s, a) ==
    {S \in SUBSET Available(s) :
        /\ \A c \in S, d \in Available(s) \ S : Value[c] <= Value[d]
        /\ Total(S) > a
        /\ \E m \in S : Total(S \ {m}) <= a /\ \A c \in S : Value[c] <= Value[m]}

(* A spend counts as an event of the state.                                *)
SpendAdvances(x, c) ==
    /\ stage[x] = "spending"
    /\ c \in todo[x]
    /\ c \in Tracked(view[x].pos)
    /\ view' = [view EXCEPT ![x] =
                 [pos |-> view[x].pos + 1, pending |-> view[x].pending \cup {c}]]
    /\ todo' = [todo EXCEPT ![x] = @ \ {c}]
    /\ ins' = [ins EXCEPT ![x] = @ \cup {c}]
    /\ UNCHANGED <<chain, cur, disk, stage, sync>>

(* A replay starts from a new state.                                       *)
SyncEndFromNew(p) ==
    /\ sync # NoState
    /\ p \in sync.pos..height
    /\ cur' = [pos |-> p, pending |-> {}]
    /\ sync' = NoState
    /\ UNCHANGED <<chain, disk, jobs>>

(* A restored state has no pending spends.                                 *)
CrashUnmarks ==
    /\ cur' = [pos |-> disk.pos, pending |-> {}]
    /\ stage' = [x \in Transfers |-> IF stage[x] = "out" THEN "out" ELSE "idle"]
    /\ ins' = [x \in Transfers |-> IF stage[x] = "out" THEN ins[x] ELSE {}]
    /\ todo' = [x \in Transfers |-> {}]
    /\ view' = [x \in Transfers |-> NoView]
    /\ sync' = NoState
    /\ UNCHANGED <<chain, disk>>

-----------------------------------------------------------------------------
(* Transfers.                                                              *)

(* zswap_select_coins: smallest first, until the amount is reached.  The   *)
(* first coin is taken whatever the amount; without a coin only 0 can be   *)
(* covered.                                                                *)
Selections(s, a) ==
    {S \in SUBSET Available(s) :
        /\ \A c \in S, d \in Available(s) \ S : Value[c] <= Value[d]
        /\ Total(S) >= a
        /\ \/ S = {} /\ Available(s) = {}
           \/ \E m \in S :
                /\ \A c \in S : Value[c] <= Value[m]
                /\ S = {m} \/ Total(S \ {m}) < a}

Select(x, a) ==
    /\ stage[x] = "idle"
    /\ Serialised => Unused
    /\ \E S \in Selections(cur, a) : todo' = [todo EXCEPT ![x] = S]
    /\ ins' = [ins EXCEPT ![x] = {}]
    /\ view' = [view EXCEPT ![x] = cur]
    /\ stage' = [stage EXCEPT ![x] = "spending"]
    /\ UNCHANGED <<chain, cur, disk, sync>>

(* zswap_spend_coin: the coin must be one of the state's.                  *)
Spend(x, c) ==
    /\ stage[x] = "spending"
    /\ c \in todo[x]
    /\ c \in Tracked(view[x].pos)
    /\ view' = [view EXCEPT ![x] =
                 [pos |-> view[x].pos, pending |-> view[x].pending \cup {c}]]
    /\ todo' = [todo EXCEPT ![x] = @ \ {c}]
    /\ ins' = [ins EXCEPT ![x] = @ \cup {c}]
    /\ UNCHANGED <<chain, cur, disk, stage, sync>>

(* A spend fails, or the user gives up: the states made so far are freed.  *)
Abandon(x) ==
    /\ stage[x] = "spending"
    /\ Over(x)
    /\ UNCHANGED <<chain, cur, disk, sync>>

(* The state after the last spend replaces the wallet's, and the inputs    *)
(* make an offer (zswap_build_offer, with at least the recipient's output).*)
MakeOffer(x) ==
    /\ stage[x] = "spending"
    /\ todo[x] = {}
    /\ cur' = view[x]
    /\ view' = [view EXCEPT ![x] = NoView]
    /\ stage' = [stage EXCEPT ![x] = "offer"]
    /\ UNCHANGED <<chain, disk, todo, ins, sync>>

(* zswap_merge_offers: refused if they share a coin.                       *)
MergeOffers(x, y) ==
    /\ x # y
    /\ stage[x] = "offer" /\ stage[y] = "offer"
    /\ ins[x] \cap ins[y] = {}
    /\ ins' = [ins EXCEPT ![x] = ins[x] \cup ins[y], ![y] = {}]
    /\ stage' = [stage EXCEPT ![y] = "idle"]
    /\ UNCHANGED <<chain, cur, disk, todo, view, sync>>

(* zswap_build_shielded_transaction, proving, sending.                     *)
Send(x) ==
    /\ stage[x] = "offer"
    /\ SaveFirst => \A c \in ins[x] : Reserved(disk, c)
    /\ stage' = [stage EXCEPT ![x] = "out"]
    /\ UNCHANGED <<chain, cur, disk, todo, ins, view, sync>>

(* Building or proving fails.  The coins stay pending: nothing takes a     *)
(* coin out of pending_spends but the event of its spend.                  *)
DropOffer(x) ==
    /\ stage[x] = "offer"
    /\ Over(x)
    /\ UNCHANGED <<chain, cur, disk, sync>>

-----------------------------------------------------------------------------
(* Keeping the state.                                                      *)

(* A replay, from the state it is given until the caller installs its      *)
(* answer (EventReplay has its inside).  A coin still tracked stays        *)
(* pending.                                                                *)
SyncBegin ==
    /\ sync = NoState
    /\ Serialised => Unused
    /\ sync' = cur
    /\ UNCHANGED <<chain, cur, disk, jobs>>

SyncEnd(p) ==
    /\ sync # NoState
    /\ p \in sync.pos..height
    /\ cur' = [pos |-> p, pending |-> sync.pending \cap Tracked(p)]
    /\ sync' = NoState
    /\ UNCHANGED <<chain, disk, jobs>>

(* zswap_serialize and zswap_deserialize.                                  *)
Save ==
    /\ disk # cur
    /\ disk' = cur
    /\ UNCHANGED <<chain, cur, jobs, sync>>

Crash ==
    /\ cur' = disk
    /\ stage' = [x \in Transfers |-> IF stage[x] = "out" THEN "out" ELSE "idle"]
    /\ ins' = [x \in Transfers |-> IF stage[x] = "out" THEN ins[x] ELSE {}]
    /\ todo' = [x \in Transfers |-> {}]
    /\ view' = [x \in Transfers |-> NoView]
    /\ sync' = NoState
    /\ UNCHANGED <<chain, disk>>

Next ==
    \/ \E c \in Coins : Mint(c)
    \/ \E x \in Transfers :
        \/ \E change \in {{}} \cup {{c} : c \in Unborn} : Accept(x, change)
        \/ Lose(x)
        \/ \E a \in Amounts : Select(x, a)
        \/ \E c \in Coins : Spend(x, c)
        \/ Abandon(x)
        \/ MakeOffer(x)
        \/ \E y \in Transfers : MergeOffers(x, y)
        \/ Send(x)
        \/ DropOffer(x)
    \/ SyncBegin
    \/ \E p \in 0..height : SyncEnd(p)
    \/ Save
    \/ Crash

Spec == Init /\ [][Next]_vars

-----------------------------------------------------------------------------
(* Properties.                                                             *)

(* Types, and that neither the state nor what was saved of it runs ahead   *)
(* of the chain.                                                           *)
TypeOK ==
    /\ height \in Nat
    /\ born \in [Coins -> 0..height]
    /\ gone \in [Coins -> 0..height]
    /\ cur \in States /\ cur.pos <= height
    /\ disk \in States /\ disk.pos <= height
    /\ stage \in [Transfers -> Stages]
    /\ todo \in [Transfers -> SUBSET Coins]
    /\ ins \in [Transfers -> SUBSET Coins]
    /\ view \in [Transfers -> States]
    /\ sync \in States \cup {NoState}

(* No coin is in two offers or transactions, and none that is out spends a *)
(* coin the node has seen spent: what zswap_select_coins passes over       *)
(* ("already pending spend (prevents double-spend)") is all there is.      *)
NoCoinTwice ==
    \A x \in Transfers :
        /\ stage[x] = "out" => \A c \in ins[x] : gone[c] = 0
        /\ \A y \in Transfers \ {x} :
            {stage[x], stage[y]} \subseteq {"offer", "out"} => ins[x] \cap ins[y] = {}

(* Neither a transfer nor a replay takes back what another has put into    *)
(* the wallet's state: it goes back only to what was saved.                *)
NothingLost ==
    [][\/ cur' = disk
       \/ /\ cur.pos <= cur'.pos
          /\ \A c \in cur.pending : Reserved(cur, c)' ]_vars

(* A selection is refused exactly when all that is available does not      *)
(* cover the amount: the greedy order neither stops short nor runs out     *)
(* early, and the balance shown can be spent unless a spend is pending.    *)
SelectsWhatIsThere ==
    \A a \in Amounts :
        /\ Selections(cur, a) = {} <=> Total(Available(cur)) < a
        /\ Selections(cur, a) = {} /\ a <= Balance(cur) => cur.pending # {}

(* What the node and the other wallets see of this one is that it spends a *)
(* coin once: pending_spends, serialised and saved in time, are enough.    *)
Spending == INSTANCE SpendOnce WITH
    out <- {ins[x] : x \in {y \in Transfers : stage[y] = "out"}} \ {{}},
    spent <- {c \in Coins : gone[c] > 0}

ImplementsSpendOnce == Spending!Spec
=============================================================================
