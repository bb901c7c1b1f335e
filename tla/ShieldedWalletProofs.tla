------------------------ MODULE ShieldedWalletProofs ------------------------
(***************************************************************************)
(* For any number of coins and transfers: if the caller lets one user at a *)
(* time work on the wallet's state, no sync and no transfer takes back what*)
(* another has done, and if it also saves the state before a transaction   *)
(* leaves, no coin is in two of them, whatever crashes.  What a state      *)
(* shows can be selected.                                                  *)
(***************************************************************************)
EXTENDS ShieldedWallet, FiniteSetTheorems, WellFoundedInduction, TLAPS

-----------------------------------------------------------------------------
(* The chain and the states.                                               *)

(* A state that is not ahead of the chain, its pending coins known to it.  *)
Sound(s, h, b) ==
    /\ s \in States /\ s.pos <= h
    /\ \A c \in s.pending : b[c] \in 1..s.pos

(* What has happened on the chain stays.                                   *)
ChainGrows ==
    /\ height' \in Nat /\ height <= height'
    /\ born' \in [Coins -> 0..height'] /\ gone' \in [Coins -> 0..height']
    /\ \A c \in Coins : born[c] # 0 => born'[c] = born[c]
    /\ \A c \in Coins : gone'[c] = gone[c] \/ (gone[c] = 0 /\ gone'[c] = height + 1)

ChainTypes ==
    /\ height \in Nat
    /\ born \in [Coins -> 0..height]
    /\ gone \in [Coins -> 0..height]

LEMMA ChainStep == ASSUME ChainTypes, [Next]_vars PROVE ChainGrows
<1> USE DEF ChainTypes, chain
<1>1. ASSUME NEW c \in Coins, Mint(c) PROVE ChainGrows
  <2>1. height' = height + 1 /\ born' = [born EXCEPT ![c] = height + 1] /\ gone' = gone
    BY <1>1 DEF Mint
  <2>2. born[c] = 0
    BY <1>1 DEF Mint, Unborn
  <2>3. born' \in [Coins -> 0..height'] /\ gone' \in [Coins -> 0..height']
    BY <2>1
  <2> QED BY <2>1, <2>2, <2>3 DEF ChainGrows
<1>2. ASSUME NEW x \in Transfers, NEW change \in {{}} \cup {{c} : c \in Unborn},
             Accept(x, change)
      PROVE  ChainGrows
  <2>1. /\ height' = height + 1
        /\ gone' = [c \in Coins |-> IF c \in ins[x] THEN height + 1 ELSE gone[c]]
        /\ born' = [c \in Coins |-> IF c \in change THEN height + 1 ELSE born[c]]
        /\ \A c \in ins[x] : gone[c] = 0
    BY <1>2 DEF Accept
  <2>2. \A c \in change : born[c] = 0
    BY DEF Unborn
  <2>3. born' \in [Coins -> 0..height'] /\ gone' \in [Coins -> 0..height']
    BY <2>1
  <2> QED BY <2>1, <2>2, <2>3 DEF ChainGrows
<1>3. ASSUME UNCHANGED chain PROVE ChainGrows
  BY <1>3 DEF ChainGrows
<1>4. ASSUME \E x \in Transfers :
               \/ Lose(x) \/ Abandon(x) \/ MakeOffer(x) \/ Send(x) \/ DropOffer(x)
               \/ \E a \in Amounts : Select(x, a)
               \/ \E c \in Coins : Spend(x, c)
               \/ \E y \in Transfers : MergeOffers(x, y)
      PROVE  UNCHANGED chain
  BY <1>4 DEF Lose, Abandon, MakeOffer, Send, DropOffer, Select, Spend, MergeOffers
<1>5. ASSUME SyncBegin \/ (\E p \in 0..height : SyncEnd(p)) \/ Save \/ Crash \/ UNCHANGED vars
      PROVE  UNCHANGED chain
  BY <1>5 DEF SyncBegin, SyncEnd, Save, Crash, vars
<1> QED BY <1>1, <1>2, <1>3, <1>4, <1>5 DEF Next

LEMMA SoundStays ==
  ASSUME ChainTypes, ChainGrows, NEW s, Sound(s, height, born)
  PROVE  Sound(s, height', born')
<1>1. s \in States /\ s.pos \in Nat /\ s.pending \subseteq Coins
  BY DEF Sound, States
<1>2. s.pos <= height'
  BY <1>1 DEF Sound, ChainGrows, ChainTypes
<1>3. \A c \in s.pending : born'[c] \in 1..s.pos
  BY <1>1 DEF Sound, ChainGrows
<1> QED BY <1>1, <1>2, <1>3 DEF Sound

-----------------------------------------------------------------------------
(* Types.                                                                  *)

WalletInv ==
    /\ ChainTypes
    /\ Sound(cur, height, born) /\ Sound(disk, height, born)
    /\ sync # NoState => Sound(sync, height, born)
    /\ stage \in [Transfers -> Stages]
    /\ todo \in [Transfers -> SUBSET Coins]
    /\ ins \in [Transfers -> SUBSET Coins]
    /\ view \in [Transfers -> States]
    /\ \A x \in Transfers : Sound(view[x], height, born)

LEMMA NoViewSound == ASSUME ChainTypes PROVE Sound(NoView, height, born)
  BY DEF NoView, Sound, States, ChainTypes

LEMMA WalletInit == ASSUME Init PROVE WalletInv
<1>1. ChainTypes
  BY DEF Init, ChainTypes
<1>2. cur = NoView /\ disk = NoView /\ \A x \in Transfers : view[x] = NoView
  BY DEF Init, NoView
<1>3. view \in [Transfers -> States] /\ stage \in [Transfers -> Stages]
  BY DEF Init, NoView, States, Stages
<1> QED BY <1>1, <1>2, <1>3, NoViewSound DEF Init, WalletInv

(* The transfers stay what they are, with views of the chain.              *)
JobsOK ==
    /\ stage' \in [Transfers -> Stages]
    /\ todo' \in [Transfers -> SUBSET Coins]
    /\ ins' \in [Transfers -> SUBSET Coins]
    /\ view' \in [Transfers -> States]
    /\ \A x \in Transfers : Sound(view'[x], height, born)

LEMMA OverJobs ==
  ASSUME WalletInv, NEW x \in Transfers, Over(x)
  PROVE  JobsOK
<1>1. NoView \in States
  BY DEF NoView, States
<1> QED BY <1>1, NoViewSound DEF WalletInv, Over, JobsOK, Stages

LEMMA JobsStep == ASSUME WalletInv, [Next]_vars PROVE JobsOK
<1> USE DEF WalletInv, JobsOK, Stages
<1>1. ASSUME UNCHANGED jobs PROVE JobsOK
  BY <1>1 DEF jobs
<1>2. ASSUME NEW x \in Transfers, Over(x) PROVE JobsOK
  BY <1>2, OverJobs
<1>3. ASSUME NEW x \in Transfers, NEW a \in Amounts, Select(x, a) PROVE JobsOK
  <2>1. PICK S \in Selections(cur, a) : todo' = [todo EXCEPT ![x] = S]
    BY <1>3 DEF Select
  <2>2. S \subseteq Coins
    BY DEF Selections, Available, Tracked
  <2>3. todo' \in [Transfers -> SUBSET Coins]
    BY <2>1, <2>2
  <2>4. cur \in States
    BY DEF Sound
  <2>5. view' = [view EXCEPT ![x] = cur]
    BY <1>3 DEF Select
  <2>6. view' \in [Transfers -> States] /\ \A y \in Transfers : Sound(view'[y], height, born)
    BY <2>4, <2>5
  <2>7. stage' \in [Transfers -> Stages] /\ ins' \in [Transfers -> SUBSET Coins]
    BY <1>3 DEF Select
  <2> QED BY <2>3, <2>6, <2>7
<1>4. ASSUME NEW x \in Transfers, NEW c \in Coins, Spend(x, c) PROVE JobsOK
  <2> DEFINE v == [pos |-> view[x].pos, pending |-> view[x].pending \cup {c}]
  <2>1. view' = [view EXCEPT ![x] = v]
    BY <1>4 DEF Spend
  <2>2. view[x].pos \in Nat /\ view[x].pending \subseteq Coins
    BY DEF States
  <2>3. v \in States /\ v.pos = view[x].pos /\ v.pending = view[x].pending \cup {c}
    BY <2>2 DEF States
  <2>4. Sound(v, height, born)
    <3>1. born[c] \in 1..view[x].pos
      BY <1>4 DEF Spend, Tracked
    <3> QED BY <2>3, <3>1 DEF Sound
  <2> HIDE DEF v
  <2>5. view' \in [Transfers -> States] /\ \A y \in Transfers : Sound(view'[y], height, born)
    BY <2>1, <2>3, <2>4
  <2>6. /\ stage' = stage /\ ins' = [ins EXCEPT ![x] = ins[x] \cup {c}]
        /\ todo' = [todo EXCEPT ![x] = todo[x] \ {c}]
    BY <1>4 DEF Spend
  <2>7. ins' \in [Transfers -> SUBSET Coins] /\ todo' \in [Transfers -> SUBSET Coins]
    BY <2>6
  <2> QED BY <2>5, <2>6, <2>7
<1>5. ASSUME NEW x \in Transfers, MakeOffer(x) PROVE JobsOK
  <2>1. view' = [view EXCEPT ![x] = NoView] /\ NoView \in States
    BY <1>5 DEF MakeOffer, NoView, States
  <2>2. view' \in [Transfers -> States] /\ \A y \in Transfers : Sound(view'[y], height, born)
    BY <2>1, NoViewSound
  <2> QED BY <1>5, <2>2 DEF MakeOffer
<1>6. ASSUME NEW x \in Transfers, NEW y \in Transfers, MergeOffers(x, y) PROVE JobsOK
  BY <1>6 DEF MergeOffers
<1>7. ASSUME NEW x \in Transfers, Send(x) PROVE JobsOK
  BY <1>7 DEF Send
<1>8. ASSUME Crash PROVE JobsOK
  <2>1. view' = [x \in Transfers |-> NoView] /\ NoView \in States
    BY <1>8 DEF Crash, NoView, States
  <2>2. view' \in [Transfers -> States] /\ \A y \in Transfers : Sound(view'[y], height, born)
    BY <2>1, NoViewSound
  <2> QED BY <1>8, <2>2 DEF Crash
<1>9. ASSUME NEW x \in Transfers, NEW change, \/ Lose(x) \/ Abandon(x) \/ DropOffer(x)
                                              \/ Accept(x, change)
      PROVE  Over(x)
  BY <1>9 DEF Lose, Abandon, DropOffer, Accept
<1>10. ASSUME (\E c \in Coins : Mint(c)) \/ SyncBegin \/ (\E p \in 0..height : SyncEnd(p))
              \/ Save \/ UNCHANGED vars
       PROVE UNCHANGED jobs
  BY <1>10 DEF Mint, SyncBegin, SyncEnd, Save, vars, jobs
<1> QED BY <1>1, <1>2, <1>3, <1>4, <1>5, <1>6, <1>7, <1>8, <1>9, <1>10 DEF Next

LEMMA WalletStep == ASSUME WalletInv, [Next]_vars PROVE WalletInv'
<1>1. ChainTypes /\ ChainGrows
  BY ChainStep DEF WalletInv
<1>2. ChainTypes'
  BY <1>1 DEF ChainGrows, ChainTypes
<1>3. JobsOK
  BY JobsStep
<1>4. \A x \in Transfers : Sound(view'[x], height', born')
  BY <1>1, <1>3, SoundStays DEF JobsOK
<1>5. Sound(cur, height', born') /\ Sound(disk, height', born')
  BY <1>1, SoundStays DEF WalletInv
<1>6. sync # NoState => Sound(sync, height', born')
  BY <1>1, SoundStays DEF WalletInv
<1>7. /\ disk' = disk \/ disk' = cur
      /\ sync' \in {sync, cur, NoState}
  BY DEF Next, vars, jobs, Mint, Accept, Lose, Select, Spend, Abandon, MakeOffer,
         MergeOffers, Send, DropOffer, SyncBegin, SyncEnd, Save, Crash
<1>8. Sound(cur', height', born')
  <2>1. ASSUME cur' = cur PROVE Sound(cur', height', born')
    BY <2>1, <1>5
  <2>2. ASSUME NEW x \in Transfers, MakeOffer(x) PROVE Sound(cur', height', born')
    <3>1. cur' = view[x] /\ Sound(view[x], height, born)
      BY <2>2 DEF MakeOffer, WalletInv
    <3> QED BY <3>1, <1>1, SoundStays
  <2>3. ASSUME NEW p \in 0..height, SyncEnd(p) PROVE Sound(cur', height', born')
    <3>1. cur' = [pos |-> p, pending |-> sync.pending \cap Tracked(p)]
      BY <2>3 DEF SyncEnd
    <3>2. p \in Nat /\ p <= height
      BY <1>1 DEF ChainTypes
    <3>3. cur' \in States /\ cur'.pos = p /\ cur'.pending \subseteq Tracked(p)
      BY <3>1, <3>2 DEF States, Tracked
    <3>4. Sound(cur', height, born)
      BY <3>2, <3>3 DEF Sound, Tracked
    <3> HIDE DEF Sound
    <3> QED BY <3>4, <1>1, SoundStays
  <2>4. ASSUME Crash PROVE Sound(cur', height', born')
    BY <2>4, <1>5 DEF Crash
  <2>5. \/ cur' = cur
        \/ \E x \in Transfers : MakeOffer(x)
        \/ \E p \in 0..height : SyncEnd(p)
        \/ Crash
    BY DEF Next, vars, Mint, Accept, Lose, Select, Spend, Abandon,
           MergeOffers, Send, DropOffer, SyncBegin, Save
  <2> QED BY <2>1, <2>2, <2>3, <2>4, <2>5
<1>9. Sound(disk', height', born') /\ (sync' # NoState => Sound(sync', height', born'))
  BY <1>5, <1>6, <1>7
<1> QED BY <1>2, <1>3, <1>4, <1>8, <1>9 DEF WalletInv, JobsOK

LEMMA WalletAlways == Spec => []WalletInv
  BY WalletInit, WalletStep, PTL DEF Spec

(* The types, and that no state and no save of one runs ahead of the chain *)
(* (zswap_replay_events, zswap_serialize).                                 *)
THEOREM ShieldedTypeCorrect == Spec => []TypeOK
<1>1. WalletInv => TypeOK
  BY DEF WalletInv, TypeOK, ChainTypes, Sound
<1> QED BY <1>1, WalletAlways, PTL

-----------------------------------------------------------------------------
(* One user at a time.                                                     *)

(* Whoever works on the wallet's state works alone, from the state that is *)
(* current, and has only added to it.                                      *)
SerialInv ==
    /\ sync # NoState => sync = cur /\ \A x \in Transfers : stage[x] # "spending"
    /\ \A x \in Transfers : stage[x] = "spending" =>
        /\ view[x].pos = cur.pos
        /\ view[x].pending = cur.pending \cup ins[x]
        /\ \A y \in Transfers : stage[y] = "spending" => x = y

LEMMA SerialInit == ASSUME Init PROVE SerialInv
  BY DEF Init, SerialInv

LEMMA OverSerial ==
  ASSUME WalletInv, SerialInv, NEW x \in Transfers, Over(x), UNCHANGED <<cur, sync>>
  PROVE  SerialInv'
  BY DEF WalletInv, SerialInv, Over

LEMMA SerialStep ==
  ASSUME Serialised, WalletInv, SerialInv, [Next]_vars PROVE SerialInv'
<1> USE DEF WalletInv, SerialInv
<1>1. ASSUME UNCHANGED <<cur, jobs, sync>> PROVE SerialInv'
  BY <1>1 DEF jobs
<1>2. ASSUME NEW x \in Transfers, Over(x), UNCHANGED <<cur, sync>> PROVE SerialInv'
  BY <1>2, OverSerial
<1>3. ASSUME NEW x \in Transfers, NEW a \in Amounts, Select(x, a) PROVE SerialInv'
  BY <1>3 DEF Select, Unused
<1>4. ASSUME NEW x \in Transfers, NEW c \in Coins, Spend(x, c) PROVE SerialInv'
  BY <1>4 DEF Spend
<1>5. ASSUME NEW x \in Transfers, MakeOffer(x) PROVE SerialInv'
  BY <1>5 DEF MakeOffer
<1>6. ASSUME NEW x \in Transfers, NEW y \in Transfers, MergeOffers(x, y) PROVE SerialInv'
  BY <1>6 DEF MergeOffers
<1>7. ASSUME NEW x \in Transfers, Send(x) PROVE SerialInv'
  BY <1>7 DEF Send
<1>8. ASSUME SyncBegin PROVE SerialInv'
  BY <1>8 DEF SyncBegin, Unused, jobs
<1>9. ASSUME NEW p \in 0..height, SyncEnd(p) PROVE SerialInv'
  BY <1>9 DEF SyncEnd, jobs
<1>10. ASSUME Crash PROVE SerialInv'
  BY <1>10 DEF Crash
<1>11. ASSUME NEW x \in Transfers, NEW change, \/ Lose(x) \/ Abandon(x) \/ DropOffer(x)
                                               \/ Accept(x, change)
       PROVE  Over(x) /\ UNCHANGED <<cur, sync>>
  BY <1>11 DEF Lose, Abandon, DropOffer, Accept
<1>12. ASSUME (\E c \in Coins : Mint(c)) \/ Save \/ UNCHANGED vars
       PROVE  UNCHANGED <<cur, jobs, sync>>
  BY <1>12 DEF Mint, Save, vars, jobs
<1> QED BY <1>1, <1>2, <1>3, <1>4, <1>5, <1>6, <1>7, <1>8, <1>9, <1>10, <1>11, <1>12 DEF Next

LEMMA SerialAlways == ASSUME Serialised PROVE Spec => []SerialInv
<1>1. WalletInv /\ SerialInv /\ [Next]_vars => SerialInv'
  BY SerialStep
<1> QED BY <1>1, SerialInit, WalletAlways, PTL DEF Spec

(* A replay installs at least what it was given, for its pending coins are *)
(* still tracked or their spends have been replayed.                       *)
LEMMA ReplayKeeps ==
  ASSUME WalletInv, NEW p \in Nat, cur.pos <= p, NEW c \in Coins, Reserved(cur, c)
  PROVE  c \in cur.pending \cap Tracked(p) \/ gone[c] \in 1..p
<1>1. cur.pos \in Nat /\ gone[c] \in Nat
  BY DEF WalletInv, Sound, States, ChainTypes
<1>2. CASE gone[c] \in 1..cur.pos
  BY <1>1, <1>2
<1>3. CASE c \in cur.pending
  <2>1. born[c] \in 1..cur.pos
    BY <1>3 DEF WalletInv, Sound
  <2> QED BY <1>1, <1>3, <2>1 DEF Tracked
<1> QED BY <1>2, <1>3 DEF Reserved

(* A transfer puts in place the state of its last spend and a sync the one *)
(* it has replayed (zswap_spend_coin, zswap_replay_events): with one user  *)
(* at a time neither takes back what the other has put there.              *)
THEOREM SerialisedUsersLoseNothing == ASSUME Serialised PROVE Spec => NothingLost
<1> DEFINE Kept == \/ cur' = disk
                   \/ /\ cur.pos <= cur'.pos
                      /\ \A c \in cur.pending : Reserved(cur, c)'
<1>1. ASSUME WalletInv, SerialInv, [Next]_vars PROVE [Kept]_vars
  <2>1. cur.pos \in Nat /\ cur.pending \subseteq Coins
    BY <1>1 DEF WalletInv, Sound, States
  <2>2. ASSUME cur' = cur PROVE Kept
    BY <2>1, <2>2 DEF Reserved
  <2>3. ASSUME NEW x \in Transfers, MakeOffer(x) PROVE Kept
    BY <1>1, <2>1, <2>3 DEF MakeOffer, SerialInv, Reserved
  <2>4. ASSUME NEW p \in 0..height, SyncEnd(p) PROVE Kept
    <3>1. /\ cur' = [pos |-> p, pending |-> cur.pending \cap Tracked(p)]
          /\ cur.pos <= p /\ gone' = gone
      BY <1>1, <2>4, <2>1 DEF SyncEnd, SerialInv, chain
    <3>2. p \in Nat
      BY <1>1 DEF WalletInv, ChainTypes
    <3>3. \A c \in cur.pending : c \in cur.pending \cap Tracked(p) \/ gone[c] \in 1..p
      BY <1>1, <2>1, <3>1, <3>2, ReplayKeeps DEF Reserved
    <3> QED BY <3>1, <3>3 DEF Reserved
  <2>5. ASSUME Crash PROVE Kept
    BY <2>5 DEF Crash
  <2>6. \/ cur' = cur
        \/ \E x \in Transfers : MakeOffer(x)
        \/ \E p \in 0..height : SyncEnd(p)
        \/ Crash
    BY <1>1 DEF Next, vars, Mint, Accept, Lose, Select, Spend, Abandon,
           MergeOffers, Send, DropOffer, SyncBegin, Save
  <2> QED BY <2>2, <2>3, <2>4, <2>5, <2>6
<1>2. WalletInv /\ SerialInv /\ [Next]_vars => [Kept]_vars
  BY <1>1
<1>3. Spec => [][Kept]_vars
  BY <1>2, WalletAlways, SerialAlways, PTL DEF Spec
<1> QED BY <1>3 DEF NothingLost

-----------------------------------------------------------------------------
(* No coin twice.                                                          *)

Held(x) == stage[x] \in {"offer", "out"}

(* What a transfer holds is unspent and pending in the wallet's state, in  *)
(* the saved one too once it is out; what one is about to take is neither. *)
HeldInv ==
    /\ \A c \in Coins : gone[c] # 0 => Reserved(cur, c) /\ Reserved(disk, c)
    /\ \A x \in Transfers : Held(x) => \A c \in ins[x] : gone[c] = 0 /\ c \in cur.pending
    /\ \A x \in Transfers : stage[x] = "out" => ins[x] \subseteq disk.pending
    /\ \A x \in Transfers : stage[x] = "spending" =>
        \A c \in todo[x] \cup ins[x] : gone[c] = 0 /\ c \notin cur.pending
    /\ \A x \in Transfers, y \in Transfers :
        Held(x) /\ Held(y) /\ x # y => ins[x] \cap ins[y] = {}

TakenInv == WalletInv /\ SerialInv /\ HeldInv

LEMMA HeldInit == ASSUME Init PROVE HeldInv
  BY DEF Init, HeldInv, Held

LEMMA OverHeld ==
  ASSUME TakenInv, NEW x \in Transfers, Over(x), UNCHANGED <<gone, cur, disk>>
  PROVE  HeldInv'
<1>1. UNCHANGED <<gone, cur, disk>> /\ ~Held(x)'
  BY DEF TakenInv, WalletInv, Over, Held
<1>2. \A y \in Transfers \ {x} : UNCHANGED <<stage[y], todo[y], ins[y]>>
  BY DEF TakenInv, WalletInv, Over
<1>3. stage'[x] = "idle"
  BY DEF TakenInv, WalletInv, Over
<1> QED BY <1>1, <1>2, <1>3 DEF TakenInv, HeldInv, Held, Reserved

(* What is selected is neither pending nor gone.                           *)
LEMMA SelectHeld ==
  ASSUME TakenInv, NEW x \in Transfers, NEW a \in Amounts, Select(x, a)
  PROVE  HeldInv'
<1>1. PICK S \in Selections(cur, a) : todo' = [todo EXCEPT ![x] = S]
  BY DEF Select
<1>2. S \subseteq Available(cur)
  BY DEF Selections
<1>3. \A c \in S : c \in Coins /\ gone[c] = 0 /\ c \notin cur.pending
  BY <1>2 DEF Available, Tracked, Reserved, TakenInv, HeldInv
<1>4. todo'[x] = S /\ ins'[x] = {} /\ stage'[x] = "spending"
  BY <1>1 DEF TakenInv, WalletInv, Select
<1>5. \A y \in Transfers \ {x} : UNCHANGED <<stage[y], todo[y], ins[y]>>
  BY DEF TakenInv, WalletInv, Select
<1>6. UNCHANGED <<gone, cur, disk>>
  BY DEF Select, chain
<1> QED BY <1>3, <1>4, <1>5, <1>6 DEF TakenInv, HeldInv, Held, Reserved

LEMMA SpendHeld ==
  ASSUME TakenInv, NEW x \in Transfers, NEW c \in Coins, Spend(x, c)
  PROVE  HeldInv'
<1>1. /\ stage' = stage /\ stage[x] = "spending"
      /\ todo'[x] \cup ins'[x] = todo[x] \cup ins[x]
      /\ \A y \in Transfers \ {x} : UNCHANGED <<todo[y], ins[y]>>
      /\ UNCHANGED <<gone, cur, disk>>
  BY DEF TakenInv, WalletInv, Spend, chain
<1> QED BY <1>1 DEF TakenInv, HeldInv, Held, Reserved

(* The coins of an offer become pending in the wallet's state.             *)
LEMMA MakeOfferHeld ==
  ASSUME TakenInv, NEW x \in Transfers, MakeOffer(x)
  PROVE  HeldInv'
<1>1. /\ cur'.pos = cur.pos /\ cur'.pending = cur.pending \cup ins[x]
      /\ stage[x] = "spending" /\ stage'[x] = "offer"
      /\ todo' = todo /\ ins' = ins
      /\ \A y \in Transfers \ {x} : stage'[y] = stage[y] /\ stage[y] # "spending"
      /\ UNCHANGED <<gone, disk>>
  BY DEF TakenInv, WalletInv, SerialInv, MakeOffer, chain
<1>2. \A c \in ins[x] : gone[c] = 0 /\ c \notin cur.pending
  BY <1>1 DEF TakenInv, HeldInv
<1>3. \A y \in Transfers \ {x} : Held(y)' => Held(y) /\ ins[x] \cap ins[y] = {}
  BY <1>1, <1>2 DEF TakenInv, HeldInv, Held
<1> QED BY <1>1, <1>2, <1>3 DEF TakenInv, HeldInv, Held, Reserved

LEMMA MergeHeld ==
  ASSUME TakenInv, NEW x \in Transfers, NEW y \in Transfers, MergeOffers(x, y)
  PROVE  HeldInv'
<1>1. /\ x # y /\ Held(x) /\ Held(y) /\ stage[x] = "offer"
      /\ stage'[y] = "idle" /\ stage'[x] = "offer"
      /\ ins'[x] = ins[x] \cup ins[y] /\ todo' = todo
      /\ \A z \in Transfers \ {x, y} : UNCHANGED <<stage[z], ins[z]>>
      /\ UNCHANGED <<gone, cur, disk>>
  BY DEF TakenInv, WalletInv, MergeOffers, Held, chain
<1> QED BY <1>1 DEF TakenInv, HeldInv, Held, Reserved

(* What leaves has been saved.                                             *)
LEMMA SendHeld ==
  ASSUME SaveFirst, TakenInv, NEW x \in Transfers, Send(x)
  PROVE  HeldInv'
<1>1. /\ stage[x] = "offer" /\ stage'[x] = "out" /\ todo' = todo /\ ins' = ins
      /\ \A y \in Transfers \ {x} : stage'[y] = stage[y]
      /\ UNCHANGED <<gone, cur, disk>>
  BY DEF TakenInv, WalletInv, Send, chain
<1>2. ins[x] \subseteq disk.pending
  <2>1. \A c \in ins[x] : Reserved(disk, c) /\ gone[c] = 0
    BY <1>1 DEF Send, TakenInv, HeldInv, Held
  <2> QED BY <2>1 DEF Reserved, TakenInv, WalletInv, Sound, States
<1> QED BY <1>1, <1>2 DEF TakenInv, HeldInv, Held, Reserved

(* The spent coins were pending in both states, and no one else has them.  *)
LEMMA AcceptHeld ==
  ASSUME TakenInv, NEW x \in Transfers, NEW change, Accept(x, change)
  PROVE  HeldInv'
<1>1. /\ stage[x] = "out" /\ stage'[x] = "idle"
      /\ \A y \in Transfers \ {x} : UNCHANGED <<stage[y], todo[y], ins[y]>>
      /\ UNCHANGED <<cur, disk>>
  BY DEF TakenInv, WalletInv, Accept, Over
<1>2. \A c \in Coins : gone'[c] # gone[c] => c \in ins[x]
  BY DEF Accept
<1>3. \A c \in ins[x] : c \in cur.pending /\ c \in disk.pending
  BY <1>1 DEF TakenInv, HeldInv, Held
<1>4. \A c \in Coins : (gone[c] # 0 => Reserved(cur, c) /\ Reserved(disk, c))
  BY DEF TakenInv, HeldInv
<1>5. \A c \in Coins : (gone'[c] # 0 => Reserved(cur, c)' /\ Reserved(disk, c)')
  BY <1>1, <1>2, <1>3, <1>4 DEF Reserved
<1>6. \A y \in Transfers \ {x} : /\ Held(y) => ins[y] \cap ins[x] = {}
                                 /\ stage[y] = "spending" =>
                                      (todo[y] \cup ins[y]) \cap ins[x] = {}
  BY <1>1, <1>3 DEF TakenInv, HeldInv, Held
<1>7. \A y \in Transfers : todo[y] \subseteq Coins /\ ins[y] \subseteq Coins
  BY DEF TakenInv, WalletInv
<1>8. \A y \in Transfers : Held(y)' => Held(y) /\ y # x
  BY <1>1 DEF Held
<1>9. \A y \in Transfers : Held(y)' =>
        \A c \in ins'[y] : gone'[c] = 0 /\ c \in cur'.pending
  BY <1>1, <1>2, <1>6, <1>7, <1>8 DEF TakenInv, HeldInv
<1>10. \A y \in Transfers : stage'[y] = "spending" =>
         \A c \in todo'[y] \cup ins'[y] : gone'[c] = 0 /\ c \notin cur'.pending
  BY <1>1, <1>2, <1>6, <1>7 DEF TakenInv, HeldInv
<1>11. \A y \in Transfers : stage'[y] = "out" => ins'[y] \subseteq disk'.pending
  BY <1>1 DEF TakenInv, HeldInv
<1>12. \A y \in Transfers, z \in Transfers :
         Held(y)' /\ Held(z)' /\ y # z => ins'[y] \cap ins'[z] = {}
  BY <1>1, <1>8 DEF TakenInv, HeldInv
<1> QED BY <1>5, <1>9, <1>10, <1>11, <1>12 DEF HeldInv

(* A replay drops a pending coin only for the event of its spend.          *)
LEMMA SyncHeld ==
  ASSUME TakenInv, NEW p \in 0..height, SyncEnd(p)
  PROVE  HeldInv'
<1>1. /\ cur'.pos = p /\ cur'.pending = cur.pending \cap Tracked(p)
      /\ cur.pos <= p /\ p \in Nat
      /\ UNCHANGED <<gone, disk, stage, todo, ins>>
      /\ \A x \in Transfers : stage[x] # "spending"
  BY DEF TakenInv, WalletInv, ChainTypes, SerialInv, SyncEnd, chain, jobs
<1>2. \A c \in Coins : Reserved(cur, c) => Reserved(cur, c)'
  BY <1>1, ReplayKeeps DEF Reserved, TakenInv
<1>3. \A c \in Coins : Reserved(disk, c)' = Reserved(disk, c)
  BY <1>1 DEF Reserved
<1>4. \A c \in cur.pending : gone[c] = 0 => c \in cur'.pending
  <2>1. cur.pending \subseteq Coins
    BY DEF TakenInv, WalletInv, Sound, States
  <2> QED BY <1>1, <2>1, ReplayKeeps DEF Reserved, TakenInv
<1> QED BY <1>1, <1>2, <1>3, <1>4 DEF TakenInv, HeldInv, Held

(* What is out was saved, and nothing else is held any more.               *)
LEMMA CrashHeld == ASSUME TakenInv, Crash PROVE HeldInv'
<1>1. /\ cur' = disk /\ disk' = disk /\ gone' = gone
      /\ \A x \in Transfers : /\ stage'[x] = "out" => stage[x] = "out" /\ ins'[x] = ins[x]
                              /\ stage'[x] \in {"out", "idle"}
  BY DEF Crash, chain
<1> QED BY <1>1 DEF TakenInv, HeldInv, Held, Reserved

LEMMA HeldStep == ASSUME SaveFirst, TakenInv, [Next]_vars PROVE HeldInv'
<1>1. ASSUME UNCHANGED <<gone, cur, jobs>>, disk' = disk \/ disk' = cur PROVE HeldInv'
  BY <1>1 DEF TakenInv, HeldInv, Held, Reserved, jobs
<1>2. ASSUME NEW x \in Transfers, Over(x), UNCHANGED <<gone, cur, disk>> PROVE HeldInv'
  BY <1>2, OverHeld
<1>3. ASSUME NEW x \in Transfers, \/ \E a \in Amounts : Select(x, a)
                                  \/ \E c \in Coins : Spend(x, c)
                                  \/ MakeOffer(x)
                                  \/ \E y \in Transfers : MergeOffers(x, y)
                                  \/ Send(x)
                                  \/ \E change \in {{}} \cup {{c} : c \in Unborn} :
                                        Accept(x, change)
      PROVE  HeldInv'
  BY <1>3, SelectHeld, SpendHeld, MakeOfferHeld, MergeHeld, SendHeld, AcceptHeld
<1>4. ASSUME NEW x \in Transfers, Lose(x) \/ Abandon(x) \/ DropOffer(x)
      PROVE  Over(x) /\ UNCHANGED <<gone, cur, disk>>
  BY <1>4 DEF Lose, Abandon, DropOffer, chain
<1>5. ASSUME (\E c \in Coins : Mint(c)) \/ SyncBegin \/ Save \/ UNCHANGED vars
      PROVE  UNCHANGED <<gone, cur, jobs>> /\ (disk' = disk \/ disk' = cur)
  BY <1>5 DEF Mint, SyncBegin, Save, vars, jobs, chain
<1> QED BY <1>1, <1>2, <1>3, <1>4, <1>5, SyncHeld, CrashHeld DEF Next

(* What zswap_select_coins passes over is all that stops a coin from being *)
(* spent twice (zswap_ffi.rs).  It is enough, across any crashes, if one   *)
(* user at a time works on the state and saves it before sending.          *)
THEOREM SavedSpendsAreUnique ==
  ASSUME Serialised, SaveFirst PROVE Spec => []NoCoinTwice
<1>1. TakenInv => NoCoinTwice
  BY DEF TakenInv, HeldInv, Held, NoCoinTwice
<1>2. Init => HeldInv
  BY HeldInit
<1>3. WalletInv /\ SerialInv /\ HeldInv /\ [Next]_vars => HeldInv'
  BY HeldStep DEF TakenInv
<1>4. Spec => []HeldInv
  BY <1>2, <1>3, WalletAlways, SerialAlways, PTL DEF Spec
<1> QED BY <1>1, <1>4, WalletAlways, SerialAlways, PTL DEF TakenInv

-----------------------------------------------------------------------------
(* A wallet whose transfers never share a coin implements SpendOnce.       *)

Out == {ins[x] : x \in {y \in Transfers : stage[y] = "out"}} \ {{}}
Gone == {c \in Coins : gone[c] > 0}

(* Transfers out with the same coins have none.                            *)
LEMMA OutApart ==
  ASSUME WalletInv, NoCoinTwice, NEW x \in Transfers, stage[x] = "out"
  PROVE  /\ ins[x] \in SUBSET Coins
         /\ \A S \in Out : S # ins[x] => S \cap ins[x] = {}
         /\ \A y \in Transfers \ {x} :
              stage[y] = "out" /\ ins[y] # {} => ins[y] # ins[x]
  BY DEF WalletInv, NoCoinTwice, Out

(* The transfer that is over is out no more, and no other changes.         *)
LEMMA OutLoses ==
  ASSUME WalletInv, NoCoinTwice, NEW x \in Transfers, stage[x] = "out", Over(x)
  PROVE  Out' = Out \ {ins[x]}
<1>1. stage'[x] = "idle"
  BY DEF WalletInv, Over
<1>2. \A y \in Transfers \ {x} : stage'[y] = stage[y] /\ ins'[y] = ins[y]
  BY DEF WalletInv, Over
<1>3. \A S : S \in Out' <=> S # {} /\ \E y \in Transfers : stage'[y] = "out" /\ S = ins'[y]
  BY DEF Out
<1>4. \A S : S \in Out <=> S # {} /\ \E y \in Transfers : stage[y] = "out" /\ S = ins[y]
  BY DEF Out
<1>5. \A S : S \in Out' <=> S \in Out /\ S # ins[x]
  BY <1>1, <1>2, <1>3, <1>4, OutApart
<1> QED BY <1>5

LEMMA SendSpending ==
  ASSUME WalletInv, NoCoinTwice', NEW x \in Transfers, Send(x)
  PROVE  [Spending!Next]_(Spending!vars)
<1>1. /\ stage[x] = "offer" /\ stage'[x] = "out" /\ ins' = ins /\ gone' = gone
      /\ \A y \in Transfers \ {x} : stage'[y] = stage[y]
  BY DEF WalletInv, Send, chain
<1>2. \A S : S \in Out' <=> S # {} /\ \E y \in Transfers : stage'[y] = "out" /\ S = ins[y]
  BY <1>1 DEF Out
<1>3. \A S : S \in Out <=> S # {} /\ \E y \in Transfers : stage[y] = "out" /\ S = ins[y]
  BY DEF Out
<1>4. ins[x] \in SUBSET Coins /\ Gone' = Gone
  BY <1>1 DEF WalletInv, Gone
<1>5. CASE ins[x] = {}
  <2>1. \A S : S \in Out' <=> S \in Out
    BY <1>1, <1>2, <1>3, <1>5
  <2>2. Out' = Out
    BY <2>1
  <2> QED BY <1>4, <2>2 DEF Spending!vars, Out, Gone
<1>6. CASE ins[x] # {}
  <2>1. \A S : S \in Out' <=> S \in Out \/ S = ins[x]
    BY <1>1, <1>2, <1>3, <1>6
  <2>2. Out' = Out \cup {ins[x]}
    BY <2>1
  <2>3. \A S \in Out : S \cap ins[x] = {}
    BY <1>1, <1>3 DEF NoCoinTwice
  <2>4. \A c \in ins[x] : c \in Coins /\ gone[c] = 0
    BY <1>1, <1>4 DEF NoCoinTwice
  <2>5. ins[x] \cap ((UNION Out) \cup Gone) = {}
    BY <2>3, <2>4 DEF Gone
  <2>6. ASSUME NEW S \in SUBSET Coins, S = ins[x] PROVE Spending!Send(S)
    BY <2>6, <1>4, <1>6, <2>2, <2>5 DEF Out, Gone, Spending!Send, Spending!Taken
  <2>7. \E S \in SUBSET Coins : Spending!Send(S)
    BY <1>4, <2>6
  <2> QED BY <2>7 DEF Spending!Next
<1> QED BY <1>5, <1>6

LEMMA AcceptSpending ==
  ASSUME WalletInv, NoCoinTwice, NEW x \in Transfers, NEW change, Accept(x, change)
  PROVE  [Spending!Next]_(Spending!vars)
<1>1. stage[x] = "out" /\ Over(x)
  BY DEF Accept
<1>2. Out' = Out \ {ins[x]} /\ ins[x] \in SUBSET Coins
  BY <1>1, OutLoses, OutApart
<1>3. \A c \in Coins : gone'[c] = IF c \in ins[x] THEN height + 1 ELSE gone[c]
  BY DEF Accept
<1>4. height + 1 > 0
  BY DEF WalletInv, ChainTypes
<1>5. Gone' = Gone \cup ins[x]
  BY <1>2, <1>3, <1>4 DEF Gone
<1>6. CASE ins[x] = {}
  <2>1. Out' = Out /\ Gone' = Gone
    BY <1>2, <1>5, <1>6 DEF Out
  <2> QED BY <2>1 DEF Spending!vars, Out, Gone
<1>7. CASE ins[x] # {}
  <2>1. ins[x] \in Out
    BY <1>1, <1>7 DEF Out
  <2>2. ASSUME NEW S \in SUBSET Coins, S = ins[x] PROVE Spending!Settle(S)
    BY <2>2, <1>2, <1>5, <2>1 DEF Out, Gone, Spending!Settle
  <2>3. \E S \in SUBSET Coins : Spending!Settle(S)
    BY <1>2, <2>2
  <2> QED BY <2>3 DEF Spending!Next
<1> QED BY <1>6, <1>7

LEMMA LoseSpending ==
  ASSUME WalletInv, NoCoinTwice, NEW x \in Transfers, Lose(x)
  PROVE  [Spending!Next]_(Spending!vars)
<1>1. stage[x] = "out" /\ Over(x) /\ gone' = gone
  BY DEF Lose, chain
<1>2. Out' = Out \ {ins[x]} /\ ins[x] \in SUBSET Coins /\ Gone' = Gone
  BY <1>1, OutLoses, OutApart DEF Gone
<1>3. CASE ins[x] = {}
  <2>1. Out' = Out
    BY <1>2, <1>3 DEF Out
  <2> QED BY <1>2, <2>1 DEF Spending!vars, Out, Gone
<1>4. CASE ins[x] # {}
  <2>1. ins[x] \in Out
    BY <1>1, <1>4 DEF Out
  <2>2. ASSUME NEW S \in SUBSET Coins, S = ins[x] PROVE Spending!Lose(S)
    BY <2>2, <1>2, <2>1 DEF Out, Gone, Spending!Lose
  <2>3. \E S \in SUBSET Coins : Spending!Lose(S)
    BY <1>2, <2>2
  <2> QED BY <2>3 DEF Spending!Next
<1> QED BY <1>3, <1>4

(* No other step changes what is out or spent.                             *)
LEMMA QuietSpending ==
  ASSUME WalletInv, gone' = gone,
         \A y \in Transfers : stage'[y] = "out" <=> stage[y] = "out",
         \A y \in Transfers : stage[y] = "out" => ins'[y] = ins[y]
  PROVE  UNCHANGED Spending!vars
<1>1. \A S : S \in Out' <=> S # {} /\ \E y \in Transfers : stage'[y] = "out" /\ S = ins'[y]
  BY DEF Out
<1>2. \A S : S \in Out <=> S # {} /\ \E y \in Transfers : stage[y] = "out" /\ S = ins[y]
  BY DEF Out
<1>3. \A S : S \in Out' <=> S \in Out
  BY <1>1, <1>2
<1>4. Out' = Out /\ Gone' = Gone
  BY <1>3 DEF Gone
<1> QED BY <1>4 DEF Spending!vars, Out, Gone

LEMMA SpendingStep ==
  ASSUME WalletInv, NoCoinTwice, NoCoinTwice', [Next]_vars
  PROVE  [Spending!Next]_(Spending!vars)
<1> DEFINE Quiet == /\ gone' = gone
                    /\ \A y \in Transfers : stage'[y] = "out" <=> stage[y] = "out"
                    /\ \A y \in Transfers : stage[y] = "out" => ins'[y] = ins[y]
<1>1. ASSUME NEW x \in Transfers, Abandon(x) \/ DropOffer(x) PROVE Quiet
  BY <1>1 DEF Abandon, DropOffer, Over, WalletInv, chain
<1>2. ASSUME NEW x \in Transfers,
             \/ MakeOffer(x) \/ \E a \in Amounts : Select(x, a)
             \/ \E c \in Coins : Spend(x, c)
      PROVE  Quiet
  BY <1>2 DEF MakeOffer, Select, Spend, WalletInv, chain
<1>3. ASSUME NEW x \in Transfers, NEW y \in Transfers, MergeOffers(x, y) PROVE Quiet
  BY <1>3 DEF MergeOffers, WalletInv, chain
<1>4. ASSUME Crash PROVE Quiet
  BY <1>4 DEF Crash, chain
<1>5. ASSUME (\E c \in Coins : Mint(c)) \/ SyncBegin \/ (\E p \in 0..height : SyncEnd(p)) \/ Save
             \/ UNCHANGED vars
      PROVE  Quiet
  BY <1>5 DEF Mint, SyncBegin, SyncEnd, Save, vars, jobs, chain
<1>6. Quiet => UNCHANGED Spending!vars
  BY QuietSpending
<1> HIDE DEF Quiet
<1> QED BY <1>1, <1>2, <1>3, <1>4, <1>5, <1>6, SendSpending, AcceptSpending, LoseSpending DEF Next

LEMMA SpendingInit == ASSUME Init PROVE Spending!Init
  BY DEF Init, Spending!Init

(* What pending_spends come to at the node, when they are saved in time:   *)
(* every coin pays once, across any crashes, merges and losses.            *)
THEOREM SavedWalletSpendsOnce ==
  ASSUME Serialised, SaveFirst PROVE Spec => ImplementsSpendOnce
<1>1. Init => Spending!Init
  BY SpendingInit
<1>2. WalletInv /\ NoCoinTwice /\ NoCoinTwice' /\ [Next]_vars =>
        [Spending!Next]_(Spending!vars)
  BY SpendingStep
<1>3. Spec => []NoCoinTwice
  BY SavedSpendsAreUnique
<1> QED BY <1>1, <1>2, <1>3, WalletAlways, PTL DEF Spec, ImplementsSpendOnce, Spending!Spec

-----------------------------------------------------------------------------
(* Sums.  Total is a recursion over subsets; what follows shows that it    *)
(* has a value, and the value a sum has, by the order of the finite sets:  *)
(* a least set for which a statement fails cannot exist.                   *)

(* Where sets of coins have a property, some have it of which no smaller   *)
(* one does.                                                               *)
LEMMA LeastSubset ==
  ASSUME NEW F \in SUBSET SUBSET Coins, F # {}
  PROVE  \E S \in F : \A U \in F : U \subseteq S => U = S
<1>1. IsWellFoundedOn(StrictSubsetOrdering(Coins), SUBSET Coins)
  BY FS_StrictSubsetOrderingWellFounded, FS_FiniteSubsetsOfFinite, WalletAssumption
<1>2. PICK S \in F : \A U \in F : <<U, S>> \notin StrictSubsetOrdering(Coins)
  BY <1>1, WFMin
<1>3. \A U \in F : U \subseteq S /\ U # S => <<U, S>> \in StrictSubsetOrdering(Coins)
  BY DEF StrictSubsetOrdering
<1>4. ASSUME NEW U \in F, U \subseteq S PROVE U = S
  BY <1>2, <1>3, <1>4, Zenon
<1> QED BY <1>4

(* The recursion that Total is: a coin of the set, and what is left.       *)
Pick(s) == CHOOSE x \in s : TRUE
Rest(s) == s \ {Pick(s)}

LEMMA PickIn == ASSUME NEW s, s # {} PROVE Pick(s) \in s
  BY DEF Pick

Solves(g, T) ==
    g = [s \in SUBSET T |-> IF s = {} THEN 0 ELSE Value[Pick(s)] + g[Rest(s)]]

LEMMA SolvesAt ==
  ASSUME NEW T, NEW g, Solves(g, T), NEW s \in SUBSET T
  PROVE  g[s] = IF s = {} THEN 0 ELSE Value[Pick(s)] + g[Rest(s)]
  BY DEF Solves

(* It has a solution over every set of coins, and only one.                *)
LEMMA SolutionsAgree ==
  ASSUME NEW T \in SUBSET Coins, NEW U \in SUBSET Coins, NEW g, NEW h,
         Solves(g, T), Solves(h, U), NEW s \in SUBSET (T \cap U)
  PROVE  g[s] = h[s]
<1> DEFINE Bad == {r \in SUBSET (T \cap U) : g[r] # h[r]}
<1>1. SUFFICES ASSUME Bad # {} PROVE FALSE
  OBVIOUS
<1>2. Bad \in SUBSET SUBSET Coins
  OBVIOUS
<1>3. PICK r \in Bad : \A q \in Bad : q \subseteq r => q = r
  <2> HIDE DEF Bad
  <2> QED BY <1>1, <1>2, LeastSubset
<1>4. r \subseteq T /\ r \subseteq U /\ g[r] # h[r]
  OBVIOUS
<1>5. CASE r = {}
  BY <1>4, <1>5, SolvesAt
<1>6. CASE r # {}
  <2>1. Rest(r) \subseteq r /\ Rest(r) # r
    BY <1>6, PickIn DEF Rest
  <2>2. g[Rest(r)] = h[Rest(r)]
    BY <1>3, <1>4, <2>1
  <2>3. g[r] = Value[Pick(r)] + g[Rest(r)] /\ h[r] = Value[Pick(r)] + h[Rest(r)]
    BY <1>4, <1>6, SolvesAt
  <2> QED BY <1>4, <2>2, <2>3
<1> QED BY <1>5, <1>6

LEMMA SolutionExists ==
  ASSUME NEW S \in SUBSET Coins
  PROVE  \E g : Solves(g, S)
<1> DEFINE Without == {T \in SUBSET Coins : ~ \E g : Solves(g, T)}
<1>1. SUFFICES ASSUME Without # {} PROVE FALSE
  OBVIOUS
<1>2. Without \in SUBSET SUBSET Coins
  OBVIOUS
<1>3. PICK T \in Without : \A U \in Without : U \subseteq T => U = T
  <2> HIDE DEF Without
  <2> QED BY <1>1, <1>2, LeastSubset
<1> DEFINE sol(r) == CHOOSE g : Solves(g, r)
           at(s) == IF s = {} THEN 0 ELSE Value[Pick(s)] + sol(Rest(s))[Rest(s)]
           g == [s \in SUBSET T |-> at(s)]
<1>4. \A s \in SUBSET T : s # {} => Rest(s) \subseteq s /\ Rest(s) # T /\ Rest(s) \in SUBSET Coins
  BY PickIn DEF Rest
<1>5. \A r \in SUBSET T : r # T => Solves(sol(r), r)
  BY <1>3
<1>6. ASSUME NEW s \in SUBSET T, s # {} PROVE sol(Rest(s))[Rest(s)] = g[Rest(s)]
  <2> DEFINE r == Rest(s)
  <2>1. r \in SUBSET T /\ r \in SUBSET Coins /\ Solves(sol(r), r)
    BY <1>4, <1>5, <1>6
  <2>2. g[r] = at(r)
    BY <2>1
  <2>3. CASE r = {}
    BY <2>1, <2>2, <2>3, SolvesAt
  <2>4. CASE r # {}
    <3>1. Rest(r) \in SUBSET T /\ Rest(r) \in SUBSET Coins /\ Rest(r) \subseteq r
      BY <1>4, <2>1, <2>4
    <3>2. Solves(sol(Rest(r)), Rest(r))
      BY <1>4, <1>5, <2>1, <2>4
    <3>3. sol(r)[Rest(r)] = sol(Rest(r))[Rest(r)]
      <4> HIDE DEF sol, r
      <4> QED BY <2>1, <3>1, <3>2, SolutionsAgree
    <3>4. sol(r)[r] = Value[Pick(r)] + sol(r)[Rest(r)]
      <4> HIDE DEF sol, r
      <4> QED BY <2>1, <2>4, SolvesAt
    <3> QED BY <2>2, <2>4, <3>3, <3>4
  <2> QED BY <2>3, <2>4
<1>7. ASSUME NEW s \in SUBSET T
      PROVE  at(s) = IF s = {} THEN 0 ELSE Value[Pick(s)] + g[Rest(s)]
  <2>1. CASE s = {}
    BY <2>1
  <2>2. CASE s # {}
    <3>1. at(s) = Value[Pick(s)] + sol(Rest(s))[Rest(s)]
      BY <2>2
    <3> HIDE DEF at, g, sol
    <3> QED BY <1>6, <2>2, <3>1
  <2> QED BY <2>1, <2>2
<1>8. Solves(g, T)
  <2>1. [s \in SUBSET T |-> at(s)] =
          [s \in SUBSET T |-> IF s = {} THEN 0 ELSE Value[Pick(s)] + g[Rest(s)]]
    <3> HIDE DEF at, g
    <3> QED BY <1>7, Zenon
  <2> QED BY <2>1 DEF Solves
<1> QED BY <1>3, <1>8

LEMMA TotalRest ==
  ASSUME NEW S \in SUBSET Coins
  PROVE  Total(S) = IF S = {} THEN 0 ELSE Value[Pick(S)] + Total(Rest(S))
<1>1. ASSUME NEW T \in SUBSET Coins PROVE \E g : Solves(g, T) /\ Total(T) = g[T]
  <2>1. \E g : Solves(g, T)
    BY SolutionExists
  <2> QED BY <2>1 DEF Total, FoldFunctionOnSet, MapThenFoldSet, Solves, Pick, Rest
<1>2. PICK g : Solves(g, S) /\ Total(S) = g[S]
  BY <1>1
<1>3. Rest(S) \subseteq S
  BY DEF Rest
<1>4. PICK h : Solves(h, Rest(S)) /\ Total(Rest(S)) = h[Rest(S)]
  BY <1>1, <1>3
<1>5. g[Rest(S)] = h[Rest(S)]
  BY <1>2, <1>3, <1>4, SolutionsAgree
<1>6. g[S] = IF S = {} THEN 0 ELSE Value[Pick(S)] + g[Rest(S)]
  BY <1>2, SolvesAt
<1> QED BY <1>2, <1>4, <1>5, <1>6

LEMMA TotalIsNat == ASSUME NEW S \in SUBSET Coins PROVE Total(S) \in Nat
<1> DEFINE Bad == {T \in SUBSET Coins : Total(T) \notin Nat}
<1>1. SUFFICES ASSUME Bad # {} PROVE FALSE
  OBVIOUS
<1>2. Bad \in SUBSET SUBSET Coins
  OBVIOUS
<1>3. PICK T \in Bad : \A U \in Bad : U \subseteq T => U = T
  <2> HIDE DEF Bad
  <2> QED BY <1>1, <1>2, LeastSubset
<1>4. T # {}
  BY TotalRest
<1>5. Rest(T) \subseteq T /\ Rest(T) # T /\ Value[Pick(T)] \in Nat
  BY <1>4, PickIn, WalletAssumption DEF Rest
<1>6. Total(Rest(T)) \in Nat
  BY <1>3, <1>5
<1>7. Total(T) = Value[Pick(T)] + Total(Rest(T))
  BY <1>4, TotalRest
<1> QED BY <1>5, <1>6, <1>7

(* A sum does not depend on the order in which it is taken.                *)
LEMMA TotalWithout ==
  ASSUME NEW S \in SUBSET Coins, NEW c \in S
  PROVE  Total(S) = Value[c] + Total(S \ {c})
<1> DEFINE Bad == {T \in SUBSET Coins : \E d \in T : Total(T) # Value[d] + Total(T \ {d})}
<1>1. SUFFICES ASSUME Bad # {} PROVE FALSE
  OBVIOUS
<1>2. Bad \in SUBSET SUBSET Coins
  OBVIOUS
<1>3. PICK T \in Bad : \A U \in Bad : U \subseteq T => U = T
  <2> HIDE DEF Bad
  <2> QED BY <1>1, <1>2, LeastSubset
<1>4. PICK d \in T : Total(T) # Value[d] + Total(T \ {d})
  OBVIOUS
<1> DEFINE p == Pick(T)
           R == T \ {p, d}
<1>5. p \in T /\ Total(T) = Value[p] + Total(Rest(T)) /\ Rest(T) = T \ {p}
  BY PickIn, TotalRest DEF Rest
<1>6. p # d
  BY <1>4, <1>5
<1> HIDE DEF p
<1>7. Total(T \ {p}) = Value[d] + Total(R)
  <2>1. T \ {p} \notin Bad /\ d \in T \ {p}
    BY <1>3, <1>5, <1>6
  <2>2. (T \ {p}) \ {d} = R
    OBVIOUS
  <2> QED BY <2>1, <2>2
<1>8. Total(T \ {d}) = Value[p] + Total(R)
  <2>1. T \ {d} \notin Bad /\ p \in T \ {d}
    BY <1>3, <1>4, <1>5, <1>6
  <2>2. (T \ {d}) \ {p} = R
    OBVIOUS
  <2> QED BY <2>1, <2>2
<1>9. Value[p] \in Nat /\ Value[d] \in Nat /\ Total(R) \in Nat
  BY <1>4, <1>5, TotalIsNat, WalletAssumption
<1> QED BY <1>4, <1>5, <1>7, <1>8, <1>9

LEMMA TotalGrows ==
  ASSUME NEW T \in SUBSET Coins, NEW S \in SUBSET T
  PROVE  Total(S) <= Total(T)
<1> DEFINE Bad == {U \in SUBSET Coins : S \subseteq U /\ ~(Total(S) <= Total(U))}
<1>1. SUFFICES ASSUME Bad # {} PROVE FALSE
  OBVIOUS
<1>2. Bad \in SUBSET SUBSET Coins
  OBVIOUS
<1>3. PICK U \in Bad : \A V \in Bad : V \subseteq U => V = U
  <2> HIDE DEF Bad
  <2> QED BY <1>1, <1>2, LeastSubset
<1>4. Total(S) \in Nat /\ Total(U) \in Nat
  BY TotalIsNat
<1>5. PICK c \in U : c \notin S
  BY <1>4
<1>6. Total(S) <= Total(U \ {c})
  BY <1>3, <1>5
<1>7. Total(U) = Value[c] + Total(U \ {c})
  BY TotalWithout
<1>8. Value[c] \in Nat /\ Total(U \ {c}) \in Nat
  BY TotalIsNat, WalletAssumption
<1> QED BY <1>4, <1>6, <1>7, <1>8

LEMMA HasLargest ==
  ASSUME NEW S \in SUBSET Coins, S # {}
  PROVE  \E m \in S : \A c \in S : Value[c] <= Value[m]
<1> DEFINE Without == {T \in SUBSET Coins :
                        T # {} /\ ~ \E m \in T : \A c \in T : Value[c] <= Value[m]}
<1>1. SUFFICES ASSUME Without # {} PROVE FALSE
  OBVIOUS
<1>2. Without \in SUBSET SUBSET Coins
  OBVIOUS
<1>3. PICK T \in Without : \A U \in Without : U \subseteq T => U = T
  <2> HIDE DEF Without
  <2> QED BY <1>1, <1>2, LeastSubset
<1>4. PICK c \in T : TRUE
  OBVIOUS
<1>5. \A d \in T : Value[d] \in Nat
  BY WalletAssumption
<1>6. CASE T = {c}
  BY <1>4, <1>5, <1>6
<1>7. CASE T # {c}
  <2>1. T \ {c} \notin Without /\ T \ {c} \in SUBSET Coins /\ T \ {c} # {}
    BY <1>3, <1>4, <1>7
  <2>2. PICK m \in T \ {c} : \A d \in T \ {c} : Value[d] <= Value[m]
    BY <2>1
  <2> QED BY <1>3, <1>4, <1>5, <2>2
<1> QED BY <1>6, <1>7

(* What zswap_select_coins may answer: what is first in the order of       *)
(* values, until the amount is reached.                                    *)
LEMMA SelectionExists ==
  ASSUME NEW s, NEW a \in Nat, Available(s) \in SUBSET Coins, Total(Available(s)) >= a
  PROVE  Selections(s, a) # {}
<1> DEFINE A == Available(s)
           First(S) == S # {} /\ Total(S) >= a /\ \A c \in S, d \in A \ S : Value[c] <= Value[d]
           Covers == {S \in SUBSET A : First(S)}
<1>1. CASE A = {}
  BY <1>1 DEF Selections
<1>2. CASE A # {}
  <2>1. A \in Covers /\ Covers \in SUBSET SUBSET Coins
    BY <1>2
  <2>2. PICK S \in Covers : \A U \in Covers : U \subseteq S => U = S
    <3> HIDE DEF Covers
    <3> QED BY <2>1, LeastSubset
  <2>3. S \in SUBSET A /\ S \in SUBSET Coins /\ First(S)
    BY <2>1, <2>2
  <2>4. PICK m \in S : \A c \in S : Value[c] <= Value[m]
    BY <2>3, HasLargest
  <2>5. S = {m} \/ Total(S \ {m}) < a
    <3>1. SUFFICES ASSUME S # {m}, ~(Total(S \ {m}) < a) PROVE FALSE
      OBVIOUS
    <3>2. \A c \in S \ {m}, d \in A \ (S \ {m}) : Value[c] <= Value[d]
      BY <2>3, <2>4
    <3>3. Total(S \ {m}) >= a
      BY <2>3, <3>1, TotalIsNat
    <3>4. S \ {m} \in Covers
      BY <2>3, <3>1, <3>2, <3>3
    <3> QED BY <2>2, <2>4, <3>4
  <2>6. S \in Selections(s, a)
    BY <2>3, <2>4, <2>5 DEF Selections
  <2> QED BY <2>6
<1> QED BY <1>1, <1>2

LEMMA SelectionsCover ==
  ASSUME NEW s, NEW a \in Nat, Available(s) \in SUBSET Coins
  PROVE  /\ \A S \in Selections(s, a) : Total(S) >= a
         /\ Selections(s, a) = {} <=> Total(Available(s)) < a
<1>1. \A S \in Selections(s, a) : Total(S) >= a /\ S \in SUBSET Available(s)
  BY DEF Selections
<1>2. ASSUME NEW S \in Selections(s, a) PROVE Total(Available(s)) >= a
  <2>1. Total(S) <= Total(Available(s)) /\ Total(S) >= a
    BY <1>1, TotalGrows
  <2> QED BY <1>1, <2>1, TotalIsNat
<1>3. Total(Available(s)) \in Nat
  BY TotalIsNat
<1> QED BY <1>1, <1>2, <1>3, SelectionExists

(* The balance shown can be spent: selecting (zswap_select_coins) fails    *)
(* only for more than there is, or while a spend is pending.               *)
THEOREM BalanceCanBeSelected == Spec => []SelectsWhatIsThere
<1>1. SelectsWhatIsThere
  <2>1. Available(cur) \in SUBSET Coins
    BY DEF Available, Tracked
  <2>2. cur.pending = {} => Available(cur) = Tracked(cur.pos)
    BY DEF Available
  <2>3. SUFFICES ASSUME NEW a \in Amounts
                 PROVE  /\ Selections(cur, a) = {} <=> Total(Available(cur)) < a
                        /\ Selections(cur, a) = {} /\ a <= Balance(cur) => cur.pending # {}
    BY DEF SelectsWhatIsThere
  <2>4. a \in Nat /\ Total(Available(cur)) \in Nat
    BY <2>1, TotalIsNat, WalletAssumption
  <2>5. Selections(cur, a) = {} <=> Total(Available(cur)) < a
    BY <2>1, <2>4, SelectionsCover
  <2> QED BY <2>2, <2>4, <2>5 DEF Balance
<1> QED BY <1>1, PTL
=============================================================================
