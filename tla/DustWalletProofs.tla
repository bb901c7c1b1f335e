-------------------------- MODULE DustWalletProofs --------------------------
(***************************************************************************)
(* For any number of coins: what a caller must wait for before it prunes   *)
(* its skip set, by the ways marks are lost, so that no coin pays twice;   *)
(* and that such a wallet implements SpendOnce.                            *)
(***************************************************************************)
EXTENDS DustWallet, TLAPS

(* Only coins whose nullifier the node has seen are gone.                  *)
GoneIsSpent == \A c \in Coins : gone[c] > 0 => c \in spent

LedgerInv == TypeOK /\ GoneIsSpent

LEMMA DustInit == ASSUME Init PROVE LedgerInv
  BY ParametersAssumption DEF Init, LedgerInv, TypeOK, GoneIsSpent, States

(* The next-state relation keeps the types, and a coin is gone only when   *)
(* the node has taken its spend.                                           *)
LEMMA LedgerStep == ASSUME LedgerInv, [Next]_vars PROVE LedgerInv'
<1> USE ParametersAssumption
<1> USE DEF LedgerInv, TypeOK, GoneIsSpent, States, chain
<1>1. ASSUME NEW c \in Coins, Mint(c) PROVE LedgerInv'
  BY <1>1 DEF Mint, Unborn
<1>2. ASSUME NEW c \in Coins, NEW s \in Coins \cup {NoCoin}, Accept(c, s) PROVE LedgerInv'
  <2>1. CASE height' = height + 1
    BY <1>2, <2>1 DEF Accept
  <2>2. CASE UNCHANGED <<height, gone, born>>
    BY <1>2, <2>2 DEF Accept
  <2> QED BY <1>2, <2>1, <2>2 DEF Accept
<1>3. ASSUME NEW c \in Coins, Lose(c) PROVE LedgerInv'
  BY <1>3 DEF Lose
<1>4. ASSUME NEW c \in Coins, Balance(c) PROVE LedgerInv'
  BY <1>4 DEF Balance, Candidates, Selectable
<1>5. ASSUME Record PROVE LedgerInv'
  BY <1>5 DEF Record
<1>6. ASSUME NEW c \in Coins, SerializeWithDust(c) PROVE LedgerInv'
  BY <1>6 DEF SerializeWithDust
<1>7. ASSUME NEW c \in Coins, SendShielded(c) PROVE LedgerInv'
  BY <1>7 DEF SendShielded, BuildShielded, Candidates, Selectable
<1>8. ASSUME NEW p \in 1..height, Replay(p) PROVE LedgerInv'
  BY <1>8 DEF Replay
<1>9. ASSUME NEW c \in Coins, MarkLapses(c) PROVE LedgerInv'
  BY <1>9 DEF MarkLapses
<1>10. ASSUME Save PROVE LedgerInv'
  BY <1>10 DEF Save
<1>11. ASSUME Crash PROVE LedgerInv'
  BY <1>11 DEF Crash
<1>12. ASSUME Prune PROVE LedgerInv'
  BY <1>12 DEF Prune
<1>13. ASSUME UNCHANGED vars PROVE LedgerInv'
  BY <1>13 DEF vars
<1> QED BY <1>1, <1>2, <1>3, <1>4, <1>5, <1>6, <1>7, <1>8, <1>9, <1>10, <1>11, <1>12, <1>13 DEF Next

(* The wallet's state, its checkpoint and its skip set keep their types,   *)
(* whichever ways it spends and whatever its caller waits for.             *)
THEOREM DustTypeCorrect == Spec => []TypeOK
<1>1. LedgerInv => TypeOK
  BY DEF LedgerInv
<1> QED BY <1>1, DustInit, LedgerStep, PTL DEF Spec

(* A spend that the state and the checkpoint have both replayed stays      *)
(* replayed through replays, saves and crashes.                            *)
LEMMA SettledStep ==
  ASSUME LedgerInv, [Next]_vars, NEW c \in Coins, Settled(c)
  PROVE  Settled(c)' /\ c \notin Selectable(dust)'
<1> USE DEF LedgerInv, TypeOK, GoneIsSpent, States
<1>1. gone'[c] = gone[c]
  <2>1. ASSUME NEW x \in Coins, NEW s \in Coins \cup {NoCoin}, Accept(x, s)
        PROVE gone'[c] = gone[c]
    BY <2>1 DEF Accept, Settled
  <2> QED BY <2>1 DEF Next, vars, chain, Mint, Lose, Balance, Record, SerializeWithDust,
             SendShielded, BuildShielded, Replay, MarkLapses, Save, Crash, Prune
<1>2. gone[c] \in 1..dust'.pos /\ gone[c] \in 1..disk'.pos
  BY DEF Settled, Next, vars, chain, Mint, Accept, Lose, Balance, Record,
         SerializeWithDust, SendShielded, BuildShielded, Replay, MarkLapses, Save, Crash, Prune
<1>3. c \notin Selectable(dust)'
  BY <1>1, <1>2 DEF Selectable, Tracked
<1> QED BY <1>1, <1>2, <1>3 DEF Settled

THEOREM SettledCoinsStaySpent == Spec => SettledStaysSpent
<1>1. LedgerInv /\ [Next]_vars =>
        [\A c \in Coins : Settled(c) => Settled(c)' /\ c \notin Selectable(dust)']_vars
  BY SettledStep
<1> QED BY <1>1, DustInit, LedgerStep, PTL DEF Spec, SettledStaysSpent

-----------------------------------------------------------------------------
(* The skip set.  A wallet that balances and sends shielded coins never    *)
(* spends a coin twice when its caller waits, before it prunes, for what   *)
(* the ways to lose a mark call for, whatever the stream leaves out:       *)
(* nothing when marks are never lost, a state free of marks when they      *)
(* lapse, a state that is saved and synced when it may crash.              *)

(* Coins that are recorded, returned or marked are coins of the chain, and *)
(* of the state's part of it unless a crash has taken the state back.      *)
BornInv ==
    /\ LedgerInv
    /\ \A c \in skip \cup dust.pending \cup disk.pending : born[c] > 0
    /\ ret # NoCoin => born[ret] > 0
    /\ "crash" \notin Forgets =>
          /\ \A c \in skip : born[c] <= dust.pos
          /\ ret # NoCoin => born[ret] <= dust.pos
    /\ disk.pos <= dust.pos
    /\ \A c \in dust.pending : born[c] <= dust.pos
    /\ \A c \in disk.pending : born[c] <= disk.pos

LEMMA BornInit == ASSUME Init PROVE BornInv
  BY DustInit, ParametersAssumption DEF Init, BornInv

LEMMA BornStep == ASSUME BornInv, [Next]_vars PROVE BornInv'
<1>0. LedgerInv'
  BY LedgerStep DEF BornInv
<1> USE <1>0, ParametersAssumption
<1> USE DEF BornInv, LedgerInv, TypeOK, States, chain
<1>1. ASSUME NEW x \in Coins, Mint(x) PROVE BornInv'
  BY <1>1 DEF Mint, Unborn
<1>2. ASSUME NEW x \in Coins, NEW s \in Coins \cup {NoCoin}, Accept(x, s) PROVE BornInv'
  <2>1. UNCHANGED <<dust, disk, skip, ret>>
    BY <1>2 DEF Accept
  <2>2. \A c \in Coins : born[c] > 0 => born'[c] = born[c]
    BY <1>2 DEF Accept, Unborn
  <2> QED BY <2>1, <2>2
<1>3. ASSUME NEW x \in Coins, Lose(x) PROVE BornInv'
  BY <1>3 DEF Lose
<1>4. ASSUME NEW x \in Coins, Balance(x) PROVE BornInv'
  BY <1>4 DEF Balance, Candidates, Selectable, Tracked
<1>5. ASSUME Record PROVE BornInv'
  BY <1>5 DEF Record
<1>6. ASSUME NEW x \in Coins, SerializeWithDust(x) PROVE BornInv'
  BY <1>6 DEF SerializeWithDust, Selectable, Tracked
<1>7. ASSUME NEW x \in Coins, SendShielded(x) PROVE BornInv'
  BY <1>7 DEF SendShielded, BuildShielded, Candidates, Selectable, Tracked
<1>8. ASSUME NEW p \in 1..height, Replay(p) PROVE BornInv'
  BY <1>8 DEF Replay
<1>9. ASSUME NEW x \in Coins, MarkLapses(x) PROVE BornInv'
  BY <1>9 DEF MarkLapses
<1>10. ASSUME Save PROVE BornInv'
  BY <1>10 DEF Save
<1>11. ASSUME Crash PROVE BornInv'
  BY <1>11 DEF Crash
<1>12. ASSUME Prune PROVE BornInv'
  BY <1>12 DEF Prune
<1>13. ASSUME UNCHANGED vars PROVE BornInv'
  BY <1>13 DEF vars
<1> QED BY <1>1, <1>2, <1>3, <1>4, <1>5, <1>6, <1>7, <1>8, <1>9, <1>10, <1>11, <1>12, <1>13 DEF Next

(* A caller that waits until no mark hides a coin and, where a crash may   *)
(* take the state back, until it is synced again drops only confirmed      *)
(* spends, whichever ways the wallet spends.                               *)
ListsEveryCoin ==
    /\ "unmarked" \in PruneWhen
    /\ "crash" \in Forgets => "synced" \in PruneWhen

THEOREM PruneDropsConfirmedSpends ==
  ASSUME ListsEveryCoin PROVE Spec => PruneOnlyConfirmed
<1>1. BornInv /\ [Next]_vars => [\A c \in skip \ skip' : gone[c] \in 1..dust.pos]_vars
  <2> SUFFICES ASSUME BornInv, Next, NEW c \in skip \ skip' PROVE gone[c] \in 1..dust.pos
    OBVIOUS
  <2> USE DEF BornInv, LedgerInv, TypeOK, States
  <2>1. Prune
    BY DEF Next, chain, Mint, Accept, Lose, Balance, Record, SerializeWithDust,
           SendShielded, BuildShielded, Replay, MarkLapses, Save, Crash
  <2>2. dust.pending = {} /\ ("crash" \in Forgets => dust.pos = height)
    BY <2>1 DEF Prune, MayPrune, ListsEveryCoin
  <2>3. c \in Coins /\ c \notin Tracked(dust.pos)
    BY <2>1, <2>2 DEF Prune, Selectable
  <2>4. born[c] \in 1..dust.pos
    BY <2>2, <2>3
  <2> QED BY <2>3, <2>4 DEF Tracked
<1> QED BY <1>1, BornInit, BornStep, PTL DEF Spec, PruneOnlyConfirmed

(* A state in which c is gone, or marked for good, does not list it.       *)
Hidden(c, d) ==
    \/ gone[c] \in 1..d.pos
    \/ "lapse" \notin Forgets /\ c \in d.pending

(* What the wallet may have spent is in the skip set, or hidden by the     *)
(* state and by the checkpoint a crash falls back to.                      *)
Covered(c) ==
    \/ c \in skip
    \/ Hidden(c, dust) /\ ("crash" \in Forgets => Hidden(c, disk))

SkipInv ==
    /\ BornInv
    /\ \A c \in Coins : built[c] > 0 \/ c \in spent => Covered(c)
    /\ ret # NoCoin => built[ret] = 0 /\ ret \notin spent
    /\ NeverDoubleSpent

Careful ==
    /\ Paths \subseteq {"balance", "shielded"}
    /\ "lapse" \in Forgets => "unmarked" \in PruneWhen
    /\ "crash" \in Forgets => "saved" \in PruneWhen /\ "synced" \in PruneWhen

(* A coin leaves the skip set only when it stays hidden.                   *)
LEMMA PruneIsSafe ==
  ASSUME Careful, BornInv, Prune, NEW c \in skip \ skip'
  PROVE  Hidden(c, dust) /\ ("crash" \in Forgets => Hidden(c, disk))
<1> USE DEF Careful, BornInv, LedgerInv, TypeOK, States
<1>1. "crash" \in Forgets => disk = dust /\ dust.pos = height
  BY DEF Prune, MayPrune
<1>2. c \in Coins /\ born[c] \in 1..dust.pos
  BY <1>1
<1>3. c \notin Tracked(dust.pos) \/ c \in dust.pending
  BY <1>2 DEF Prune, Selectable
<1>4. c \in dust.pending => "lapse" \notin Forgets
  BY DEF Prune, MayPrune
<1>5. Hidden(c, dust)
  BY <1>2, <1>3, <1>4 DEF Tracked, Hidden
<1> QED BY <1>1, <1>5

LEMMA SkipInit == ASSUME Init PROVE SkipInv
  BY BornInit, ParametersAssumption DEF Init, SkipInv, NeverDoubleSpent

LEMMA SkipStep == ASSUME Careful, SkipInv, [Next]_vars PROVE SkipInv'
<1>0. BornInv'
  BY BornStep DEF SkipInv
<1> USE <1>0, ParametersAssumption
<1> USE DEF SkipInv, BornInv, LedgerInv, TypeOK, GoneIsSpent, States, Covered, Hidden,
        NeverDoubleSpent, chain
<1>1. ASSUME NEW x \in Coins, Mint(x) PROVE SkipInv'
  BY <1>1 DEF Mint, Unborn
<1>2. ASSUME NEW x \in Coins, NEW s \in Coins \cup {NoCoin}, Accept(x, s) PROVE SkipInv'
  <2>1. gone[x] = 0 /\ built[x] = 1 /\ ret # x
    BY <1>2 DEF Accept
  <2>2. \A c \in Coins : c # x => gone'[c] = gone[c] /\ built'[c] = built[c] /\ (c \in spent' <=> c \in spent)
    BY <1>2 DEF Accept
  <2>3. built'[x] = 0 /\ x \in spent'
    BY <1>2, <2>1 DEF Accept
  <2>4. UNCHANGED <<dust, disk, skip, ret>>
    BY <1>2 DEF Accept
  <2>5. Covered(x)'
    BY <1>2, <2>1, <2>4 DEF Accept
  <2>6. \A c \in Coins : built'[c] > 0 \/ c \in spent' => Covered(c)'
    BY <2>2, <2>4, <2>5
  <2>7. NeverDoubleSpent'
    BY <2>2, <2>3
  <2>8. ret' # NoCoin => built'[ret'] = 0 /\ ret' \notin spent'
    BY <2>1, <2>2, <2>4
  <2> QED BY <2>6, <2>7, <2>8
<1>3. ASSUME NEW x \in Coins, Lose(x) PROVE SkipInv'
  BY <1>3 DEF Lose
<1>4. ASSUME NEW x \in Coins, x \in Candidates PROVE built[x] = 0 /\ x \notin spent
  BY <1>4 DEF Candidates, Selectable, Tracked
<1>5. ASSUME NEW x \in Coins, Balance(x) PROVE SkipInv'
  BY <1>4, <1>5 DEF Balance
<1>6. ASSUME Record PROVE SkipInv'
  BY <1>6 DEF Record
<1>7. ASSUME NEW p \in 1..height, Replay(p) PROVE SkipInv'
  <2>1. UNCHANGED <<chain, spent, built, disk, skip, ret>>
    BY <1>7 DEF Replay
  <2>2. \A c \in Coins : Hidden(c, dust) => Hidden(c, dust)'
    BY <1>7 DEF Replay, Tracked
  <2>3. \A c \in Coins : Covered(c) => Covered(c)'
    BY <2>1, <2>2
  <2> QED BY <2>1, <2>3
<1>8. ASSUME NEW x \in Coins, MarkLapses(x) PROVE SkipInv'
  BY <1>8 DEF MarkLapses
<1>9. ASSUME Save PROVE SkipInv'
  BY <1>9 DEF Save
<1>10. ASSUME Crash PROVE SkipInv'
  BY <1>10 DEF Crash
<1>11. ASSUME Prune PROVE SkipInv'
  <2>1. UNCHANGED <<chain, spent, built, dust, disk, ret>> /\ skip' \subseteq skip
    BY <1>11 DEF Prune
  <2>2. \A c \in Coins : Covered(c) => Covered(c)'
    BY <1>11, <2>1, PruneIsSafe
  <2> QED BY <2>1, <2>2
<1>12. ASSUME NEW x \in Coins, SerializeWithDust(x) PROVE SkipInv'
  BY <1>12 DEF SerializeWithDust, Careful
<1>13. ASSUME NEW x \in Coins, SendShielded(x) PROVE SkipInv'
  BY <1>4, <1>13 DEF SendShielded, BuildShielded
<1>14. ASSUME UNCHANGED vars PROVE SkipInv'
  BY <1>14 DEF vars
<1> QED BY <1>1, <1>2, <1>3, <1>5, <1>6, <1>7, <1>8, <1>9, <1>10, <1>11, <1>12, <1>13, <1>14 DEF Next

(* The skip set keeps such a wallet from error 115.                        *)
THEOREM SkipSetPreventsDoubleSpends ==
  ASSUME Careful PROVE Spec => []NeverDoubleSpent
<1>1. SkipInv => NeverDoubleSpent
  BY DEF SkipInv
<1>2. Init => SkipInv
  BY SkipInit
<1>3. SkipInv /\ [Next]_vars => SkipInv'
  BY SkipStep
<1> QED BY <1>1, <1>2, <1>3, PTL DEF Spec

-----------------------------------------------------------------------------
(* The marks.  As long as no mark is lost, they alone keep the balancer    *)
(* and serialize_unshielded_transaction_with_dust from spending a coin     *)
(* twice, whatever the caller does with its skip set.                      *)
Held(c) == c \in dust.pending \/ gone[c] \in 1..dust.pos

MarkInv ==
    /\ LedgerInv
    /\ \A c \in dust.pending : born[c] \in 1..dust.pos
    /\ \A c \in Coins : built[c] > 0 \/ c \in spent => Held(c)
    /\ ret # NoCoin => ret \in dust.pending /\ built[ret] = 0 /\ ret \notin spent
    /\ NeverDoubleSpent

OneSession == Forgets = {} /\ "shielded" \notin Paths

LEMMA MarkInit == ASSUME Init PROVE MarkInv
  BY DustInit, ParametersAssumption DEF Init, MarkInv, NeverDoubleSpent

LEMMA MarkStep == ASSUME OneSession, MarkInv, [Next]_vars PROVE MarkInv'
<1>0. LedgerInv'
  BY LedgerStep DEF MarkInv
<1> USE <1>0, ParametersAssumption
<1> USE DEF MarkInv, LedgerInv, TypeOK, GoneIsSpent, States, Held, NeverDoubleSpent, chain
<1>1. ASSUME NEW x \in Coins, Mint(x) PROVE MarkInv'
  BY <1>1 DEF Mint, Unborn
<1>2. ASSUME NEW x \in Coins, NEW s \in Coins \cup {NoCoin}, Accept(x, s) PROVE MarkInv'
  <2>1. gone[x] = 0 /\ x \in dust.pending /\ built[x] = 1 /\ ret # x
    BY <1>2 DEF Accept
  <2>2. \A c \in Coins : c # x => gone'[c] = gone[c] /\ built'[c] = built[c] /\ (c \in spent' <=> c \in spent)
    BY <1>2 DEF Accept
  <2>3. built'[x] = 0 /\ x \in spent' /\ UNCHANGED <<dust, disk, skip, ret>>
    BY <1>2, <2>1 DEF Accept
  <2>4. \A c \in Coins : born[c] > 0 => born'[c] = born[c]
    BY <1>2 DEF Accept, Unborn
  <2>5. \A c \in Coins : built'[c] > 0 \/ c \in spent' => Held(c)'
    BY <2>1, <2>2, <2>3
  <2>6. NeverDoubleSpent'
    BY <2>2, <2>3
  <2>7. ret' # NoCoin => ret' \in dust'.pending /\ built'[ret'] = 0 /\ ret' \notin spent'
    BY <2>1, <2>2, <2>3
  <2> QED BY <2>3, <2>4, <2>5, <2>6, <2>7
<1>3. ASSUME NEW x \in Coins, Lose(x) PROVE MarkInv'
  BY <1>3 DEF Lose
<1>4. ASSUME NEW x \in Coins, Balance(x) PROVE MarkInv'
  <2>1. x \notin dust.pending /\ gone[x] \notin 1..dust.pos /\ born[x] \in 1..dust.pos
    BY <1>4 DEF Balance, Candidates, Selectable, Tracked
  <2>2. built[x] = 0 /\ x \notin spent
    BY <2>1
  <2> QED BY <1>4, <2>1, <2>2 DEF Balance
<1>5. ASSUME Record PROVE MarkInv'
  BY <1>5 DEF Record
<1>6. ASSUME NEW p \in 1..height, Replay(p) PROVE MarkInv'
  BY <1>6 DEF Replay, Tracked
<1>7. ASSUME NEW x \in Coins, MarkLapses(x) PROVE MarkInv'
  BY <1>7 DEF MarkLapses, OneSession
<1>8. ASSUME Save \/ Prune PROVE MarkInv'
  BY <1>8 DEF Save, Prune
<1>9. ASSUME Crash PROVE MarkInv'
  BY <1>9 DEF Crash, OneSession
<1>10. ASSUME NEW x \in Coins, SerializeWithDust(x) PROVE MarkInv'
  <2>1. x \notin dust.pending /\ gone[x] \notin 1..dust.pos /\ born[x] \in 1..dust.pos
    BY <1>10 DEF SerializeWithDust, Selectable, Tracked
  <2>2. built[x] = 0 /\ x \notin spent /\ ret # x
    BY <2>1
  <2> QED BY <1>10, <2>1, <2>2 DEF SerializeWithDust
<1>11. ASSUME NEW x \in Coins, SendShielded(x) PROVE MarkInv'
  BY <1>11 DEF SendShielded, BuildShielded, OneSession
<1>12. ASSUME UNCHANGED vars PROVE MarkInv'
  BY <1>12 DEF vars
<1> QED BY <1>1, <1>2, <1>3, <1>4, <1>5, <1>6, <1>7, <1>8, <1>9, <1>10, <1>11, <1>12 DEF Next

(* The marks keep one session of the wallet from error 115.                *)
THEOREM MarksPreventDoubleSpends ==
  ASSUME OneSession PROVE Spec => []NeverDoubleSpent
<1>1. MarkInv => NeverDoubleSpent
  BY DEF MarkInv
<1>2. Init => MarkInv
  BY MarkInit
<1>3. MarkInv /\ [Next]_vars => MarkInv'
  BY MarkStep
<1> QED BY <1>1, <1>2, <1>3, PTL DEF Spec

-----------------------------------------------------------------------------
(* A wallet that never spends a coin twice implements SpendOnce.           *)

Out == {{c} : c \in {x \in Coins : built[x] > 0}}

(* One more, or one less, transaction that spends c.                       *)
LEMMA OutGains ==
  ASSUME LedgerInv, NeverDoubleSpent', NEW c \in Coins,
         built' = [built EXCEPT ![c] = @ + 1], spent' = spent
  PROVE  Spending!Send({c})
<1> USE DEF LedgerInv, TypeOK
<1>1. built[c] = 0 /\ built'[c] = 1 /\ c \notin spent
  BY DEF NeverDoubleSpent
<1>2. \A x \in Coins : x # c => built'[x] = built[x]
  OBVIOUS
<1>3. Out' = Out \cup {{c}}
  <2>1. \A x \in Coins : built'[x] > 0 <=> built[x] > 0 \/ x = c
    BY <1>1, <1>2
  <2> QED BY <2>1 DEF Out
<1>4. {c} \cap ((UNION Out) \cup spent) = {}
  BY <1>1 DEF Out
<1> QED BY <1>3, <1>4 DEF Out, Spending!Send, Spending!Taken

LEMMA OutLoses ==
  ASSUME LedgerInv, NeverDoubleSpent, NEW c \in Coins, built[c] > 0,
         built' = [built EXCEPT ![c] = @ - 1]
  PROVE  {c} \in Out /\ Out' = Out \ {{c}}
<1> USE DEF LedgerInv, TypeOK
<1>1. built[c] = 1 /\ built'[c] = 0
  BY DEF NeverDoubleSpent
<1>2. \A x \in Coins : x # c => built'[x] = built[x]
  OBVIOUS
<1>3. \A x \in Coins : built'[x] > 0 <=> built[x] > 0 /\ x # c
  BY <1>1, <1>2
<1> QED BY <1>3 DEF Out

LEMMA SpendingStep ==
  ASSUME LedgerInv, NeverDoubleSpent, NeverDoubleSpent', [Next]_vars
  PROVE  [Spending!Next]_(Spending!vars)
<1>1. ASSUME UNCHANGED <<built, spent>> PROVE UNCHANGED Spending!vars
  BY <1>1 DEF Spending!vars
<1>2. ASSUME NEW c \in Coins, built' = [built EXCEPT ![c] = @ + 1], spent' = spent
      PROVE  Spending!Next
  BY <1>2, OutGains DEF Spending!Next
<1>3. ASSUME NEW c \in Coins, NEW s \in Coins \cup {NoCoin}, Accept(c, s)
      PROVE  Spending!Next
  <2>1. {c} \in Out /\ Out' = Out \ {{c}}
    BY <1>3, OutLoses DEF Accept
  <2>2. spent' = spent \cup {c}
    BY <1>3 DEF Accept
  <2>3. Spending!Settle({c})
    BY <2>1, <2>2 DEF Out, Spending!Settle
  <2> QED BY <2>3 DEF Spending!Next
<1>4. ASSUME NEW c \in Coins, Lose(c) PROVE Spending!Next
  <2>1. {c} \in Out /\ Out' = Out \ {{c}}
    BY <1>4, OutLoses DEF Lose
  <2>2. spent' = spent
    BY <1>4 DEF Lose
  <2>3. Spending!Lose({c})
    BY <2>1, <2>2 DEF Out, Spending!Lose
  <2> QED BY <2>3 DEF Spending!Next
<1>5. ASSUME Record PROVE \E c \in Coins : built' = [built EXCEPT ![c] = @ + 1] /\ spent' = spent
  BY <1>5 DEF Record, LedgerInv, TypeOK
<1>6. ASSUME NEW c \in Coins, SerializeWithDust(c) \/ SendShielded(c)
      PROVE  built' = [built EXCEPT ![c] = @ + 1] /\ spent' = spent
  BY <1>6 DEF SerializeWithDust, SendShielded, BuildShielded
<1>7. ASSUME \/ \E c \in Coins : Mint(c) \/ Balance(c) \/ MarkLapses(c)
             \/ (\E p \in 1..height : Replay(p)) \/ Save \/ Crash \/ Prune
             \/ UNCHANGED vars
      PROVE  UNCHANGED <<built, spent>>
  BY <1>7 DEF Mint, Balance, MarkLapses, Replay, Save, Crash, Prune, vars
<1> QED BY <1>1, <1>2, <1>3, <1>4, <1>5, <1>6, <1>7 DEF Next

LEMMA SpendingInit == ASSUME Init PROVE Spending!Init
  BY DEF Init, Spending!Init

(* What the skip set and a careful caller come to at the node: every coin  *)
(* pays once.                                                              *)
THEOREM CarefulWalletSpendsOnce == ASSUME Careful PROVE Spec => ImplementsSpendOnce
<1>1. SkipInv => LedgerInv /\ NeverDoubleSpent
  BY DEF SkipInv, BornInv
<1>2. Init => SkipInv /\ Spending!Init
  BY SkipInit, SpendingInit
<1>3. SkipInv /\ [Next]_vars => SkipInv'
  BY SkipStep
<1>4. LedgerInv /\ NeverDoubleSpent /\ NeverDoubleSpent' /\ [Next]_vars =>
        [Spending!Next]_(Spending!vars)
  BY SpendingStep
<1> QED BY <1>1, <1>2, <1>3, <1>4, PTL DEF Spec, ImplementsSpendOnce, Spending!Spec

(* What the marks come to while none is lost.                              *)
THEOREM OneSessionSpendsOnce == ASSUME OneSession PROVE Spec => ImplementsSpendOnce
<1>1. MarkInv => LedgerInv /\ NeverDoubleSpent
  BY DEF MarkInv
<1>2. Init => MarkInv /\ Spending!Init
  BY MarkInit, SpendingInit
<1>3. MarkInv /\ [Next]_vars => MarkInv'
  BY MarkStep
<1>4. LedgerInv /\ NeverDoubleSpent /\ NeverDoubleSpent' /\ [Next]_vars =>
        [Spending!Next]_(Spending!vars)
  BY SpendingStep
<1> QED BY <1>1, <1>2, <1>3, <1>4, PTL DEF Spec, ImplementsSpendOnce, Spending!Spec
=============================================================================
