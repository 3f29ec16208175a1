---------------------------- MODULE PeopleProofs ----------------------------
(* What holds of people, for any names, keys, players, clients, residents,  *)
(* scenes, days and periods: a hungry player is paced and an idling worker *)
(* stays counted (Hunger, WorkerPool); a name is one player (Identities);  *)
(* progress counts days (Residents): the days of the run are bounded,      *)
(* these not.                                                              *)
EXTENDS Hunger, WorkerPool, Identities, Residents, FiniteSetTheorems, TLAPS

---------------------------------------------------------------------------
(* Hunger *)

HungerInv == HungerTypeOK /\ HungryWorkIsPaced

Recording(d) == {m \in MouthsOf(d) : At(m, "record")}

(* What a player has done and is about to do, and what it may do. *)
Work(d)  == points[d] + Cardinality(Recording(d))
Bound(d) == Threshold + Cardinality(MouthsOf(d)) + cooled[d] + (IF cooling[d] THEN 1 ELSE 0)

(* The connections of a player are finitely many, and so are those about   *)
(* to record.                                                              *)
LEMMA MouthsFinite ==
  ASSUME NEW d \in Diners
  PROVE  /\ IsFiniteSet(MouthsOf(d)) /\ Cardinality(MouthsOf(d)) \in Nat
         /\ IsFiniteSet(Recording(d)) /\ Cardinality(Recording(d)) \in Nat
         /\ Cardinality(Recording(d)) <= Cardinality(MouthsOf(d))
<1>1. IsFiniteSet(MouthsOf(d))
  BY HungerAssumption, FS_Subset DEF HungerAssumption, MouthsOf
<1>2. Recording(d) \in SUBSET MouthsOf(d)
  BY DEF Recording
<1> QED
  BY <1>1, <1>2, FS_Subset, FS_CardinalityType

(* The pace of hungry work, in terms of Work and Bound. *)
LEMMA PacedAsWork == HungryWorkIsPaced <=> \A d \in Diners : Work(d) < Bound(d)
BY DEF HungryWorkIsPaced, Work, Bound, Recording

(* What the type invariant says of one player. *)
LEMMA Typed ==
  ASSUME HungerTypeOK, NEW d \in Diners
  PROVE  /\ points[d] \in Nat /\ points[d] <= MaxHunger /\ cooled[d] \in Nat
         /\ cooling[d] \in BOOLEAN /\ Threshold \in Nat /\ Threshold > 0
BY HungerAssumption DEF HungerAssumption, HungerTypeOK

(* Players begin fed, with nothing recorded. *)
LEMMA HungerInvInit == HungerInit => HungerInv
<1> SUFFICES ASSUME HungerInit PROVE HungerInv
  OBVIOUS
<1>1. HungerTypeOK
  BY HungerAssumption DEF HungerInit, HungerTypeOK, HungerAssumption, HungerCommandProfile
<1>2. ASSUME NEW d \in Diners PROVE Work(d) < Bound(d)
  <2>1. Recording(d) = {} /\ points[d] = 0 /\ cooled[d] = 0 /\ ~cooling[d]
    BY DEF HungerInit, Recording, At, MouthsOf
  <2>2. Cardinality(Recording(d)) = 0
    BY <2>1, FS_EmptySet
  <2> QED
    BY <2>1, <2>2, <1>1, MouthsFinite, Typed DEF Work, Bound
<1> QED
  BY <1>1, <1>2, PacedAsWork DEF HungerInv

(* Steps of the other parts of the town leave hunger alone. *)
LEMMA HungerUnchanged == HungerInv /\ UNCHANGED hungerVars => HungerInv'
BY DEF HungerInv, HungerTypeOK, HungryWorkIsPaced, hungerVars, At, MouthsOf

---------------------------------------------------------------------------
(* A connection goes on to another statement. *)

(* How the number of those about to record changes when a connection goes  *)
(* on.                                                                     *)
LEMMA CountsMove ==
  ASSUME HungerTypeOK, NEW m \in Mouths, NEW g, Goto(m, g), NEW d \in Diners
  PROVE  Cardinality(Recording(d))' =
           IF DinerOf[m] = d /\ g = "record" /\ gate[m] # "record"
             THEN Cardinality(Recording(d)) + 1
             ELSE IF DinerOf[m] = d /\ g # "record" /\ gate[m] = "record"
                    THEN Cardinality(Recording(d)) - 1
                    ELSE Cardinality(Recording(d))
<1>1. gate' = [gate EXCEPT ![m] = g] /\ gate \in [Mouths -> {"idle", "read", "balance", "allowance", "record"}]
  BY DEF Goto, HungerTypeOK
<1>2. CASE DinerOf[m] = d /\ g = "record" /\ gate[m] # "record"
  <2>1. Recording(d)' = Recording(d) \cup {m} /\ m \notin Recording(d)
    BY <1>1, <1>2 DEF Recording, At, MouthsOf
  <2> QED
    BY <2>1, <1>2, MouthsFinite, FS_AddElement
<1>3. CASE DinerOf[m] = d /\ g # "record" /\ gate[m] = "record"
  <2>1. Recording(d)' = Recording(d) \ {m} /\ m \in Recording(d)
    BY <1>1, <1>3 DEF Recording, At, MouthsOf
  <2> QED
    BY <2>1, <1>3, MouthsFinite, FS_RemoveElement
<1>4. CASE ~(DinerOf[m] = d /\ (g = "record" <=> gate[m] # "record"))
  <2>1. Recording(d)' = Recording(d)
    BY <1>1, <1>4 DEF Recording, At, MouthsOf
  <2> QED
    BY <2>1, <1>4
<1> QED
  BY <1>2, <1>3, <1>4

(* No step to "record": the player does no more. *)
LEMMA QuietStepKeeps ==
  ASSUME HungerInv, NEW m \in Mouths, NEW g \in {"idle", "read", "balance", "allowance"},
         Goto(m, g), UNCHANGED <<points, cooling, cooled>>, rich' = rich
  PROVE  HungerInv'
<1>1. HungerTypeOK'
  BY DEF HungerInv, HungerTypeOK, Goto
<1>2. ASSUME NEW d \in Diners PROVE (Work(d) < Bound(d))'
  <2>1. Work(d) < Bound(d) /\ HungerTypeOK
    BY PacedAsWork DEF HungerInv
  <2>2. Cardinality(Recording(d))' \in {Cardinality(Recording(d)), Cardinality(Recording(d)) - 1}
    BY <2>1, CountsMove
  <2>3. Bound(d)' = Bound(d)
    BY DEF Bound, MouthsOf
  <2>4. /\ Work(d)' = points[d] + Cardinality(Recording(d))'
        /\ Work(d) = points[d] + Cardinality(Recording(d)) /\ Bound(d) \in Nat
    BY <2>1, MouthsFinite, Typed DEF Work, Bound
  <2> QED
    BY <2>1, <2>2, <2>3, <2>4, MouthsFinite, Typed
<1> QED
  BY <1>1, <1>2 DEF HungerInv, HungryWorkIsPaced, Work, Bound, Recording

(* The balance came back short, or the cooldown has begun. *)
LEMMA CheckKeeps ==
  ASSUME HungerInv, NEW m \in Mouths, NEW p \in Profiles, CheckHunger(m, p)
  PROVE  HungerInv'
<1>1. p \in HungerCommandProfile
  BY DEF Profiles, ProfileForCommand, ProfileForRawLine, HungerCommandProfile
<1>2. HungerTypeOK'
  BY <1>1 DEF HungerInv, HungerTypeOK, CheckHunger
<1>3. ASSUME NEW d \in Diners PROVE Recording(d)' = Recording(d)
  BY DEF HungerInv, HungerTypeOK, CheckHunger, Recording, At, MouthsOf
<1>4. ASSUME NEW d \in Diners PROVE (Work(d) < Bound(d))'
  <2>1. Work(d) < Bound(d)
    BY PacedAsWork DEF HungerInv
  <2> QED
    BY <1>3, <2>1 DEF CheckHunger, Work, Bound, MouthsOf
<1> QED
  BY <1>2, <1>4 DEF HungerInv, HungryWorkIsPaced, Work, Bound, Recording

(* From the points read below the threshold to their record. *)
LEMMA PlayerHungerKeeps ==
  ASSUME HungerInv, NEW m \in Mouths, PlayerHunger(m)
  PROVE  HungerInv'
<1>1. CASE Hungry(DinerOf[m])
  BY <1>1, QuietStepKeeps DEF PlayerHunger
<1>2. CASE ~Hungry(DinerOf[m])
  <2>1. /\ HungerTypeOK /\ Goto(m, "record") /\ At(m, "read")
        /\ UNCHANGED <<points, rich, cooling, cooled>>
    BY <1>2 DEF PlayerHunger, HungerInv
  <2>2. HungerTypeOK'
    BY <2>1 DEF HungerTypeOK, Goto
  <2>3. ASSUME NEW d \in Diners PROVE (Work(d) < Bound(d))'
    <3>1. CASE d # DinerOf[m]
      <4>1. Work(d) < Bound(d) /\ Cardinality(Recording(d))' = Cardinality(Recording(d))
        BY <3>1, <2>1, CountsMove, PacedAsWork DEF HungerInv
      <4> QED
        BY <4>1, <2>1 DEF Work, Bound, MouthsOf
    <3>2. CASE d = DinerOf[m]
      <4>1. points[d] < Threshold /\ points[d] \in Nat /\ Threshold \in Nat
        BY <3>2, <1>2, <2>1, Typed DEF Hungry
      <4>2. /\ Cardinality(Recording(d))' <= Cardinality(MouthsOf(d))
            /\ Cardinality(MouthsOf(d)) \in Nat /\ Cardinality(Recording(d))' \in Nat
        <5>1. (Recording(d))' \in SUBSET MouthsOf(d)
          BY DEF Recording, MouthsOf
        <5> QED
          BY <5>1, MouthsFinite, FS_Subset, FS_CardinalityType
      <4>3. /\ Work(d)' = points[d] + Cardinality(Recording(d))'
            /\ Bound(d)' = Threshold + Cardinality(MouthsOf(d)) + cooled[d]
                              + (IF cooling[d] THEN 1 ELSE 0)
        BY <2>1 DEF Work, Bound, MouthsOf
      <4> QED
        BY <4>1, <4>2, <4>3, <2>1, Typed
    <3> QED
      BY <3>1, <3>2
  <2> QED
    BY <2>2, <2>3 DEF HungerInv, HungryWorkIsPaced, Work, Bound, Recording
<1> QED
  BY <1>1, <1>2

(* A cooldown begins for the interaction it allows. *)
LEMMA AllowanceKeeps ==
  ASSUME HungerInv, NEW m \in Mouths, TryRecordHungryBroke(m)
  PROVE  HungerInv'
<1>1. CASE ~MayTakeAllowance(DinerOf[m])
  BY <1>1, QuietStepKeeps DEF TryRecordHungryBroke
<1>2. CASE MayTakeAllowance(DinerOf[m])
  <2>1. /\ HungerTypeOK /\ Goto(m, "record") /\ At(m, "allowance")
        /\ cooling' = [cooling EXCEPT ![DinerOf[m]] = TRUE]
        /\ UNCHANGED <<points, rich, cooled>> /\ ~cooling[DinerOf[m]]
    BY <1>2 DEF TryRecordHungryBroke, HungerInv, MayTakeAllowance
  <2>2. HungerTypeOK'
    BY <2>1 DEF HungerTypeOK, Goto
  <2>3. ASSUME NEW d \in Diners PROVE (Work(d) < Bound(d))'
    <3>1. /\ Work(d) < Bound(d) /\ Work(d) = points[d] + Cardinality(Recording(d))
          /\ Work(d)' = points[d] + Cardinality(Recording(d))'
      BY <2>1, PacedAsWork DEF HungerInv, Work
    <3>2. /\ Bound(d)' = Threshold + Cardinality(MouthsOf(d)) + cooled[d]
                            + (IF cooling'[d] THEN 1 ELSE 0)
          /\ Bound(d) = Threshold + Cardinality(MouthsOf(d)) + cooled[d]
                           + (IF cooling[d] THEN 1 ELSE 0)
      BY <2>1 DEF Bound, MouthsOf
    <3>3. CASE d # DinerOf[m]
      <4>1. cooling'[d] = cooling[d] /\ Cardinality(Recording(d))' = Cardinality(Recording(d))
        BY <3>3, <2>1, CountsMove DEF HungerTypeOK
      <4> QED
        BY <4>1, <3>1, <3>2
    <3>4. CASE d = DinerOf[m]
      <4>1. cooling'[d] /\ ~cooling[d]
        BY <3>4, <2>1 DEF HungerTypeOK
      <4>2. Cardinality(Recording(d))' = Cardinality(Recording(d)) + 1
        BY <3>4, <2>1, CountsMove DEF At
      <4> QED
        BY <4>1, <4>2, <3>1, <3>2, <2>1, MouthsFinite, Typed
    <3> QED
      BY <3>3, <3>4
  <2> QED
    BY <2>2, <2>3 DEF HungerInv, HungryWorkIsPaced, Work, Bound, Recording
<1> QED
  BY <1>1, <1>2

(* The interaction is recorded: a point more, and a connection less.       *)
LEMMA RecordKeeps ==
  ASSUME HungerInv, NEW m \in Mouths, RecordInteraction(m)
  PROVE  HungerInv'
<1>1. /\ HungerTypeOK /\ Goto(m, "idle") /\ At(m, "record")
      /\ points' = [points EXCEPT ![DinerOf[m]] = IF @ < MaxHunger THEN @ + 1 ELSE @]
      /\ UNCHANGED <<rich, cooling, cooled>>
  BY DEF RecordInteraction, HungerInv
<1>2. HungerTypeOK'
  <2>1. points \in [Diners -> 0..MaxHunger] /\ DinerOf[m] \in Diners /\ MaxHunger \in Nat
    BY <1>1, HungerAssumption DEF HungerTypeOK, HungerAssumption
  <2>2. points' \in [Diners -> 0..MaxHunger]
    BY <2>1, <1>1
  <2> QED
    BY <2>2, <1>1 DEF HungerTypeOK, Goto
<1>3. ASSUME NEW d \in Diners PROVE (Work(d) < Bound(d))'
  <2>1. Work(d) < Bound(d) /\ Work(d) = points[d] + Cardinality(Recording(d))
    BY <1>1, PacedAsWork DEF HungerInv, Work
  <2>2. Bound(d)' = Bound(d) /\ Bound(d) \in Nat
    BY <1>1, MouthsFinite, Typed DEF Bound, MouthsOf
  <2>3. Work(d)' = points'[d] + Cardinality(Recording(d))'
    BY DEF Work
  <2>4. CASE d # DinerOf[m]
    <3>1. points'[d] = points[d] /\ Cardinality(Recording(d))' = Cardinality(Recording(d))
      BY <2>4, <1>1, CountsMove DEF HungerTypeOK
    <3> QED
      BY <3>1, <2>1, <2>2, <2>3
  <2>5. CASE d = DinerOf[m]
    <3>1. points'[d] \in {points[d], points[d] + 1}
      BY <2>5, <1>1 DEF HungerTypeOK
    <3>2. Cardinality(Recording(d))' = Cardinality(Recording(d)) - 1
      BY <2>5, <1>1, CountsMove DEF At
    <3> QED
      BY <3>1, <3>2, <2>1, <2>2, <2>3, <1>1, MouthsFinite, Typed
  <2> QED
    BY <2>4, <2>5
<1> QED
  BY <1>2, <1>3 DEF HungerInv, HungryWorkIsPaced, Work, Bound, Recording

(* No statement of a connection at the gate breaks the pace. *)
LEMMA MouthStepKeeps ==
  ASSUME HungerInv, NEW m \in Mouths, MouthStep(m)
  PROVE  HungerInv'
<1>1. CASE \E p \in Profiles : CheckHunger(m, p)
  BY <1>1, CheckKeeps
<1>2. CASE PlayerHunger(m)
  BY <1>2, PlayerHungerKeeps
<1>3. CASE PlayerBalance(m)
  BY <1>3, QuietStepKeeps DEF PlayerBalance
<1>4. CASE TryRecordHungryBroke(m)
  BY <1>4, AllowanceKeeps
<1>5. CASE RecordInteraction(m)
  BY <1>5, RecordKeeps
<1>6. CASE LeaveGate(m)
  BY <1>6, QuietStepKeeps DEF LeaveGate
<1> QED
  BY <1>1, <1>2, <1>3, <1>4, <1>5, <1>6 DEF MouthStep

---------------------------------------------------------------------------
(* Money and time: a cooldown that passes is one that had begun. *)

(* Meals, and cooldowns that pass, keep the pace. *)
LEMMA DinerStepKeeps ==
  ASSUME HungerInv, NEW e \in Diners, DinerStep(e)
  PROVE  HungerInv'
<1>1. CASE BalanceChanges(e)
  BY <1>1 DEF BalanceChanges, HungerInv, HungerTypeOK, HungryWorkIsPaced, MouthsOf, At
<1>2. CASE CooldownPasses(e)
  <2>1. /\ HungerTypeOK /\ cooling[e] /\ cooled[e] < MaxCooldowns
        /\ cooling' = [cooling EXCEPT ![e] = FALSE]
        /\ cooled' = [cooled EXCEPT ![e] = @ + 1]
        /\ UNCHANGED <<points, rich, gate, appetite>>
    BY <1>2 DEF CooldownPasses, HungerInv
  <2>2. HungerTypeOK'
    BY <2>1, HungerAssumption DEF HungerTypeOK, HungerAssumption
  <2>3. ASSUME NEW d \in Diners PROVE (Work(d) < Bound(d))'
    <3>1. Work(d) < Bound(d)
      BY PacedAsWork DEF HungerInv
    <3>2. Work(d)' = Work(d)
      BY <2>1 DEF Work, Recording, MouthsOf, At
    <3>3. Bound(d)' = Bound(d)
      <4>1. cooled'[d] + (IF cooling'[d] THEN 1 ELSE 0)
              = cooled[d] + (IF cooling[d] THEN 1 ELSE 0)
        BY <2>1, Typed DEF HungerTypeOK
      <4>2. /\ Bound(d)' = Threshold + Cardinality(MouthsOf(d)) + cooled'[d]
                              + (IF cooling'[d] THEN 1 ELSE 0)
            /\ Bound(d) = Threshold + Cardinality(MouthsOf(d)) + cooled[d]
                             + (IF cooling[d] THEN 1 ELSE 0)
        BY DEF Bound, MouthsOf
      <4>3. cooled'[d] \in Nat /\ cooled[d] \in Nat
        BY <2>1, <2>2 DEF HungerTypeOK
      <4> QED
        BY <4>1, <4>2, <4>3, MouthsFinite, Typed, <2>1
    <3> QED
      BY <3>1, <3>2, <3>3
  <2> QED
    BY <2>2, <2>3 DEF HungerInv, HungryWorkIsPaced, Work, Bound, Recording
<1> QED
  BY <1>1, <1>2 DEF DinerStep

---------------------------------------------------------------------------
(* The pool of workers. *)

(* An idling client's wait began a period ago at most, and a client that   *)
(* was heard left a stamp behind its poll by no more than the throttle.    *)
PoolInv ==
  /\ PoolTypeOK
  /\ stamp <= now
  /\ \A m \in MailClients :
       /\ polled[m] <= now /\ waiting[m] <= now
       /\ mail[m] = "idle" => now <= waiting[m] + Poll
       /\ m \in heard => polled[m] <= stamp + Throttle

(* No client idles at first, and the stamp is of the epoch. *)
LEMMA PoolInvInit == PoolInit => PoolInv
<1> SUFFICES ASSUME PoolInit PROVE PoolInv
  OBVIOUS
<1>1. Start \in Nat /\ Epoch \in Nat /\ Epoch <= Start
  BY WorkerPoolAssumption DEF Start, Epoch
<1>2. PoolTypeOK
  BY <1>1 DEF PoolInit, PoolTypeOK, Away
<1> QED
  BY <1>1, <1>2 DEF PoolInit, PoolInv, Epoch

(* What the property needs of the invariant. *)
LEMMA PoolInvImplies == PoolInv => IdlersStayPooled
<1> SUFFICES ASSUME PoolInv, joined, NEW m \in heard, Listens(m)
             PROVE  PoolContains
  BY DEF IdlersStayPooled
<1>1. m \in MailClients /\ {polled[m], waiting[m], now, stamp} \subseteq Nat
  BY DEF PoolInv, PoolTypeOK
<1>2. /\ now <= waiting[m] + Poll /\ polled[m] <= stamp + Throttle
      /\ waiting[m] + Poll + Throttle <= polled[m] + Window
  BY <1>1 DEF PoolInv, Listens
<1>3. {Poll, Throttle, Window} \subseteq Nat
  BY WorkerPoolAssumption
<1>4. now <= stamp + Window
  BY <1>1, <1>2, <1>3
<1> QED
  BY <1>4 DEF PoolContains

(* Steps of the other parts of the town leave the pool alone. *)
LEMMA PoolUnchanged == PoolInv /\ UNCHANGED poolVars => PoolInv'
BY DEF PoolInv, PoolTypeOK, poolVars, mailVars, workerVars

---------------------------------------------------------------------------
(* Time *)

(* Time does not pass a poll that is due. *)
LEMMA TickKeeps == PoolInv /\ Tick => PoolInv'
<1> SUFFICES ASSUME PoolInv, Tick PROVE PoolInv'
  OBVIOUS
<1>1. PoolTypeOK'
  BY DEF PoolInv, PoolTypeOK, Tick, mailVars, workerVars
<1>2. stamp' <= now'
  BY DEF PoolInv, PoolTypeOK, Tick, mailVars
<1>3. ASSUME NEW m \in MailClients
      PROVE  /\ polled'[m] <= now' /\ waiting'[m] <= now'
             /\ mail'[m] = "idle" => now' <= waiting'[m] + Poll
             /\ m \in heard' => polled'[m] <= stamp' + Throttle
  <2>1. ~PollDue(m) /\ {now, polled[m], waiting[m], Poll} \subseteq Nat
    BY WorkerPoolAssumption DEF PoolInv, PoolTypeOK, Tick
  <2> QED
    BY <2>1 DEF PoolInv, Tick, mailVars, PollDue
<1> QED
  BY <1>1, <1>2, <1>3 DEF PoolInv

---------------------------------------------------------------------------
(* The stamp *)

(* A record leaves the stamp where it was or moves it to now, and never    *)
(* more than the throttle behind.                                          *)
LEMMA RecordedPresence ==
  PoolInv => /\ RecordPresence \in Nat
             /\ stamp <= RecordPresence /\ RecordPresence <= now
             /\ now <= RecordPresence + Throttle
<1> SUFFICES ASSUME PoolInv
             PROVE  /\ RecordPresence \in Nat
                    /\ stamp <= RecordPresence /\ RecordPresence <= now
                    /\ now <= RecordPresence + Throttle
  OBVIOUS
<1>1. {now, stamp, Throttle} \subseteq Nat /\ stamp <= now
  BY WorkerPoolAssumption DEF PoolInv, PoolTypeOK
<1>2. CASE stamp + Throttle < now
  BY <1>1, <1>2 DEF RecordPresence
<1>3. CASE ~(stamp + Throttle < now)
  BY <1>1, <1>3 DEF RecordPresence
<1> QED
  BY <1>2, <1>3

(* A mail command stamps the token, unless it was stamped within the       *)
(* throttle.                                                               *)
LEMMA TouchKeeps ==
  ASSUME PoolInv, NEW m \in MailClients, NEW next \in {"in", "idle"}, TouchPool(m, next)
  PROVE  PoolInv'
<1>1. /\ {now, stamp, Throttle, Poll} \subseteq Nat
      /\ stamp' \in Nat /\ stamp <= stamp' /\ stamp' <= now /\ now <= stamp' + Throttle
  BY RecordedPresence, WorkerPoolAssumption DEF PoolInv, PoolTypeOK, TouchPool
<1>2. PoolTypeOK'
  BY <1>1 DEF PoolInv, PoolTypeOK, TouchPool, workerVars
<1>3. now' = now
  BY DEF TouchPool
<1>4. ASSUME NEW n \in MailClients
      PROVE  /\ polled'[n] <= now' /\ waiting'[n] <= now'
             /\ mail'[n] = "idle" => now' <= waiting'[n] + Poll
             /\ n \in heard' => polled'[n] <= stamp' + Throttle
  <2>1. CASE n = m
    <3>1. polled'[n] = now /\ waiting'[n] = now
      BY <2>1 DEF PoolInv, PoolTypeOK, TouchPool
    <3> QED
      BY <3>1, <1>1, <1>3
  <2>2. CASE n # m
    <3>1. /\ polled'[n] = polled[n] /\ waiting'[n] = waiting[n] /\ mail'[n] = mail[n]
          /\ n \in heard' => n \in heard
      BY <2>2 DEF PoolInv, PoolTypeOK, TouchPool
    <3>2. {polled[n], waiting[n]} \subseteq Nat /\ polled[n] <= now /\ waiting[n] <= now
      BY DEF PoolInv, PoolTypeOK
    <3>3. mail[n] = "idle" => now <= waiting[n] + Poll
      BY DEF PoolInv
    <3>4. n \in heard => polled[n] <= stamp + Throttle
      BY DEF PoolInv
    <3> QED
      BY <3>1, <3>2, <3>3, <3>4, <1>1, <1>3
  <2> QED
    BY <2>1, <2>2
<1> QED
  BY <1>1, <1>2, <1>3, <1>4 DEF PoolInv

(* A new token forgets the clients that were heard with the old one. *)
LEMMA SetTokenKeeps == PoolInv /\ SetToken => PoolInv'
BY DEF PoolInv, PoolTypeOK, SetToken, Epoch, workerVars

(* A client that leaves IDLE, or has not begun: the stamp may only go up,  *)
(* to now at most.                                                         *)
LEMMA OtherMailStepKeeps ==
  ASSUME PoolInv, NEW m \in MailClients,
         CompareToken(m) \/ StampToken(m) \/ EndIdle(m) \/ CloseMail(m)
  PROVE  PoolInv'
<1>1. PoolTypeOK'
  BY DEF PoolInv, PoolTypeOK, CompareToken, StampToken, EndIdle, CloseMail, workerVars
<1>2. /\ UNCHANGED <<now, polled, waiting, heard>>
      /\ stamp' \in {stamp, now}
      /\ \A n \in MailClients : mail'[n] = "idle" => mail[n] = "idle"
  BY DEF PoolInv, PoolTypeOK, CompareToken, StampToken, EndIdle, CloseMail
<1>3. {now, stamp, Throttle} \subseteq Nat /\ \A n \in MailClients : {polled[n], waiting[n]} \subseteq Nat
  BY WorkerPoolAssumption DEF PoolInv, PoolTypeOK
<1> QED
  BY <1>1, <1>2, <1>3 DEF PoolInv

(* A line within IDLE begins the wait again, and records nothing. *)
LEMMA IdleLineKeeps ==
  ASSUME PoolInv, NEW m \in MailClients, IdleLine(m)
  PROVE  PoolInv'
<1>1. /\ now \in Nat /\ Poll \in Nat
      /\ \A n \in MailClients : waiting'[n] = (IF n = m THEN now ELSE waiting[n])
  BY WorkerPoolAssumption DEF PoolInv, PoolTypeOK, IdleLine
<1>2. PoolTypeOK'
  BY DEF PoolInv, PoolTypeOK, IdleLine, workerVars
<1>3. UNCHANGED <<now, stamp, mail, polled, heard>>
  BY DEF IdleLine
<1>4. ASSUME NEW n \in MailClients
      PROVE  waiting'[n] <= now /\ (mail[n] = "idle" => now <= waiting'[n] + Poll)
  <2>1. CASE n = m
    BY <2>1, <1>1
  <2>2. CASE n # m
    BY <2>2, <1>1 DEF PoolInv
  <2> QED
    BY <2>1, <2>2
<1> QED
  BY <1>2, <1>3, <1>4 DEF PoolInv

(* Whatever a mail client does, its poll and the stamp stay close. *)
LEMMA MailStepKeeps ==
  ASSUME PoolInv, NEW m \in MailClients, MailStep(m)
  PROVE  PoolInv'
<1>1. CASE CompareToken(m) \/ StampToken(m) \/ EndIdle(m) \/ CloseMail(m)
  BY <1>1, OtherMailStepKeeps
<1>2. CASE AuthenticateMailToken(m)
  BY <1>2, TouchKeeps DEF AuthenticateMailToken
<1>3. CASE MailCommand(m)
  BY <1>3, TouchKeeps DEF MailCommand
<1>4. CASE PollPool(m)
  BY <1>4, TouchKeeps DEF PollPool
<1>5. CASE IdleLine(m)
  BY <1>5, IdleLineKeeps
<1> QED
  BY <1>1, <1>2, <1>3, <1>4, <1>5 DEF MailStep

---------------------------------------------------------------------------
(* The worker: nothing of the mail side changes. *)

(* The gate of a worker's orders only reads the pool. *)
LEMMA WorkerStepKeeps ==
  ASSUME PoolInv, NEW c \in SshSessions, NEW orders, WorkerStep(c, orders)
  PROVE  PoolInv'
<1>1. UNCHANGED <<now, stamp, mail, polled, waiting, heard>>
  BY DEF WorkerStep, MoveWorker, WorkerLine, CheckSession, CheckPool, mailVars
<1>2. PoolTypeOK'
  <2>2. CASE MoveWorker(c)
    BY <2>2, <1>1 DEF PoolInv, PoolTypeOK, MoveWorker
  <2>3. ASSUME NEW command, WorkerLine(c, command) PROVE PoolTypeOK'
    <3>1. session' \in [SshSessions -> [in : BOOLEAN, seen : Nat]]
      BY <2>3 DEF PoolInv, PoolTypeOK, WorkerLine
    <3> QED
      BY <2>3, <3>1, <1>1 DEF PoolInv, PoolTypeOK, WorkerLine
  <2>4. CASE CheckSession(c)
    BY <2>4, <1>1 DEF PoolInv, PoolTypeOK, CheckSession
  <2>5. CASE CheckPool(c)
    BY <2>5, <1>1 DEF PoolInv, PoolTypeOK, CheckPool
  <2> QED
    BY <2>2, <2>3, <2>4, <2>5 DEF WorkerStep
<1> QED
  BY <1>1, <1>2 DEF PoolInv

(* The worker joins a parcel's staff, or a session of theirs goes on. *)
LEMMA JoinKeeps == PoolInv /\ Join => PoolInv'
<1> SUFFICES ASSUME PoolInv, Join PROVE PoolInv'
  OBVIOUS
<1>1. UNCHANGED <<now, stamp, mail, polled, waiting, heard>>
  BY DEF Join, mailVars
<1>2. PoolTypeOK'
  BY <1>1 DEF PoolInv, PoolTypeOK, Join
<1> QED
  BY <1>1, <1>2 DEF PoolInv

---------------------------------------------------------------------------
(* Identities *)

(* The statements that write or read for the player of the account, and    *)
(* those after which a call may end without an account.                    *)
ForThePlayer == {"bound", "bind", "secret", "token"}
Alone        == {"rename", "verify"}
Labels       == {"known", "free", "profile", "account"} \cup ForThePlayer \cup Alone

NoAccount(a) == \A i \in 1..Len(a) : a[i] # "account"

(* What is left of a call: nothing is written for a player before the      *)
(* account is ensured, once.                                               *)
Shape(a) ==
  /\ a \in Seq(Labels)
  /\ \A i, j \in 1..Len(a) :
       i < j => /\ a[j] = "account" => a[i] \notin ForThePlayer \cup {"account"}
                /\ a[j] \notin Alone
  /\ Len(a) > 1 /\ NoAccount(a) => a[1] \notin Alone

After(a) == a # <<>> /\ NoAccount(a) /\ Head(a) \notin Alone

IdInv ==
  /\ account \in [Users -> People \cup {Nobody}]
  /\ secrets \in [Users -> People \cup {Nobody}]
  /\ mailTokens \in [Users -> People \cup {Nobody}]
  /\ \A row \in sshKeys : row[1] \in Users /\ row[3] \in People
  /\ DOMAIN agenda = Visitors /\ DOMAIN request = Visitors
  /\ \A c \in Visitors :
       /\ Shape(agenda[c])
       /\ agenda[c] # <<>> => request[c] \in IdentityCall
       /\ After(agenda[c]) => account[request[c].user] = request[c].player
  /\ NamesAreOnePlayer

---------------------------------------------------------------------------
(* Agendas *)

(* The statements a call has before it: each call ensures the account      *)
(* before it writes for its player.                                        *)
LEMMA Agendas ==
  ASSUME NEW op \in {"key", "password", "token", "rename"}
  PROVE  Shape(Agenda(op)) /\ ~After(Agenda(op))
<1>1. CASE op = "key"
  <2> DEFINE a == <<"known", "free", "profile", "account", "bound", "profile", "bind">>
  <2>1. Agenda(op) = a
    BY <1>1 DEF Agenda
  <2>2. a \in Seq(Labels) /\ Len(a) = 7 /\ a[4] = "account"
    BY DEF Labels, ForThePlayer, Alone
  <2>3. Shape(a) /\ ~After(a)
    BY <2>2 DEF Shape, After, NoAccount, ForThePlayer, Alone
  <2> QED
    BY <2>1, <2>3
<1>2. CASE op = "password"
  <2> DEFINE a == <<"verify", "free", "profile", "account", "profile", "secret">>
  <2>1. Agenda(op) = a
    BY <1>2 DEF Agenda
  <2>2. a \in Seq(Labels) /\ Len(a) = 6 /\ a[4] = "account"
    BY DEF Labels, ForThePlayer, Alone
  <2>3. Shape(a) /\ ~After(a)
    BY <2>2 DEF Shape, After, NoAccount, ForThePlayer, Alone
  <2> QED
    BY <2>1, <2>3
<1>3. CASE op = "token"
  <2> DEFINE a == <<"profile", "account", "profile", "token">>
  <2>1. Agenda(op) = a
    BY <1>3 DEF Agenda
  <2>2. a \in Seq(Labels) /\ Len(a) = 4 /\ a[2] = "account"
    BY DEF Labels, ForThePlayer, Alone
  <2>3. Shape(a) /\ ~After(a)
    BY <2>2 DEF Shape, After, NoAccount, ForThePlayer, Alone
  <2> QED
    BY <2>1, <2>3
<1>4. CASE op = "rename"
  <2>1. Agenda(op) = <<"rename">>
    BY <1>4 DEF Agenda
  <2> QED
    BY <2>1 DEF Shape, After, NoAccount, ForThePlayer, Alone, Labels
<1> QED
  BY <1>1, <1>2, <1>3, <1>4

(* A call that is over, or only verifies, has no account to rely on. *)
LEMMA Empty == Shape(<<>>) /\ ~After(<<>>) /\ Shape(<<"verify">>) /\ ~After(<<"verify">>)
BY DEF Shape, After, NoAccount, ForThePlayer, Alone, Labels

(* One statement on: the account may be needed only if it was before, or   *)
(* has just been ensured.                                                  *)
LEMMA Tails ==
  ASSUME NEW a, Shape(a), a # <<>>
  PROVE  /\ Shape(Tail(a))
         /\ After(Tail(a)) => After(a) \/ Head(a) = "account"
         /\ Head(a) \in ForThePlayer => After(a)
<1>1. /\ a \in Seq(Labels) /\ Len(a) \in Nat /\ Len(a) > 0 /\ Head(a) = a[1]
      /\ Tail(a) \in Seq(Labels) /\ Len(Tail(a)) = Len(a) - 1
      /\ \A i \in 1..Len(a) - 1 : Tail(a)[i] = a[i + 1]
  BY DEF Shape
<1>2. Shape(Tail(a))
  <2>1. ASSUME NEW i \in 1..Len(Tail(a)), NEW j \in 1..Len(Tail(a)), i < j
        PROVE  /\ Tail(a)[j] = "account" => Tail(a)[i] \notin ForThePlayer \cup {"account"}
               /\ Tail(a)[j] \notin Alone
    <3>1. i + 1 \in 1..Len(a) /\ j + 1 \in 1..Len(a) /\ i + 1 < j + 1
      BY <1>1, <2>1
    <3> QED
      BY <1>1, <2>1, <3>1 DEF Shape
  <2>2. Len(Tail(a)) > 1 => Tail(a)[1] \notin Alone
    <3>1. Len(Tail(a)) > 1 => Tail(a)[1] = a[2] /\ 1 \in 1..Len(a) /\ 2 \in 1..Len(a)
      BY <1>1
    <3> QED
      BY <3>1 DEF Shape
  <2> QED
    BY <1>1, <2>1, <2>2 DEF Shape
<1>3. ASSUME After(Tail(a)), Head(a) # "account" PROVE After(a)
  <2>1. Len(a) > 1
    BY <1>1, <1>3 DEF After
  <2>2. ASSUME NEW i \in 1..Len(a) PROVE a[i] # "account"
    <3>1. CASE i = 1
      BY <3>1, <1>1, <1>3
    <3>2. CASE i > 1
      <4>1. i - 1 \in 1..Len(Tail(a)) /\ Tail(a)[i - 1] = a[i]
        BY <3>2, <1>1
      <4> QED
        BY <4>1, <1>3 DEF After, NoAccount
    <3> QED
      BY <3>1, <3>2
  <2> QED
    BY <1>1, <2>1, <2>2 DEF After, NoAccount, Shape
<1>4. ASSUME Head(a) \in ForThePlayer PROVE After(a)
  <2>1. ASSUME NEW j \in 1..Len(a) PROVE a[j] # "account"
    BY <1>1, <1>4 DEF Shape, ForThePlayer
  <2> QED
    BY <2>1, <1>1, <1>4 DEF After, NoAccount, ForThePlayer, Alone
<1> QED
  BY <1>2, <1>3, <1>4

---------------------------------------------------------------------------
(* Connections.  A step after which no call needs an account that did not  *)
(* need it before. *)
Undisturbed ==
  /\ DOMAIN agenda' = Visitors /\ DOMAIN request' = Visitors
  /\ \A c \in Visitors :
       /\ Shape(agenda'[c])
       /\ agenda'[c] # <<>> => request'[c] \in IdentityCall
       /\ After(agenda'[c]) => request'[c] = request[c] /\ After(agenda[c])

(* At first there are no calls, and what is bound is of its account. *)
LEMMA IdInvInit == IdentitiesInit => IdInv
<1> SUFFICES ASSUME IdentitiesInit PROVE IdInv
  OBVIOUS
<1>1. NamesAreOnePlayer
  BY DEF IdentitiesInit, NamesAreOnePlayer
<1> QED
  BY <1>1, Empty DEF IdentitiesInit, IdInv

(* Steps of the other parts of the town leave the identities alone. *)
LEMMA IdUnchanged == IdInv /\ UNCHANGED idVars => IdInv'
<1> SUFFICES ASSUME IdInv, UNCHANGED idVars PROVE IdInv'
  OBVIOUS
<1>1. UNCHANGED <<account, sshKeys, secrets, mailTokens, agenda, request>>
  BY DEF idVars, idTables
<1>2. NamesAreOnePlayer'
  BY <1>1 DEF IdInv, NamesAreOnePlayer
<1> QED
  BY <1>1, <1>2 DEF IdInv

(* A step that writes no table keeps the invariant. *)
LEMMA QuietKeeps ==
  ASSUME IdInv, Undisturbed, UNCHANGED <<account, sshKeys, secrets, mailTokens>>
  PROVE  IdInv'
<1>1. NamesAreOnePlayer'
  BY DEF IdInv, NamesAreOnePlayer
<1> QED
  BY <1>1 DEF IdInv, Undisturbed

(* The answer of a call writes nothing. *)
LEMMA AnswerIsQuiet ==
  ASSUME IdInv, NEW c \in Visitors, Answer(c)
  PROVE  Undisturbed
<1>1. ASSUME NEW d \in Visitors
      PROVE  \/ d = c /\ agenda'[d] = <<>>
             \/ agenda'[d] = agenda[d] /\ request'[d] = request[d]
  BY DEF Answer, IdInv
<1>2. DOMAIN agenda' = Visitors /\ DOMAIN request' = Visitors
  BY DEF Answer, IdInv
<1> QED
  BY <1>1, <1>2, Empty DEF Undisturbed, IdInv

(* So does going on to the next statement. *)
LEMMA ProceedIsQuiet ==
  ASSUME IdInv, NEW c \in Visitors, agenda[c] # <<>>, Head(agenda[c]) # "account", Proceed(c)
  PROVE  Undisturbed
<1>1. ASSUME NEW d \in Visitors
      PROVE  agenda'[d] = IF d = c THEN Tail(agenda[d]) ELSE agenda[d]
  BY DEF Proceed, IdInv
<1>2. DOMAIN agenda' = Visitors /\ request' = request
  BY DEF Proceed, IdInv
<1>3. Shape(agenda[c]) /\ request[c] \in IdentityCall
  BY DEF IdInv
<1>4. Shape(Tail(agenda[c])) /\ (After(Tail(agenda[c])) => After(agenda[c]))
  BY <1>3, Tails
<1> QED
  BY <1>1, <1>2, <1>3, <1>4 DEF Undisturbed, IdInv

(* And so do the statements that read. *)
LEMMA ReadsAreQuiet ==
  ASSUME IdInv, NEW c \in Visitors, NEW label, Due(c, label), label # "account",
         Answer(c) \/ Proceed(c) \/ Resolve(c)
  PROVE  Undisturbed
BY AnswerIsQuiet, ProceedIsQuiet DEF Due, Resolve

(* A call begins with its whole agenda. *)
LEMMA BeginKeeps ==
  ASSUME IdInv, NEW c \in Visitors, NEW call \in IdentityCall, BeginIdentity(c, call)
  PROVE  IdInv'
<1>1. call.op \in {"key", "password", "token", "rename"}
  BY DEF IdentityCall, Calls
<1>2. ASSUME NEW d \in Visitors
      PROVE  \/ agenda'[d] = Agenda(call.op) /\ request'[d] = call
             \/ agenda'[d] = agenda[d] /\ request'[d] = request[d]
  BY DEF BeginIdentity, IdInv
<1>3. DOMAIN agenda' = Visitors /\ DOMAIN request' = Visitors
  BY DEF BeginIdentity, IdInv
<1>4. Undisturbed
  BY <1>1, <1>2, <1>3, Agendas DEF Undisturbed, IdInv
<1> QED
  BY <1>4, QuietKeeps DEF BeginIdentity, idTables

---------------------------------------------------------------------------
(* The account: a name that has one keeps it. *)

(* The account is made, or found: then the call goes on for the player it  *)
(* names.                                                                  *)
LEMMA AccountKeeps ==
  ASSUME IdInv, NEW c \in Visitors, EnsureUserAccount(c)
  PROVE  IdInv'
<1> DEFINE r == request[c]
<1>1. CASE ~(Belongs(r) \/ Unclaimed(r))
  <2>1. Answer(c) /\ UNCHANGED <<account, sshKeys, secrets, mailTokens>>
    BY <1>1 DEF EnsureUserAccount
  <2> QED
    BY <2>1, AnswerIsQuiet, QuietKeeps
<1>2. CASE Belongs(r) \/ Unclaimed(r)
  <2>1. /\ account' = [account EXCEPT ![r.user] = r.player] /\ Proceed(c)
        /\ Due(c, "account") /\ UNCHANGED <<sshKeys, secrets, mailTokens>>
    BY <1>2 DEF EnsureUserAccount
  <2>2. Shape(agenda[c]) /\ agenda[c] # <<>> /\ r \in IdentityCall
    BY <2>1 DEF IdInv, Due
  <2>3. r.user \in Users /\ r.player \in People
    BY <2>2 DEF IdentityCall, Calls
  <2>4. account' \in [Users -> People \cup {Nobody}] /\ account'[r.user] = r.player
    BY <2>1, <2>3 DEF IdInv
  <2>5. \A u \in Users : account[u] # Nobody => account'[u] = account[u]
    BY <1>2, <2>1, <2>3 DEF IdInv, Belongs, Unclaimed
  <2>6. Nobody \notin People
    BY IdentitiesAssumption DEF IdentitiesAssumption
  <2>7. NamesAreOnePlayer'
    <3>1. \A row \in sshKeys : account'[row[1]] = row[3]
      BY <2>5, <2>6 DEF IdInv, NamesAreOnePlayer
    <3>2. \A u \in Users : {secrets[u], mailTokens[u]} \subseteq {account'[u], Nobody}
      BY <2>5 DEF IdInv, NamesAreOnePlayer
    <3> QED
      BY <3>1, <3>2, <2>1 DEF NamesAreOnePlayer
  <2>8. /\ DOMAIN agenda' = Visitors /\ request' = request
        /\ \A d \in Visitors : agenda'[d] = IF d = c THEN Tail(agenda[d]) ELSE agenda[d]
    BY <2>1 DEF Proceed, IdInv
  <2>9. ASSUME NEW d \in Visitors
        PROVE  /\ Shape(agenda'[d])
               /\ agenda'[d] # <<>> => request'[d] \in IdentityCall
               /\ After(agenda'[d]) => account'[request'[d].user] = request'[d].player
    <3>1. CASE d = c
      BY <3>1, <2>2, <2>4, <2>8, Tails
    <3>2. CASE d # c
      <4>1. agenda'[d] = agenda[d] /\ request'[d] = request[d]
        BY <3>2, <2>8
      <4>2. After(agenda[d]) => /\ agenda[d] # <<>> /\ request[d] \in IdentityCall
                                /\ account[request[d].user] = request[d].player
        BY DEF IdInv, After
      <4>3. After(agenda[d]) => request[d].user \in Users /\ request[d].player \in People
        BY <4>2 DEF IdentityCall, Calls
      <4> QED
        BY <4>1, <4>2, <4>3, <2>5, <2>6 DEF IdInv
    <3> QED
      BY <3>1, <3>2
  <2> QED
    BY <2>1, <2>4, <2>7, <2>8, <2>9 DEF IdInv
<1> QED
  BY <1>1, <1>2

---------------------------------------------------------------------------
(* What a call writes for its player. *)

(* A call that writes for its player has the account of its name. *)
LEMMA ForItsPlayer ==
  ASSUME IdInv, NEW c \in Visitors, NEW label \in ForThePlayer, Due(c, label)
  PROVE  /\ request[c].user \in Users /\ request[c].player \in People
         /\ account[request[c].user] = request[c].player
<1>1. Shape(agenda[c]) /\ agenda[c] # <<>> /\ Head(agenda[c]) \in ForThePlayer
  BY DEF IdInv, Due
<1>2. After(agenda[c]) /\ request[c] \in IdentityCall
  BY <1>1, Tails DEF IdInv
<1> QED
  BY <1>2 DEF IdInv, IdentityCall, Calls

(* A key is bound for the player of its name. *)
LEMMA BindKeeps ==
  ASSUME IdInv, NEW c \in Visitors, BindKey(c)
  PROVE  IdInv'
<1> DEFINE r == request[c]
<1>1. r.user \in Users /\ r.player \in People /\ account[r.user] = r.player
  BY ForItsPlayer DEF BindKey, ForThePlayer
<1>2. sshKeys' \subseteq sshKeys \cup {<<r.user, r.key, r.player>>}
  BY DEF BindKey
<1>3. Undisturbed /\ UNCHANGED <<account, secrets, mailTokens>>
  BY AnswerIsQuiet DEF BindKey
<1>4. \A row \in sshKeys' : row[1] \in Users /\ row[3] \in People /\ account[row[1]] = row[3]
  BY <1>1, <1>2 DEF IdInv, NamesAreOnePlayer
<1>5. NamesAreOnePlayer'
  BY <1>3, <1>4 DEF IdInv, NamesAreOnePlayer
<1> QED
  BY <1>3, <1>4, <1>5 DEF IdInv, Undisturbed

(* A password is made for the player of its name. *)
LEMMA SecretKeeps ==
  ASSUME IdInv, NEW c \in Visitors, CreateSecret(c)
  PROVE  IdInv'
<1> DEFINE r == request[c]
<1>1. r.user \in Users /\ r.player \in People /\ account[r.user] = r.player
  BY ForItsPlayer DEF CreateSecret, ForThePlayer
<1>2. CASE secrets[r.user] = Nobody
  <2>1. /\ Undisturbed /\ UNCHANGED <<account, sshKeys, mailTokens>>
        /\ secrets' = [secrets EXCEPT ![r.user] = r.player]
    BY <1>2, AnswerIsQuiet DEF CreateSecret
  <2>2. NamesAreOnePlayer'
    BY <2>1, <1>1 DEF IdInv, NamesAreOnePlayer
  <2>3. secrets' \in [Users -> People \cup {Nobody}]
    BY <2>1, <1>1 DEF IdInv
  <2> QED
    BY <2>1, <2>2, <2>3 DEF IdInv, Undisturbed
<1>3. CASE secrets[r.user] # Nobody
  <2>1. /\ UNCHANGED <<account, sshKeys, mailTokens, secrets, request>>
        /\ agenda' = [agenda EXCEPT ![c] = <<"verify">>] /\ agenda[c] # <<>>
    BY <1>3 DEF CreateSecret, Due
  <2>2. Undisturbed
    BY <2>1, Empty DEF IdInv, Undisturbed
  <2> QED
    BY <2>1, <2>2, QuietKeeps
<1> QED
  BY <1>2, <1>3

(* A mail token is set for the player of its name. *)
LEMMA TokenKeeps ==
  ASSUME IdInv, NEW c \in Visitors, SetMailToken(c)
  PROVE  IdInv'
<1> DEFINE r == request[c]
<1>1. r.user \in Users /\ r.player \in People /\ account[r.user] = r.player
  BY ForItsPlayer DEF SetMailToken, ForThePlayer
<1>2. /\ Undisturbed /\ UNCHANGED <<account, sshKeys, secrets>>
      /\ mailTokens' = [mailTokens EXCEPT ![r.user] = r.player]
  BY AnswerIsQuiet DEF SetMailToken
<1>3. NamesAreOnePlayer'
  BY <1>1, <1>2 DEF IdInv, NamesAreOnePlayer
<1>4. mailTokens' \in [Users -> People \cup {Nobody}]
  BY <1>1, <1>2 DEF IdInv
<1> QED
  BY <1>2, <1>3, <1>4 DEF IdInv, Undisturbed

---------------------------------------------------------------------------
(* Any statement of any connection keeps the invariant. *)
LEMMA StatementKeeps ==
  ASSUME IdInv, NEW c \in Visitors, IdentityStatement(c)
  PROVE  IdInv'
<1> DEFINE Same == UNCHANGED <<account, sshKeys, secrets, mailTokens>>
<1>1. CASE KnownKey(c)
  <2>1. Due(c, "known") /\ (Answer(c) \/ Proceed(c)) /\ Same
    BY <1>1 DEF KnownKey, idTables
  <2> QED
    BY <2>1, ReadsAreQuiet, QuietKeeps
<1>2. CASE VerifySecret(c)
  <2>1. Due(c, "verify") /\ (Answer(c) \/ Resolve(c)) /\ Same
    BY <1>2 DEF VerifySecret, idTables
  <2> QED
    BY <2>1, ReadsAreQuiet, QuietKeeps
<1>3. CASE NameIsFree(c)
  <2>1. Due(c, "free") /\ (Answer(c) \/ Proceed(c)) /\ Same
    BY <1>3 DEF NameIsFree, idTables
  <2> QED
    BY <2>1, ReadsAreQuiet, QuietKeeps
<1>4. CASE EnsureProfile(c)
  <2>1. Due(c, "profile") /\ (Answer(c) \/ Resolve(c)) /\ Same
    BY <1>4 DEF EnsureProfile
  <2> QED
    BY <2>1, ReadsAreQuiet, QuietKeeps
<1>5. CASE EnsureUserAccount(c)
  BY <1>5, AccountKeeps
<1>6. CASE KeyIsFree(c)
  <2>1. Due(c, "bound") /\ (Answer(c) \/ Proceed(c)) /\ Same
    BY <1>6 DEF KeyIsFree, idTables
  <2> QED
    BY <2>1, ReadsAreQuiet, QuietKeeps
<1>7. CASE BindKey(c)
  BY <1>7, BindKeeps
<1>8. CASE CreateSecret(c)
  BY <1>8, SecretKeeps
<1>9. CASE SetMailToken(c)
  BY <1>9, TokenKeeps
<1>10. CASE Rename(c)
  <2>1. Answer(c) /\ Same
    BY <1>10 DEF Rename
  <2> QED
    BY <2>1, AnswerIsQuiet, QuietKeeps
<1> QED
  BY <1>1, <1>2, <1>3, <1>4, <1>5, <1>6, <1>7, <1>8, <1>9, <1>10 DEF IdentityStatement

(* Every step of a call keeps the invariant. *)
LEMMA IdentityStepKeeps ==
  ASSUME IdInv, NEW c \in Visitors, NEW menu \in SUBSET IdentityCall, IdentityStep(c, menu)
  PROVE  IdInv'
<1>1. CASE \E call \in menu : BeginIdentity(c, call)
  BY <1>1, BeginKeeps
<1>2. CASE IdentityStatement(c)
  BY <1>2, StatementKeeps
<1>3. CASE Disconnect(c)
  BY <1>3, AnswerIsQuiet, QuietKeeps DEF Disconnect, idTables
<1> QED
  BY <1>1, <1>2, <1>3 DEF IdentityStep

---------------------------------------------------------------------------
(* Types.  A call that is to bind a key is that of a key. *)
Binds(a) == \E i \in 1..Len(a) : a[i] = "bind"

IdTypes == /\ IdentitiesTypeOK
           /\ \A c \in Visitors : Binds(agenda[c]) => request[c].key \in Keys

(* Nothing is stored at first. *)
LEMMA IdTypesInit == IdentitiesInit => IdTypes
<1>1. ~Binds(<<>>)
  BY DEF Binds
<1> QED
  BY <1>1 DEF IdentitiesInit, IdTypes, IdentitiesTypeOK

(* Steps of the other parts of the town. *)
LEMMA IdTypesUnchanged == IdTypes /\ UNCHANGED idVars => IdTypes'
BY DEF IdTypes, IdentitiesTypeOK, idVars, idTables, Binds

(* A statement shortens the agenda of its call, or ends the call. *)
LEMMA CallsGo ==
  ASSUME IdInv, NEW c \in Visitors, IdentityStatement(c) \/ Disconnect(c)
  PROVE  \A d \in Visitors :
           \/ agenda'[d] = <<>> /\ request'[d] = NoRequest
           \/ agenda'[d] \in {agenda[d], <<"verify">>} /\ request'[d] = request[d]
           \/ /\ agenda[d] # <<>> /\ agenda'[d] = Tail(agenda[d])
              /\ request'[d] = request[d]
<1> DEFINE Goes == \A d \in Visitors :
           \/ agenda'[d] = <<>> /\ request'[d] = NoRequest
           \/ agenda'[d] \in {agenda[d], <<"verify">>} /\ request'[d] = request[d]
           \/ /\ agenda[d] # <<>> /\ agenda'[d] = Tail(agenda[d])
              /\ request'[d] = request[d]
<1>1. DOMAIN agenda = Visitors /\ DOMAIN request = Visitors
  BY DEF IdInv
<1>2. Answer(c) => Goes
  BY <1>1 DEF Answer
<1>3. agenda[c] # <<>> /\ Proceed(c) => Goes
  BY <1>1 DEF Proceed
<1>4. agenda[c] # <<>> /\ Resolve(c) => Goes
  BY <1>2, <1>3 DEF Resolve
<1>5. CreateSecret(c) => Goes
  BY <1>1, <1>2 DEF CreateSecret
<1> HIDE DEF Goes
<1>6. /\ KnownKey(c) \/ VerifySecret(c) \/ NameIsFree(c) => Goes
      /\ EnsureProfile(c) \/ EnsureUserAccount(c) \/ KeyIsFree(c) => Goes
      /\ BindKey(c) \/ SetMailToken(c) \/ Rename(c) \/ Disconnect(c) => Goes
  BY <1>2, <1>3, <1>4 DEF KnownKey, VerifySecret, NameIsFree, EnsureProfile,
     EnsureUserAccount, KeyIsFree, BindKey, SetMailToken, Rename, Disconnect, Due
<1> QED
  BY <1>5, <1>6 DEF IdentityStatement, Goes

(* So it binds no more than before. *)
LEMMA BindsLess ==
  ASSUME NEW a, Shape(a), a # <<>>, Binds(Tail(a))
  PROVE  Binds(a)
<1>1. /\ Len(a) \in Nat /\ Len(Tail(a)) = Len(a) - 1
      /\ \A i \in 1..Len(a) - 1 : Tail(a)[i] = a[i + 1]
  BY DEF Shape
<1>2. PICK i \in 1..Len(Tail(a)) : Tail(a)[i] = "bind"
  BY DEF Binds
<1>3. i + 1 \in 1..Len(a) /\ a[i + 1] = "bind"
  BY <1>1, <1>2
<1> QED
  BY <1>3 DEF Binds

(* The rows that a statement writes are of its call. *)
LEMMA RowsTyped ==
  ASSUME IdInv, IdTypes, NEW c \in Visitors, IdentityStatement(c) \/ Disconnect(c)
  PROVE  /\ profile' \in [People -> Users \cup ValidNames \cup {Nobody}]
         /\ sshKeys' \subseteq Users \X Keys \X People
<1> DEFINE r == request[c]
           Rows == /\ profile' \in [People -> Users \cup ValidNames \cup {Nobody}]
                   /\ sshKeys' \subseteq Users \X Keys \X People
<1>1. /\ profile \in [People -> Users \cup ValidNames \cup {Nobody}]
      /\ sshKeys \subseteq Users \X Keys \X People
  BY DEF IdTypes, IdentitiesTypeOK
<1>2. agenda[c] # <<>> => r \in IdentityCall /\ r.user \in Users /\ r.player \in People
  BY DEF IdInv, IdentityCall, Calls
<1>3. EnsureProfile(c) => Rows
  BY <1>1, <1>2 DEF EnsureProfile, Due
<1>4. Rename(c) => Rows
  <2> SUFFICES ASSUME Rename(c) PROVE Rows
    OBVIOUS
  <2>1. agenda[c] # <<>> /\ sshKeys' = sshKeys
    BY DEF Rename, Due
  <2>2. PICK name \in ValidNames :
           profile' = IF NameTaken(name, r.player) THEN profile
                                                   ELSE [profile EXCEPT ![r.player] = name]
    BY DEF Rename
  <2> QED
    BY <1>1, <1>2, <2>1, <2>2
<1>5. BindKey(c) => Rows
  <2> SUFFICES ASSUME BindKey(c) PROVE Rows
    OBVIOUS
  <2>1. agenda[c] # <<>> /\ Head(agenda[c]) = "bind" /\ Shape(agenda[c]) /\ profile' = profile
    BY DEF BindKey, Due, IdInv
  <2>2. Len(agenda[c]) \in Nat /\ Len(agenda[c]) > 0 /\ agenda[c][1] = "bind"
    BY <2>1 DEF Shape
  <2>3. Binds(agenda[c])
    BY <2>2 DEF Binds
  <2>4. r.key \in Keys
    BY <2>3 DEF IdTypes
  <2>5. <<r.user, r.key, r.player>> \in Users \X Keys \X People
    BY <1>2, <2>1, <2>4
  <2>6. sshKeys' \subseteq sshKeys \cup {<<r.user, r.key, r.player>>}
    BY DEF BindKey
  <2> QED
    BY <1>1, <2>1, <2>5, <2>6
<1>6. UNCHANGED <<profile, sshKeys>> => Rows
  BY <1>1
<1> HIDE DEF Rows
<1>7. /\ KnownKey(c) \/ VerifySecret(c) \/ NameIsFree(c) => Rows
      /\ EnsureUserAccount(c) \/ KeyIsFree(c) => Rows
      /\ CreateSecret(c) \/ SetMailToken(c) \/ Disconnect(c) => Rows
  BY <1>6 DEF KnownKey, VerifySecret, NameIsFree, EnsureUserAccount, KeyIsFree,
     CreateSecret, SetMailToken, Disconnect, idTables
<1> QED
  BY <1>3, <1>4, <1>5, <1>7 DEF IdentityStatement, Rows

(* Every step of a call keeps the types. *)
LEMMA IdTypesKeep ==
  ASSUME IdInv, IdTypes, NEW c \in Visitors, NEW menu \in SUBSET IdentityCall,
         IdentityStep(c, menu)
  PROVE  IdTypes'
<1>1. CASE \E call \in menu : BeginIdentity(c, call)
  <2>1. PICK call \in menu : BeginIdentity(c, call)
    BY <1>1
  <2>a. call \in IdentityCall
    BY <2>1
  <2>b. /\ UNCHANGED idTables
        /\ agenda' = [agenda EXCEPT ![c] = Agenda(call.op)]
        /\ request' = [request EXCEPT ![c] = call]
    BY <2>1 DEF BeginIdentity
  <2>c. DOMAIN agenda = Visitors /\ DOMAIN request = Visitors
    BY DEF IdInv
  <2>d. ASSUME NEW d \in Visitors
        PROVE  \/ agenda'[d] = Agenda(call.op) /\ request'[d] = call
               \/ agenda'[d] = agenda[d] /\ request'[d] = request[d]
    BY <2>b, <2>c
  <2>2. call \in IdentityCall /\ UNCHANGED idTables
    BY <2>a, <2>b
  <2>3. Binds(Agenda(call.op)) => call.key \in Keys
    <3>1. CASE call.op = "key"
      BY <3>1, <2>2 DEF IdentityCall, Calls
    <3>2. CASE call.op # "key"
      <4>1. Agenda(call.op) \in {<<"verify", "free", "profile", "account", "profile", "secret">>,
                                 <<"profile", "account", "profile", "token">>, <<"rename">>}
        BY <3>2, <2>2 DEF IdentityCall, Calls, Agenda
      <4>2. ~Binds(<<"verify", "free", "profile", "account", "profile", "secret">>)
        BY DEF Binds
      <4>3. ~Binds(<<"profile", "account", "profile", "token">>) /\ ~Binds(<<"rename">>)
        BY DEF Binds
      <4> QED
        BY <4>1, <4>2, <4>3
    <3> QED
      BY <3>1, <3>2
  <2> QED
    BY <2>2, <2>d, <2>3 DEF IdTypes, IdentitiesTypeOK, idTables
<1>2. CASE IdentityStatement(c) \/ Disconnect(c)
  <2>1. IdInv'
    BY IdentityStepKeeps
  <2>2. ~Binds(<<>>) /\ ~Binds(<<"verify">>)
    BY DEF Binds
  <2>3. \A d \in Visitors : /\ Binds(agenda'[d]) => request'[d].key \in Keys
                            /\ request'[d] \in IdentityCall \cup {NoRequest}
    BY <1>2, <2>2, CallsGo, BindsLess DEF IdInv, IdTypes, IdentitiesTypeOK
  <2>4. /\ account' \in [Users -> People \cup {Nobody}]
        /\ {secrets', mailTokens'} \subseteq [Users -> People \cup {Nobody}]
    BY <2>1 DEF IdInv
  <2> QED
    BY <1>2, <2>3, <2>4, RowsTyped DEF IdTypes, IdentitiesTypeOK
<1> QED
  BY <1>1, <1>2 DEF IdentityStep

---------------------------------------------------------------------------
(* RESIDENTS *)

(* A state no later than a day, its progress no more than its report day.  *)
Progress(m) == Last(m, "progress", 0)
Sound(m, d) == m.reportDay \in 0..d /\ Progress(m) \in 0..m.reportDay

(* A call works from a state that is sound on the day it reads afterwards. *)
DayOf(c) == IF c.day = None THEN day ELSE c.day

ResInv ==
  /\ day \in Nat
  /\ DOMAIN selfModel = Residents /\ DOMAIN turn = Terminals
  /\ \A r \in Residents : Sound(selfModel[r], day)
  /\ \A t \in Terminals :
       /\ turn[t] = [op |-> turn[t].op, seen |-> turn[t].seen,
                     action |-> turn[t].action, prev |-> turn[t].prev,
                     day |-> turn[t].day]
       /\ turn[t].day \in 0..day
       /\ turn[t].day # None => turn[t].prev # NoModel
       /\ Sound(turn[t].prev, DayOf(turn[t]))

---------------------------------------------------------------------------
(* States that are sound. *)

(* No model, and the state a resident begins with, are sound on any day. *)
LEMMA BeginningsSound ==
  ASSUME NEW d \in Nat
  PROVE  Sound(NoModel, d) /\ Sound(DefaultState, d)
BY DEF Sound, Progress, Last, NoModel, DefaultState, None

(* Days pass, and a state stays sound. *)
LEMMA SoundLater ==
  ASSUME NEW m, NEW d \in Nat, NEW e \in Nat, d <= e, Sound(m, d)
  PROVE  Sound(m, e)
BY DEF Sound

(* What an observation makes of a sound state is sound on the day of the   *)
(* call, and leaves its progress.                                          *)
LEMMA ContextSound ==
  ASSUME NEW obs, NEW prev, NEW d \in Nat, Sound(prev, d)
  PROVE  Sound(ResidentCurrentState(obs, prev, d, "observe", Meters(obs, prev, d)), d)
<1> DEFINE m == Meters(obs, prev, d)
           new == ResidentCurrentState(obs, prev, d, "observe", m)
<1>1. ~CompletesDailyReport(prev, d, "observe")
  BY DEF CompletesDailyReport
<1>2. m.progress = Progress(prev)
  <2>1. CASE Stored(obs, prev, d)
    <3>1. m = [f \in {"progress", "lonely", "bored"} |-> prev.snap[1][f]]
      BY <2>1 DEF Meters
    <3>2. m.progress = prev.snap[1].progress
      BY <3>1
    <3> QED
      BY <2>1, <3>2 DEF Stored, Progress, Last
  <2>2. CASE ~Stored(obs, prev, d)
    <3>1. m = ResidentObservedTaskState(obs, prev, d, "observe")
      BY <2>2 DEF Meters
    <3>2. m.progress = Progress(prev) + 0
      BY <1>1, <3>1 DEF ResidentObservedTaskState, Progress
    <3> QED
      BY <3>2 DEF Sound
  <2> QED
    BY <2>1, <2>2
<1>3. new.reportDay = prev.reportDay /\ Progress(new) = m.progress
  BY <1>1 DEF ResidentCurrentState, Progress, Last
<1> QED
  BY <1>2, <1>3 DEF Sound

(* So is what a step makes of it: the one more of progress comes with the  *)
(* day of the report, which was an earlier one.                            *)
LEMMA StepSound ==
  ASSUME NEW obs, NEW prev, NEW d \in Nat, NEW action, Sound(prev, d)
  PROVE  Sound(ResidentCurrentState(obs, prev, d, action,
                 ResidentObservedTaskState(obs, prev, d, action)), d)
<1> DEFINE m == ResidentObservedTaskState(obs, prev, d, action)
           new == ResidentCurrentState(obs, prev, d, action, m)
           done == CompletesDailyReport(prev, d, action)
<1>1. m.progress = Progress(prev) + (IF done THEN 1 ELSE 0)
  BY DEF ResidentObservedTaskState, Progress
<1>2. new.reportDay = (IF done THEN d ELSE prev.reportDay) /\ Progress(new) = m.progress
  BY DEF ResidentCurrentState, Progress, Last
<1>3. done => prev.reportDay # d
  BY DEF CompletesDailyReport, ReportDue
<1> HIDE DEF m, new, done
<1>4. Sound(new, d)
  BY <1>1, <1>2, <1>3 DEF Sound
<1> QED
  BY <1>4 DEF new, m

---------------------------------------------------------------------------
(* The invariant. *)

(* It holds at first, it is about the variables of Residents alone, and it *)
(* says that progress counts days.                                         *)
LEMMA ResInvInit == ResidentsInit => ResInv
<1> SUFFICES ASSUME ResidentsInit PROVE ResInv
  OBVIOUS
<1>1. day = 1 /\ day \in Nat
  BY DEF ResidentsInit
<1>2. Sound(NoModel, day)
  BY <1>1, BeginningsSound
<1>3. \A t \in Terminals : turn[t] = NoTurn
  BY DEF ResidentsInit
<1>4. NoTurn.prev = NoModel /\ NoTurn.day = None
      /\ NoTurn = [op |-> NoTurn.op, seen |-> NoTurn.seen, action |-> NoTurn.action,
                   prev |-> NoTurn.prev, day |-> NoTurn.day]
  BY DEF NoTurn
<1> QED
  BY <1>1, <1>2, <1>3, <1>4 DEF ResInv, ResidentsInit, DayOf, None

(* Steps of the other parts of the town leave the residents alone. *)
LEMMA ResUnchanged == ResInv /\ UNCHANGED residentVars => ResInv'
BY DEF ResInv, residentVars, DayOf, Sound, Progress

(* The property is a part of the invariant. *)
LEMMA ResInvImplies == ResInv => ProgressCountsDays
BY DEF ResInv, ProgressCountsDays, Sound, Progress

(* A connection whose call ends, and one whose call begins. *)
LEMMA EndSound ==
  ASSUME ResInv, NEW t \in Terminals, NEW x, x = NoTurn
  PROVE  /\ x = [op |-> x.op, seen |-> x.seen, action |-> x.action,
                 prev |-> x.prev, day |-> x.day]
         /\ x.day = None /\ x.prev = NoModel
         /\ Sound(x.prev, day)
<1>1. Sound(NoModel, day)
  BY BeginningsSound DEF ResInv
<1> QED
  BY <1>1 DEF NoTurn

(* A turn begins with nothing read. *)
LEMMA BeginTurnKeeps ==
  ASSUME ResInv, NEW t \in Terminals,
         NEW obs, \/ BeginContext(t, obs)
                  \/ \E c \in TaskCommands : BeginStep(t, obs, c)
  PROVE  ResInv'
<1>1. /\ UNCHANGED <<selfModel, day>>
      /\ turn[t] = NoTurn
      /\ DOMAIN turn' = DOMAIN turn
      /\ \A u \in Terminals \ {t} : turn'[u] = turn[u]
  BY DEF BeginContext, BeginStep, ResInv
<1>2. \E op, action : turn'[t] = [op |-> op, seen |-> <<obs>>, action |-> action,
                                  prev |-> NoModel, day |-> None]
  <2>1. t \in DOMAIN turn
    BY DEF ResInv
  <2>2. CASE BeginContext(t, obs)
    <3>1. turn'[t] = [op |-> "context", seen |-> <<obs>>, action |-> "observe",
                      prev |-> NoModel, day |-> None]
      BY <2>1, <2>2 DEF BeginContext, Call
    <3> QED
      BY <3>1
  <2>3. ASSUME NEW c \in TaskCommands, BeginStep(t, obs, c)
        PROVE  \E op, action : turn'[t] = [op |-> op, seen |-> <<obs>>, action |-> action,
                                  prev |-> NoModel, day |-> None]
    <3>1. turn'[t] = [op |-> "step", seen |-> <<obs>>, action |-> LoopAction(c),
                      prev |-> NoModel, day |-> None]
      BY <2>1, <2>3 DEF BeginStep, Call
    <3> QED
      BY <3>1
  <2> QED
    BY <2>2, <2>3
<1>3. Sound(NoModel, day)
  BY BeginningsSound DEF ResInv
<1>4. turn'[t].prev = NoModel /\ turn'[t].day = None
      /\ turn'[t] = [op |-> turn'[t].op, seen |-> turn'[t].seen,
                     action |-> turn'[t].action, prev |-> turn'[t].prev,
                     day |-> turn'[t].day]
  BY <1>2
<1> QED
  BY <1>1, <1>3, <1>4 DEF ResInv, DayOf, Sound, Progress, None

(* The model is the one kept, or a new one, which has no progress. *)
LEMMA EnsureKeeps ==
  ASSUME ResInv, NEW t \in Terminals, EnsureSelfModel(t)
  PROVE  ResInv'
<1> DEFINE r == ResidentOf[t]
           model == IF selfModel[r] # NoModel /\ madeBy[r] = texts
                    THEN selfModel[r] ELSE DefaultState
<1>0. r \in Residents /\ turn[t].day = None
  BY ResidentsAssumption DEF EnsureSelfModel, ResInv
<1>1. /\ UNCHANGED day
      /\ selfModel' = [selfModel EXCEPT ![r] = model]
      /\ turn' = [turn EXCEPT ![t].prev = model]
  BY DEF EnsureSelfModel
<1>2. Sound(model, day)
  BY <1>0, BeginningsSound DEF ResInv
<1> HIDE DEF model
<1>3. /\ DOMAIN selfModel' = Residents
      /\ \A x \in Residents : selfModel'[x] = (IF x = r THEN model ELSE selfModel[x])
  BY <1>1 DEF ResInv
<1>4. /\ DOMAIN turn' = Terminals
      /\ \A u \in Terminals \ {t} : turn'[u] = turn[u]
      /\ turn'[t] = [op |-> turn[t].op, seen |-> turn[t].seen,
                     action |-> turn[t].action, prev |-> model, day |-> turn[t].day]
  BY <1>1 DEF ResInv
<1>5. turn'[t].day = None /\ turn'[t].prev = model
      /\ turn'[t] = [op |-> turn'[t].op, seen |-> turn'[t].seen,
                     action |-> turn'[t].action, prev |-> turn'[t].prev,
                     day |-> turn'[t].day]
  BY <1>0, <1>4
<1>6. day' = day
  BY <1>1
<1>7. \A x \in Residents : Sound(selfModel'[x], day)
  BY <1>2, <1>3 DEF ResInv
<1>8. \A u \in Terminals \ {t} :
         /\ turn'[u] = turn[u]
         /\ DayOf(turn[u])' = DayOf(turn[u])
  BY <1>4, <1>6 DEF DayOf
<1> QED
  BY <1>2, <1>3, <1>4, <1>5, <1>6, <1>7, <1>8 DEF ResInv, DayOf, Sound, Progress, None

(* A turn's day is not after today. *)
LEMMA ReadClockKeeps ==
  ASSUME ResInv, NEW t \in Terminals, ReadClock(t)
  PROVE  ResInv'
<1>1. /\ UNCHANGED <<selfModel, day>>
      /\ turn' = [turn EXCEPT ![t].day = day]
      /\ turn[t].prev # NoModel /\ turn[t].day = None
  BY DEF ReadClock
<1>2. /\ DOMAIN turn' = Terminals
      /\ \A u \in Terminals \ {t} : turn'[u] = turn[u]
      /\ turn'[t] = [op |-> turn[t].op, seen |-> turn[t].seen,
                     action |-> turn[t].action, prev |-> turn[t].prev, day |-> day]
  BY <1>1 DEF ResInv
<1>3. turn'[t].day = day /\ turn'[t].prev = turn[t].prev
      /\ turn'[t] = [op |-> turn'[t].op, seen |-> turn'[t].seen,
                     action |-> turn'[t].action, prev |-> turn'[t].prev,
                     day |-> turn'[t].day]
  BY <1>2
<1>4. Sound(turn[t].prev, day)
  BY <1>1 DEF ResInv, DayOf
<1> QED
  BY <1>1, <1>2, <1>3, <1>4 DEF ResInv, DayOf, Sound, Progress, None

(* A call ends, with a sound state recorded or none. *)
LEMMA EndTurnKeeps ==
  ASSUME ResInv, NEW t \in Terminals, EndTurn(t),
         NEW m, Sound(m, day),
         \/ UNCHANGED selfModel
         \/ selfModel' = [selfModel EXCEPT ![ResidentOf[t]] = m]
  PROVE  ResInv'
<1>1. /\ UNCHANGED day /\ DOMAIN turn' = Terminals
      /\ \A u \in Terminals \ {t} : turn'[u] = turn[u]
      /\ turn'[t] = NoTurn
  BY DEF EndTurn, ResInv
<1>2. /\ turn'[t] = [op |-> turn'[t].op, seen |-> turn'[t].seen,
                     action |-> turn'[t].action, prev |-> turn'[t].prev,
                     day |-> turn'[t].day]
      /\ turn'[t].day = None /\ turn'[t].prev = NoModel
      /\ Sound(turn'[t].prev, day)
  BY <1>1, EndSound
<1>3. /\ DOMAIN selfModel' = Residents
      /\ \A x \in Residents : selfModel'[x] \in {selfModel[x], m}
  BY DEF ResInv
<1> HIDE DEF NoTurn
<1> QED
  BY <1>1, <1>2, <1>3 DEF ResInv, DayOf, Sound, Progress, None

(* A state that is written is sound, however stale what it was made from. *)
LEMMA RecordKeepsSound ==
  ASSUME ResInv, NEW t \in Terminals, RecordContext(t) \/ RecordStep(t)
  PROVE  ResInv'
<1> DEFINE c == turn[t]
<1>1. c.day \in Nat /\ c.day <= day /\ day \in Nat /\ Sound(c.prev, c.day)
  BY DEF RecordContext, RecordStep, ResInv, DayOf, None
<1>2. CASE RecordContext(t)
  <2> DEFINE m == ResidentCurrentState(c.seen[1], c.prev, c.day, "observe",
                                       Meters(c.seen[1], c.prev, c.day))
  <2>1. Sound(m, c.day)
    BY <1>1, ContextSound
  <2>2. Sound(m, day)
    BY <1>1, <2>1, SoundLater
  <2>3. EndTurn(t) /\ selfModel' = [selfModel EXCEPT ![ResidentOf[t]] = m]
    BY <1>2 DEF RecordContext
  <2> HIDE DEF m
  <2> QED
    BY <2>2, <2>3, EndTurnKeeps
<1>3. CASE RecordStep(t)
  <2> DEFINE m == ResidentCurrentState(c.seen[1], c.prev, c.day, c.action,
                    ResidentObservedTaskState(c.seen[1], c.prev, c.day, c.action))
  <2>1. Sound(m, c.day)
    BY <1>1, StepSound
  <2>2. Sound(m, day)
    BY <1>1, <2>1, SoundLater
  <2>3. EndTurn(t) /\ selfModel' = [selfModel EXCEPT ![ResidentOf[t]] = m]
    BY <1>3 DEF RecordStep
  <2> HIDE DEF m
  <2> QED
    BY <2>2, <2>3, EndTurnKeeps
<1> QED
  BY <1>2, <1>3

(* Every statement of a turn keeps the invariant. *)
LEMMA TurnStepKeeps ==
  ASSUME ResInv, NEW t \in Terminals, TurnStep(t)
  PROVE  ResInv'
<1>1. CASE EnsureSelfModel(t)
  BY <1>1, EnsureKeeps
<1>2. CASE ReadClock(t)
  BY <1>2, ReadClockKeeps
<1>3. CASE RecordContext(t) \/ RecordStep(t)
  BY <1>3, RecordKeepsSound
<1>4. CASE GiveUp(t)
  <2>1. Sound(NoModel, day)
    BY BeginningsSound DEF ResInv
  <2> QED
    BY <1>4, <2>1, EndTurnKeeps DEF GiveUp
<1> QED
  BY <1>1, <1>2, <1>3, <1>4 DEF TurnStep

(* Days pass, and the server comes back. *)
LEMMA DayPassesKeeps ==
  ASSUME ResInv, DayPasses
  PROVE  ResInv'
<1>1. day \in Nat /\ day' = day + 1 /\ UNCHANGED <<selfModel, turn>>
  BY DEF DayPasses, ResInv
<1>2. \A r \in Residents : Sound(selfModel[r], day + 1)
  BY <1>1, SoundLater DEF ResInv
<1>3. \A t \in Terminals : /\ turn[t].day \in 0..(day + 1)
                           /\ Sound(turn[t].prev, DayOf(turn[t])')
  BY <1>1, SoundLater DEF ResInv, DayOf, None
<1> QED
  BY <1>1, <1>2, <1>3 DEF ResInv, DayOf, Sound, Progress

(* An upgrade of the server ends the turns and writes no model. *)
LEMMA UpgradeKeeps ==
  ASSUME ResInv, Upgrade
  PROVE  ResInv'
<1>1. UNCHANGED <<selfModel, day>> /\ turn' = [t \in Terminals |-> NoTurn]
  BY DEF Upgrade
<1>2. \A t \in Terminals :
        /\ turn'[t] = [op |-> turn'[t].op, seen |-> turn'[t].seen,
                       action |-> turn'[t].action, prev |-> turn'[t].prev,
                       day |-> turn'[t].day]
        /\ turn'[t].day = None /\ turn'[t].prev = NoModel
        /\ Sound(turn'[t].prev, day)
  BY <1>1, EndSound
<1> QED
  BY <1>1, <1>2 DEF ResInv, DayOf, Sound, Progress, None

---------------------------------------------------------------------------
(* Types.  The searches of a state stay within their bound, and what       *)
(* presses a resident within its own.                                      *)
Pressures(x)   == x.lonely \in 0..MaxPressure /\ x.bored \in 0..MaxPressure
Measured(m, d) == /\ m.searchDay \in 0..d
                  /\ m = NoModel \/ m.searches \in 0..MaxSearches
                  /\ m.snap # <<>> => Pressures(m.snap[1])

ResTypes ==
  /\ \A r \in Residents : Measured(selfModel[r], day)
  /\ \A t \in Terminals : /\ Measured(turn[t].prev, DayOf(turn[t]))
                          /\ turn[t].op # "none" => turn[t].seen[1] \in Observation

(* No model, and the state a resident begins with, on any day. *)
LEMMA BeginningsMeasured ==
  ASSUME NEW d \in Nat
  PROVE  Measured(NoModel, d) /\ Measured(DefaultState, d)
BY ResidentsAssumption DEF Measured, NoModel, DefaultState, None

(* On a later day a state is what it was. *)
LEMMA MeasuredLater ==
  ASSUME NEW m, NEW d \in Nat, NEW e \in Nat, d <= e, Measured(m, d)
  PROVE  Measured(m, e)
BY DEF Measured

(* The rules that move the pressures stay within their bounds. *)
LEMMA PressuresStay ==
  ASSUME NEW prev, NEW d \in Nat, Measured(prev, d), NEW obs \in Observation, NEW action
  PROVE  Pressures(ResidentObservedTaskState(obs, prev, d, action))
<1> DEFINE n    == Cardinality(obs.users)
           done == CompletesDailyReport(prev, d, action)
           l    == Last(prev, "lonely", DefaultLoneliness)
           b    == Last(prev, "bored", DefaultBoredom)
           new  == ResidentObservedTaskState(obs, prev, d, action)
<1>1. n \in Nat
  <2>1. obs.users \in SUBSET Folk /\ IsFiniteSet(Folk)
    BY ResidentsAssumption DEF Observation
  <2> QED
    BY <2>1, FS_Subset, FS_CardinalityType
<1>2. MaxPressure \in Nat /\ l \in 0..MaxPressure /\ b \in 0..MaxPressure
  BY ResidentsAssumption DEF Measured, Pressures, Last
<1>3. \A p \in 0..MaxPressure : /\ \A k \in Nat : Relieved(p, k) \in 0..MaxPressure
                                /\ Raised(p) \in 0..MaxPressure
  BY <1>2 DEF Relieved, Raised
<1> HIDE DEF n, l, b, done
<1>4. /\ new.lonely = NextLonelinessPoints(prev, n, action, done)
      /\ new.bored = NextBoredomPoints(prev, n, action, done)
  BY DEF ResidentObservedTaskState, n, done
<1>5. NextLonelinessPoints(prev, n, action, done) \in {Relieved(l, n), Relieved(l, 1), l, Raised(l)}
  <2>1. CASE n > 0
    BY <2>1 DEF NextLonelinessPoints, l
  <2>2. CASE n = 0 /\ (action = "search" \/ done)
    BY <2>2 DEF NextLonelinessPoints, l
  <2>3. CASE n = 0 /\ ~(action = "search" \/ done)
    BY <2>3 DEF NextLonelinessPoints, l
  <2> QED
    BY <1>1, <2>1, <2>2, <2>3
<1>6. NextBoredomPoints(prev, n, action, done) \in {Relieved(b, 1), b, Raised(b)}
  <2>1. CASE n > 0
    BY <2>1 DEF NextBoredomPoints, b
  <2>2. CASE n = 0 /\ (action = "search" \/ done)
    BY <2>2 DEF NextBoredomPoints, b
  <2>3. CASE n = 0 /\ ~(action = "search" \/ done)
    BY <2>3 DEF NextBoredomPoints, b
  <2> QED
    BY <1>1, <2>1, <2>2, <2>3
<1> HIDE DEF new
<1>7. Pressures(new)
  BY <1>1, <1>2, <1>3, <1>4, <1>5, <1>6 DEF Pressures
<1> QED
  BY <1>7 DEF new

(* What an observation tells is within bounds, or was. *)
LEMMA MetersStay ==
  ASSUME NEW prev, NEW d \in Nat, Measured(prev, d), NEW obs \in Observation
  PROVE  Pressures(Meters(obs, prev, d))
<1>1. CASE Stored(obs, prev, d)
  <2>1. Pressures(prev.snap[1])
    BY <1>1 DEF Stored, Measured
  <2>2. Meters(obs, prev, d) = [f \in {"progress", "lonely", "bored"} |-> prev.snap[1][f]]
    BY <1>1 DEF Meters
  <2> QED
    BY <2>1, <2>2 DEF Pressures
<1>2. CASE ~Stored(obs, prev, d)
  BY <1>2, PressuresStay DEF Meters
<1> QED
  BY <1>1, <1>2

(* The state that a call writes. *)
LEMMA WrittenMeasured ==
  ASSUME NEW prev, NEW d \in Nat, Measured(prev, d), prev # NoModel, NEW obs, NEW action,
         action = "search" => SearchesToday(prev, d) < MaxSearches,
         NEW meters, Pressures(meters)
  PROVE  Measured(ResidentCurrentState(obs, prev, d, action, meters), d)
<1> DEFINE new == ResidentCurrentState(obs, prev, d, action, meters)
<1>1. MaxSearches \in Nat /\ SearchesToday(prev, d) \in 0..MaxSearches
  BY ResidentsAssumption DEF Measured, SearchesToday
<1>2. new.searches = SearchesToday(prev, d) + (IF action = "search" THEN 1 ELSE 0)
  BY DEF ResidentCurrentState
<1>3. new.searchDay \in {d, None}
  BY DEF ResidentCurrentState
<1>4. new.snap[1].lonely = meters.lonely /\ new.snap[1].bored = meters.bored
  BY DEF ResidentCurrentState
<1> HIDE DEF new
<1>5. new.searches \in 0..MaxSearches
  BY <1>1, <1>2
<1>6. Measured(new, d)
  BY <1>3, <1>4, <1>5 DEF Measured, Pressures, None
<1> QED
  BY <1>6 DEF new

(* At first nothing is known of anybody. *)
LEMMA ResTypesInit == ResidentsInit => ResTypes
<1> SUFFICES ASSUME ResidentsInit PROVE ResTypes
  OBVIOUS
<1>1. Measured(NoModel, day) /\ NoTurn.prev = NoModel /\ NoTurn.op = "none" /\ NoTurn.day = None
  BY BeginningsMeasured DEF ResidentsInit, NoTurn
<1>2. \A t \in Terminals : turn[t] = NoTurn
  BY DEF ResidentsInit
<1>3. \A r \in Residents : selfModel[r] = NoModel
  BY DEF ResidentsInit
<1> QED
  BY <1>1, <1>2, <1>3 DEF ResTypes, DayOf, None

(* Steps of the other parts of the town. *)
LEMMA ResTypesUnchanged == ResTypes /\ UNCHANGED residentVars => ResTypes'
BY DEF ResTypes, residentVars, DayOf, Measured

(* What the type invariant says is a part of it. *)
LEMMA ResTyped == ResInv /\ ResTypes => ResidentsTypeOK
<1> SUFFICES ASSUME ResInv, ResTypes, NEW r \in Residents, selfModel[r] # NoModel
             PROVE  /\ selfModel[r].searches \in 0..MaxSearches
                    /\ {selfModel[r].reportDay, selfModel[r].searchDay} \subseteq 0..day
                    /\ {Last(selfModel[r], "lonely", 0), Last(selfModel[r], "bored", 0)}
                          \subseteq 0..MaxPressure
  BY DEF ResidentsTypeOK
<1>1. Measured(selfModel[r], day) /\ Sound(selfModel[r], day) /\ MaxPressure \in Nat
  BY ResidentsAssumption DEF ResInv, ResTypes
<1> QED
  BY <1>1 DEF Measured, Sound, Pressures, Last

(* A call begins, goes on or ends; a state is written or none. *)
LEMMA TurnMeasured ==
  ASSUME ResInv, ResTypes, NEW t \in Terminals, NEW x, UNCHANGED day,
         turn' = [turn EXCEPT ![t] = x], Measured(x.prev, DayOf(x)),
         x.op # "none" => x.seen[1] \in Observation,
         NEW m, Measured(m, day),
         \/ UNCHANGED selfModel
         \/ selfModel' = [selfModel EXCEPT ![ResidentOf[t]] = m]
  PROVE  ResTypes'
<1>1. \A r \in Residents : selfModel'[r] \in {selfModel[r], m}
  BY DEF ResInv
<1>2. \A u \in Terminals : turn'[u] \in {turn[u], x}
  BY DEF ResInv
<1>3. \A u \in Terminals : DayOf(turn[u])' = DayOf(turn'[u])
  BY DEF DayOf
<1>4. ASSUME NEW u \in Terminals
      PROVE  /\ Measured(turn'[u].prev, DayOf(turn'[u]))
             /\ turn'[u].op # "none" => turn'[u].seen[1] \in Observation
  BY <1>2 DEF ResTypes
<1>5. \A r \in Residents : Measured(selfModel'[r], day)
  BY <1>1 DEF ResTypes
<1> QED
  BY <1>3, <1>4, <1>5 DEF ResTypes, Measured

(* A turn begins with an observation. *)
LEMMA BeginTurnTyped ==
  ASSUME ResInv, ResTypes, NEW t \in Terminals, NEW obs \in Observation,
         \/ BeginContext(t, obs)
         \/ \E c \in TaskCommands : BeginStep(t, obs, c)
  PROVE  ResTypes'
<1>1. \E op, action : turn' = [turn EXCEPT ![t] = Call(op, obs, action)]
  BY DEF BeginContext, BeginStep
<1>2. PICK op, action : turn' = [turn EXCEPT ![t] = Call(op, obs, action)]
  BY <1>1
<1>3. PICK x : x = Call(op, obs, action)
  OBVIOUS
<1>4. x.prev = NoModel /\ x.day = None /\ x.seen[1] = obs
  BY <1>3 DEF Call
<1>5. Measured(NoModel, day) /\ DayOf(x) = day
  BY <1>4, BeginningsMeasured DEF ResInv, DayOf
<1>6. UNCHANGED <<selfModel, day>>
  BY DEF BeginContext, BeginStep
<1> QED
  BY <1>2, <1>3, <1>4, <1>5, <1>6, TurnMeasured

(* Every statement of a turn keeps the types. *)
LEMMA TurnStepTyped ==
  ASSUME ResInv, ResTypes, NEW t \in Terminals, TurnStep(t)
  PROVE  ResTypes'
<1> DEFINE c == turn[t]
<1>0. /\ day \in Nat /\ Measured(NoModel, day) /\ Measured(DefaultState, day)
      /\ NoTurn.prev = NoModel /\ NoTurn.op = "none" /\ DayOf(NoTurn) = day
  BY BeginningsMeasured DEF ResInv, NoTurn, DayOf
<1>e. EndTurn(t) => turn' = [turn EXCEPT ![t] = NoTurn] /\ day' = day
  BY DEF EndTurn
<1>1. /\ c = [op |-> c.op, seen |-> c.seen, action |-> c.action, prev |-> c.prev, day |-> c.day]
      /\ c.op # "none" => c.seen[1] \in Observation
      /\ Measured(c.prev, DayOf(c)) /\ c.day \in 0..day
      /\ c.day # None => c.prev # NoModel
  BY DEF ResInv, ResTypes
<1>2. CASE EnsureSelfModel(t)
  <2>1. PICK m : /\ m \in {selfModel[ResidentOf[t]], DefaultState}
                   /\ selfModel' = [selfModel EXCEPT ![ResidentOf[t]] = m]
                   /\ turn' = [turn EXCEPT ![t].prev = m]
    BY <1>2 DEF EnsureSelfModel
  <2>2. ResidentOf[t] \in Residents /\ UNCHANGED day /\ c.prev = NoModel
    BY <1>2, ResidentsAssumption DEF EnsureSelfModel
  <2>3. Measured(m, day)
    BY <1>0, <2>1, <2>2 DEF ResTypes
  <2>4. PICK x : x = [c EXCEPT !.prev = m]
    OBVIOUS
  <2>5. x.op = c.op /\ x.seen = c.seen /\ x.day = c.day /\ x.prev = m
    BY <1>1, <2>4
  <2>6. turn' = [turn EXCEPT ![t] = x]
    BY <2>1, <2>4
  <2>7. c.day = None
    BY <1>1, <2>2
  <2>8. DayOf(x) = day
    BY <2>5, <2>7 DEF DayOf
  <2> QED
    BY <1>1, <2>1, <2>2, <2>3, <2>5, <2>6, <2>8, TurnMeasured
<1>3. CASE ReadClock(t)
  <2>1. turn' = [turn EXCEPT ![t].day = day] /\ UNCHANGED <<selfModel, day>> /\ c.day = None
    BY <1>3 DEF ReadClock
  <2>2. PICK x : x = [c EXCEPT !.day = day]
    OBVIOUS
  <2>3. x.op = c.op /\ x.seen = c.seen /\ x.day = day /\ x.prev = c.prev
    BY <1>1, <2>2
  <2>4. turn' = [turn EXCEPT ![t] = x]
    BY <2>1, <2>2
  <2>5. DayOf(x) = day /\ DayOf(c) = day
    BY <2>1, <2>3 DEF DayOf
  <2>6. Measured(x.prev, DayOf(x)) /\ (x.op # "none" => x.seen[1] \in Observation)
    BY <1>1, <2>3, <2>5
  <2>7. UNCHANGED selfModel /\ UNCHANGED day
    BY <2>1
  <2> QED
    BY <1>0, <2>4, <2>6, <2>7, TurnMeasured
<1>4. CASE RecordContext(t)
  <2>1. /\ c.op = "context" /\ c.day # None /\ EndTurn(t)
        /\ selfModel' = [selfModel EXCEPT ![ResidentOf[t]] =
              ResidentCurrentState(c.seen[1], c.prev, c.day, "observe",
                                   Meters(c.seen[1], c.prev, c.day))]
    BY <1>4 DEF RecordContext
  <2>2. /\ c.seen[1] \in Observation /\ c.day \in Nat /\ c.day <= day /\ c.prev # NoModel
        /\ Measured(c.prev, c.day)
    BY <1>0, <1>1, <2>1 DEF DayOf
  <2>3. PICK m : m = ResidentCurrentState(c.seen[1], c.prev, c.day, "observe",
                                          Meters(c.seen[1], c.prev, c.day))
    OBVIOUS
  <2>4. Pressures(Meters(c.seen[1], c.prev, c.day))
    BY <2>2, MetersStay
  <2>5. Measured(m, c.day)
    BY <2>2, <2>3, <2>4, WrittenMeasured
  <2>6. Measured(m, day)
    BY <1>0, <2>2, <2>5, MeasuredLater
  <2> QED
    BY <1>0, <1>e, <2>1, <2>3, <2>6, TurnMeasured
<1>5. CASE RecordStep(t)
  <2>1. /\ c.op = "step" /\ c.day # None /\ EndTurn(t)
        /\ c.action = "search" => SearchesToday(c.prev, c.day) < MaxSearches
        /\ selfModel' = [selfModel EXCEPT ![ResidentOf[t]] =
              ResidentCurrentState(c.seen[1], c.prev, c.day, c.action,
                 ResidentObservedTaskState(c.seen[1], c.prev, c.day, c.action))]
    BY <1>5 DEF RecordStep
  <2>2. /\ c.seen[1] \in Observation /\ c.day \in Nat /\ c.day <= day /\ c.prev # NoModel
        /\ Measured(c.prev, c.day)
    BY <1>0, <1>1, <2>1 DEF DayOf
  <2>3. PICK m : m = ResidentCurrentState(c.seen[1], c.prev, c.day, c.action,
                 ResidentObservedTaskState(c.seen[1], c.prev, c.day, c.action))
    OBVIOUS
  <2>4. Pressures(ResidentObservedTaskState(c.seen[1], c.prev, c.day, c.action))
    BY <2>2, PressuresStay
  <2>5. Measured(m, c.day)
    BY <2>1, <2>2, <2>3, <2>4, WrittenMeasured
  <2>6. Measured(m, day)
    BY <1>0, <2>2, <2>5, MeasuredLater
  <2> QED
    BY <1>0, <1>e, <2>1, <2>3, <2>6, TurnMeasured
<1>6. CASE GiveUp(t)
  BY <1>0, <1>e, <1>6, TurnMeasured DEF GiveUp
<1> QED
  BY <1>2, <1>3, <1>4, <1>5, <1>6 DEF TurnStep

(* Days pass, and the server comes back. *)
LEMMA DaysTyped ==
  ASSUME ResInv, ResTypes, DayPasses \/ Upgrade
  PROVE  ResTypes'
<1>0. day \in Nat /\ Measured(NoModel, day) /\ NoTurn.prev = NoModel /\ NoTurn.op = "none"
      /\ NoTurn.day = None
  BY BeginningsMeasured DEF ResInv, NoTurn
<1>1. CASE DayPasses
  <2>1. day' = day + 1 /\ UNCHANGED <<selfModel, turn>>
    BY <1>1 DEF DayPasses
  <2>2. \A r \in Residents : Measured(selfModel[r], day + 1)
    BY <1>0, MeasuredLater DEF ResTypes
  <2>3. ASSUME NEW t \in Terminals PROVE Measured(turn[t].prev, DayOf(turn[t])')
    <3>1. Measured(turn[t].prev, DayOf(turn[t])) /\ turn[t].day \in 0..day
      BY DEF ResInv, ResTypes
    <3> QED
      BY <1>0, <2>1, <3>1, MeasuredLater DEF DayOf, None
  <2> QED
    BY <2>1, <2>2, <2>3 DEF ResTypes, Measured
<1>2. CASE Upgrade
  <2>1. UNCHANGED <<selfModel, day>> /\ \A t \in Terminals : turn'[t] = NoTurn
    BY <1>2 DEF Upgrade
  <2> QED
    BY <1>0, <2>1 DEF ResTypes, Measured, DayOf, None
<1> QED
  BY <1>1, <1>2
=============================================================================
