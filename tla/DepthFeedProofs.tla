---------------------------- MODULE DepthFeedProofs ----------------------------
(***************************************************************************)
(* The depth feed's lock discipline and the reach of its deletes, for any  *)
(* number of levels, seed threads, failures and drops.                     *)
(***************************************************************************)
EXTENDS DepthFeed, TLAPS

(* No delta is stranded in the held list once the book is live.             *)
THEOREM HeldDeltasAreTaken == Spec => []NothingStranded
<1>1. Init => NothingStranded
  BY DEF Init, NothingStranded
<1>2. NothingStranded /\ [Next]_vars => NothingStranded'
  <2> SUFFICES ASSUME NothingStranded, [Next]_vars PROVE NothingStranded'
    OBVIOUS
  <2>1. CASE Venue \/ UNCHANGED vars
    BY <2>1 DEF Venue, Change, RefreshCache, Drop, vars, NothingStranded
  <2>2. CASE Reader
    BY <2>2 DEF Reader, Reconnect, Receive, ReaderTranslate, ReaderFire, NothingStranded
  <2>3. ASSUME NEW t \in Seeders, Seeding(t) \/ SeedFails(t)
        PROVE  NothingStranded'
    BY <2>3
    DEF Seeding, SeedBegin, SeedFails, SeedRequest, SeedReconcile, SeedBelieve, SeedFire,
        Drain, ReplayTranslate, ReplayFire, ReplayDone, NothingStranded
  <2> QED  BY <2>1, <2>2, <2>3 DEF Next
<1> QED  BY <1>1, <1>2, PTL DEF Spec

--------------------------------------------------------------------------------

(* Whatever a thread is about to hand to the consumer has an id already, so *)
(* what the consumer ends up holding has one too.                           *)
Covered(update) == DOMAIN update.stored \subseteq known

IdsInv ==
  /\ DOMAIN seeder = Seeders
  /\ \A l \in Levels : quotes[l] # 0 => l \in known
  /\ reader.pc = "fire" => Covered(reader.update)
  /\ \A t \in Seeders :
       seeder[t].pc \in {"believe", "fire", "replayFire"} => Covered(seeder[t].update)

(* Handing over a covered update keeps the consumer's levels covered.       *)
LEMMA FireKeepsIds ==
  ASSUME IdsInv, NEW update, Covered(update)
  PROVE  \A l \in Levels : Applied(update)[l] # 0 => l \in known
BY DEF IdsInv, Covered, Applied

(* Ids are never taken back.                                                *)
LEMMA KnownGrows ==
  ASSUME [Next]_vars
  PROVE  known \subseteq known'
<1>1. CASE Venue \/ UNCHANGED vars
  BY <1>1 DEF Venue, Change, RefreshCache, Drop, vars, levelVars
<1>2. CASE Reader
  BY <1>2 DEF Reader, Reconnect, Receive, ReaderTranslate, ReaderFire, Translate, levelVars
<1>3. ASSUME NEW t \in Seeders, Seeding(t) \/ SeedFails(t)
      PROVE  known \subseteq known'
  BY <1>3
  DEF Seeding, SeedBegin, SeedFails, SeedRequest, SeedReconcile, SeedBelieve, SeedFire,
      Drain, ReplayTranslate, ReplayFire, ReplayDone, Translate, MintIds, levelVars
<1> QED  BY <1>1, <1>2, <1>3 DEF Next

(* A step of the reader or of the venue leaves the seed threads alone.      *)
LEMMA OthersKeepIds ==
  ASSUME IdsInv, [Next]_vars, UNCHANGED seeder,
         \A l \in Levels : quotes'[l] # 0 => l \in known',
         reader'.pc = "fire" => DOMAIN reader'.update.stored \subseteq known'
  PROVE  IdsInv'
BY KnownGrows DEF IdsInv, Covered

LEMMA SeederKeepsIds ==
  ASSUME IdsInv, [Next]_vars, NEW t \in Seeders, NEW next, Goto(t, next), UNCHANGED reader,
         \A l \in Levels : quotes'[l] # 0 => l \in known',
         next.pc \in {"believe", "fire", "replayFire"}
           => DOMAIN next.update.stored \subseteq known'
  PROVE  IdsInv'
<1>1. known \subseteq known'
  BY KnownGrows
<1>2. DOMAIN seeder' = Seeders /\ seeder'[t] = next
  BY DEF Goto, IdsInv
<1>3. \A u \in Seeders \ {t} : seeder'[u] = seeder[u]
  BY DEF Goto, IdsInv
<1>4. ASSUME NEW u \in Seeders, seeder'[u].pc \in {"believe", "fire", "replayFire"}
      PROVE  DOMAIN seeder'[u].update.stored \subseteq known'
  <2>1. CASE u = t
    BY <1>2, <1>4, <2>1
  <2>2. CASE u # t
    BY <1>1, <1>3, <1>4, <2>2 DEF IdsInv, Covered
  <2> QED  BY <2>1, <2>2
<1> QED  BY <1>1, <1>2, <1>4 DEF IdsInv, Covered

LEMMA IdsStep ==
  ASSUME IdsInv, [Next]_vars
  PROVE  IdsInv'
<1>0. /\ known \subseteq known'
      /\ UNCHANGED quotes => \A l \in Levels : quotes'[l] # 0 => l \in known'
  BY KnownGrows DEF IdsInv
<1>1. CASE Venue \/ Reconnect \/ UNCHANGED vars
  <2>1. UNCHANGED <<quotes, reader, seeder>>
    BY <1>1 DEF Venue, Change, RefreshCache, Drop, Reconnect, vars
  <2> QED  BY <1>0, <2>1, OthersKeepIds DEF IdsInv, Covered
<1>2. CASE Receive
  <2>1. UNCHANGED <<quotes, seeder>> /\ (reader'.pc = "fire" => UNCHANGED reader)
    BY <1>2 DEF Receive
  <2> QED  BY <1>0, <2>1, OthersKeepIds DEF IdsInv, Covered
<1>3. CASE ReaderTranslate
  <2>1. UNCHANGED <<quotes, seeder>> /\ DOMAIN reader'.update.stored \subseteq known'
    BY <1>3 DEF ReaderTranslate, Translate, Translation, Update
  <2> QED  BY <1>0, <2>1, OthersKeepIds
<1>4. CASE ReaderFire
  <2>1. UNCHANGED <<seeder, known>> /\ reader'.pc = "recv"
    BY <1>4 DEF ReaderFire, Idle, levelVars
  <2>2. \A l \in Levels : quotes'[l] # 0 => l \in known
    BY <1>4, FireKeepsIds DEF ReaderFire, IdsInv
  <2> QED  BY <2>1, <2>2, OthersKeepIds
<1>5. ASSUME NEW t \in Seeders,
             \/ SeedBegin(t) \/ SeedFails(t) \/ SeedRequest(t) \/ Drain(t) \/ ReplayDone(t)
      PROVE  IdsInv'
  <2>1. /\ UNCHANGED <<quotes, reader>>
        /\ \E next : /\ Goto(t, next)
                     /\ next.pc \notin {"believe", "fire", "replayFire"}
    BY <1>5 DEF SeedBegin, SeedFails, SeedRequest, Drain, ReplayDone, Idle
  <2> QED  BY <1>0, <2>1, SeederKeepsIds
<1>6. ASSUME NEW t \in Seeders, SeedReconcile(t) \/ ReplayTranslate(t)
      PROVE  IdsInv'
  <2>1. /\ UNCHANGED <<quotes, reader>>
        /\ \E next : /\ Goto(t, next)
                     /\ DOMAIN next.update.stored \subseteq known'
    BY <1>6
    DEF SeedReconcile, ReplayTranslate, MintIds, Repair, Translate, Translation, Update
  <2> QED  BY <1>0, <2>1, SeederKeepsIds
<1>7. ASSUME NEW t \in Seeders, SeedBelieve(t)
      PROVE  IdsInv'
  <2>1. Covered(seeder[t].update)
    BY <1>7 DEF SeedBelieve, IdsInv
  <2>2. /\ UNCHANGED <<quotes, reader>>
        /\ Goto(t, [pc |-> "fire", update |-> seeder[t].update])
    BY <1>7 DEF SeedBelieve
  <2> QED  BY <1>0, <2>1, <2>2, SeederKeepsIds DEF Covered
<1>8. ASSUME NEW t \in Seeders, SeedFire(t) \/ ReplayFire(t)
      PROVE  IdsInv'
  <2>1. /\ quotes' = Applied(seeder[t].update) /\ UNCHANGED <<known, reader>>
        /\ \E next : /\ Goto(t, next)
                     /\ next.pc \notin {"believe", "fire", "replayFire"}
    BY <1>8 DEF SeedFire, ReplayFire, Idle, levelVars
  <2>2. Covered(seeder[t].update)
    BY <1>8 DEF SeedFire, ReplayFire, IdsInv
  <2>3. \A l \in Levels : quotes'[l] # 0 => l \in known
    BY <2>1, <2>2, FireKeepsIds
  <2> QED  BY <2>1, <2>3, SeederKeepsIds
<1> QED
  BY <1>1, <1>2, <1>3, <1>4, <1>5, <1>6, <1>7, <1>8 DEF Next, Reader, Seeding

(* Every level the consumer holds can still be deleted.                     *)
THEOREM DeletesReachTheConsumer == Spec => []HeldLevelsHaveIds
<1>1. Init => IdsInv
  BY DEF Init, Idle, Empty, IdsInv
<1>2. IdsInv /\ [Next]_vars => IdsInv'
  BY IdsStep
<1>3. IdsInv => HeldLevelsHaveIds
  BY DEF IdsInv, Covered, HeldLevelsHaveIds
<1> QED  BY <1>1, <1>2, <1>3, PTL DEF Spec

--------------------------------------------------------------------------------
(* Types: what a delta, a snapshot and an update are made of.               *)

LEMMA DeltaTyped ==
  ASSUME NEW l \in Levels, NEW size \in Sizes
  PROVE  Delta(l, size) \in Deltas
<1>1. Delta(l, size) \in [{l} -> Sizes]
  BY DEF Delta
<1> QED  BY <1>1 DEF Deltas

(* A delta or a snapshot: sizes of some of the levels.                      *)
Depths == UNION {[L -> Sizes] : L \in SUBSET Levels}

LEMMA DepthsTyped == Deltas \subseteq Depths /\ Books \subseteq Depths
<1>1. ASSUME NEW d \in Deltas PROVE d \in Depths
  <2>1. PICK l \in Levels : d \in [{l} -> Sizes]
    BY DEF Deltas
  <2>2. {l} \in SUBSET Levels
    OBVIOUS
  <2> QED  BY <2>1, <2>2 DEF Depths
<1>2. Books \subseteq Depths
  BY DEF Books, Depths
<1> QED  BY <1>1, <1>2

LEMMA DepthShape ==
  ASSUME NEW d \in Depths
  PROVE  /\ DOMAIN d \subseteq Levels /\ Resting(d) \subseteq Levels
         /\ \A l \in Resting(d) : d[l] \in 1..MaxSize
<1>1. PICK L \in SUBSET Levels : d \in [L -> Sizes]
  BY DEF Depths
<1>2. \A l \in Resting(d) : l \in L /\ d[l] \in 0..MaxSize /\ d[l] > 0
  BY <1>1 DEF Resting, Sizes
<1>3. \A l \in Resting(d) : d[l] \in 1..MaxSize
  BY <1>2, LevelsAssumption
<1> QED  BY <1>1, <1>2, <1>3

LEMMA UpdateTyped ==
  ASSUME NEW d \in Depths, NEW gone \in SUBSET Levels
  PROVE  Update(d, gone) \in Updates
<1> DEFINE some == [l \in Resting(d) |-> d[l]]
<1>1. Resting(d) \in SUBSET Levels /\ some \in [Resting(d) -> 1..MaxSize]
  BY DepthShape
<1>2. some \in UNION {[L -> 1..MaxSize] : L \in SUBSET Levels}
  BY <1>1
<1> HIDE DEF some
<1>3. [stored |-> some, deleted |-> gone] \in Updates
  BY <1>2 DEF Updates
<1> QED  BY <1>3 DEF Update, some

LEMMA AppliedTyped ==
  ASSUME quotes \in Books, NEW update \in Updates
  PROVE  Applied(update) \in Books
<1>1. PICK L \in SUBSET Levels : update.stored \in [L -> 1..MaxSize]
  BY DEF Updates
<1>2. \A l \in Levels : l \in DOMAIN update.stored => update.stored[l] \in Sizes
  <2> SUFFICES ASSUME NEW l \in L PROVE update.stored[l] \in Sizes
    BY <1>1
  <2>1. update.stored[l] \in 1..MaxSize
    BY <1>1
  <2> QED  BY <2>1, LevelsAssumption DEF Sizes
<1>3. 0 \in Sizes
  BY LevelsAssumption DEF Sizes
<1>4. \A l \in Levels : quotes[l] \in Sizes
  BY DEF Books
<1> QED  BY <1>2, <1>3, <1>4 DEF Applied, Books

(* What a thread carries from one step to the next, by where it is.         *)
LEMMA ReaderShape ==
  ASSUME NEW r \in ReaderStates
  PROVE  /\ r.pc = "translate" => r.delta \in Deltas
         /\ r.pc = "fire" => r.update \in Updates
BY DEF ReaderStates

LEMMA ReaderTyped ==
  /\ Idle("recv") \in ReaderStates
  /\ \A d \in Deltas : [pc |-> "translate", delta |-> d] \in ReaderStates
  /\ \A u \in Updates : [pc |-> "fire", update |-> u] \in ReaderStates
BY DEF ReaderStates, Idle

LEMMA SeederShape ==
  ASSUME NEW s \in SeederStates
  PROVE  /\ s.pc \in {"reconcile", "believe"} => s.snapshot \in Books
         /\ s.pc \in {"believe", "fire", "replayFire"} => s.update \in Updates
         /\ s.pc \in {"replay", "replayFire"} => s.left \in Seq(Deltas)
<1> HIDE DEF Deltas, Updates, Books
<1> QED  BY DEF SeederStates

LEMMA SeederTyped ==
  /\ \A pc \in {"begin", "request", "drain"} : Idle(pc) \in SeederStates
  /\ \A b \in Books : [pc |-> "reconcile", snapshot |-> b] \in SeederStates
  /\ \A b \in Books, u \in Updates :
       [pc |-> "believe", snapshot |-> b, update |-> u] \in SeederStates
  /\ \A u \in Updates : [pc |-> "fire", update |-> u] \in SeederStates
  /\ \A s \in Seq(Deltas) : [pc |-> "replay", left |-> s] \in SeederStates
  /\ \A s \in Seq(Deltas), u \in Updates :
       [pc |-> "replayFire", left |-> s, update |-> u] \in SeederStates
BY DEF SeederStates, Idle

LEMMA TranslationTyped ==
  ASSUME NEW d \in Deltas, TypeOK
  PROVE  /\ Translation(d) \in Updates
         /\ Translate(d) => known' \subseteq Levels /\ live' \subseteq Levels
<1>1. d \in Depths
  BY DepthsTyped
<1>2. DOMAIN d \subseteq Levels /\ Resting(d) \subseteq Levels
  BY <1>1, DepthShape
<1>3. (DOMAIN d \ Resting(d)) \cap known \in SUBSET Levels
  BY <1>2
<1>4. Translation(d) \in Updates
  BY <1>1, <1>3, UpdateTyped DEF Translation
<1> QED  BY <1>2, <1>4 DEF Translate, TypeOK

LEMMA SnapshotTyped ==
  ASSUME NEW b \in Books, TypeOK
  PROVE  /\ Repair(b) \in Updates /\ Resting(b) \subseteq Levels
<1>1. b \in Depths
  BY DepthsTyped
<1>2. Resting(b) \subseteq Levels
  BY <1>1, DepthShape
<1>3. live \ Resting(b) \in SUBSET Levels
  BY DEF TypeOK
<1> QED  BY <1>1, <1>2, <1>3, UpdateTyped DEF Repair

LEMMA VenueTyped == TypeOK /\ Venue => TypeOK'
<1> SUFFICES ASSUME TypeOK, Venue PROVE TypeOK'
  OBVIOUS
<1> USE DEF TypeOK, levelVars
<1>1. ASSUME NEW l \in Levels, NEW size \in Sizes, Change(l, size) PROVE TypeOK'
  <2>1. book' \in Books
    BY <1>1 DEF Change, Books
  <2>2. cache' \in Books
    BY <1>1, <2>1 DEF Change
  <2>3. wire' \in Seq(Deltas)
    BY <1>1, DeltaTyped DEF Change
  <2> QED  BY <1>1, <2>1, <2>2, <2>3 DEF Change
<1>2. CASE RefreshCache
  BY <1>2 DEF RefreshCache
<1>3. CASE Drop
  <2>1. wire' \in Seq(Deltas)
    BY <1>3 DEF Drop
  <2>2. drops' \in Nat
    BY <1>3 DEF Drop
  <2> QED  BY <1>3, <2>1, <2>2 DEF Drop
<1> QED  BY <1>1, <1>2, <1>3 DEF Venue

LEMMA ReaderKeepsTypes == TypeOK /\ Reader => TypeOK'
<1> SUFFICES ASSUME TypeOK, Reader PROVE TypeOK'
  OBVIOUS
<1>0. reader \in ReaderStates /\ wire \in Seq(Deltas)
  BY DEF TypeOK
<1> USE DEF levelVars, venueVars
<1>1. CASE Reconnect
  BY <1>1 DEF Reconnect, TypeOK
<1>2. CASE Receive
  <2>1. Head(wire) \in Deltas /\ Tail(wire) \in Seq(Deltas)
    BY <1>0, <1>2 DEF Receive
  <2>2. reader' \in ReaderStates
    BY <1>0, <1>2, <2>1, ReaderTyped DEF Receive
  <2>3. pending' \in Seq(Deltas) \cup {NotHeld}
    <3>1. pending \in Seq(Deltas) \cup {NotHeld}
      BY DEF TypeOK
    <3>2. pending # NotHeld => Append(pending, Head(wire)) \in Seq(Deltas)
      BY <2>1, <3>1
    <3>3. <<Head(wire)>> \in Seq(Deltas)
      BY <2>1
    <3> QED  BY <1>2, <3>1, <3>2, <3>3 DEF Receive
  <2> QED  BY <1>2, <2>1, <2>2, <2>3 DEF Receive, TypeOK
<1>3. CASE ReaderTranslate
  <2>1. reader.delta \in Deltas
    BY <1>0, <1>3, ReaderShape DEF ReaderTranslate
  <2>2. Translation(reader.delta) \in Updates /\ known' \subseteq Levels /\ live' \subseteq Levels
    BY <1>3, <2>1, TranslationTyped DEF ReaderTranslate
  <2>3. reader' \in ReaderStates
    BY <1>3, <2>2, ReaderTyped DEF ReaderTranslate
  <2> QED  BY <1>3, <2>2, <2>3 DEF ReaderTranslate, TypeOK
<1>4. CASE ReaderFire
  <2>1. reader.update \in Updates
    BY <1>0, <1>4, ReaderShape DEF ReaderFire
  <2>2. quotes' \in Books
    BY <1>4, <2>1, AppliedTyped DEF ReaderFire, TypeOK
  <2>3. reader' \in ReaderStates
    BY <1>4, ReaderTyped DEF ReaderFire
  <2> QED  BY <1>4, <2>2, <2>3 DEF ReaderFire, TypeOK
<1> QED  BY <1>1, <1>2, <1>3, <1>4 DEF Reader

(* A seed thread that goes on in a state of the right type, and leaves the  *)
(* rest typed, keeps the types.                                             *)
LEMMA GotoTyped ==
  ASSUME TypeOK, NEW t \in Seeders, NEW next \in SeederStates, Goto(t, next),
         UNCHANGED <<book, cache, wire, connected, changes, drops, reader>>,
         failures' \in Nat, known' \subseteq Levels, live' \subseteq Levels,
         quotes' \in Books, seeded' \in BOOLEAN, pending' \in Seq(Deltas) \cup {NotHeld}
  PROVE  TypeOK'
<1>1. seeder' \in [Seeders -> SeederStates]
  BY DEF Goto, TypeOK
<1> QED  BY <1>1 DEF TypeOK

LEMMA SeederKeepsTypes ==
  ASSUME TypeOK, NEW t \in Seeders, Seeding(t) \/ SeedFails(t)
  PROVE  TypeOK'
<1> USE DEF levelVars, venueVars
<1>0. seeder[t] \in SeederStates
  BY DEF TypeOK
<1>1. CASE SeedBegin(t)
  <2>1. Idle("request") \in SeederStates
    BY SeederTyped
  <2>2. <<>> \in Seq(Deltas)
    OBVIOUS
  <2> QED  BY <1>1, <2>1, <2>2, GotoTyped DEF SeedBegin, TypeOK
<1>2. CASE SeedFails(t)
  <2>1. Idle("begin") \in SeederStates
    BY SeederTyped
  <2>2. failures' \in Nat
    BY <1>2 DEF SeedFails, TypeOK
  <2> QED  BY <1>2, <2>1, <2>2, GotoTyped DEF SeedFails, TypeOK
<1>3. CASE SeedRequest(t)
  <2>1. [pc |-> "reconcile", snapshot |-> cache] \in SeederStates
    BY SeederTyped DEF TypeOK
  <2> QED  BY <1>3, <2>1, GotoTyped DEF SeedRequest, TypeOK
<1>4. CASE SeedReconcile(t)
  <2>1. seeder[t].snapshot \in Books
    BY <1>0, <1>4, SeederShape DEF SeedReconcile
  <2>2. Repair(seeder[t].snapshot) \in Updates /\ Resting(seeder[t].snapshot) \subseteq Levels
    BY <2>1, SnapshotTyped
  <2>3. [pc |-> "believe", snapshot |-> seeder[t].snapshot,
         update |-> Repair(seeder[t].snapshot)] \in SeederStates
    BY <2>1, <2>2, SeederTyped
  <2>4. known' \subseteq Levels
    BY <1>4, <2>2 DEF SeedReconcile, MintIds, TypeOK
  <2> QED  BY <1>4, <2>3, <2>4, GotoTyped DEF SeedReconcile, TypeOK
<1>5. CASE SeedBelieve(t)
  <2>1. seeder[t].snapshot \in Books /\ seeder[t].update \in Updates
    BY <1>0, <1>5, SeederShape DEF SeedBelieve
  <2>2. [pc |-> "fire", update |-> seeder[t].update] \in SeederStates
    BY <2>1, SeederTyped
  <2>3. live' \subseteq Levels
    BY <1>5, <2>1, SnapshotTyped DEF SeedBelieve, Believe
  <2> QED  BY <1>5, <2>2, <2>3, GotoTyped DEF SeedBelieve, TypeOK
<1>6. CASE SeedFire(t)
  <2>1. seeder[t].update \in Updates
    BY <1>0, <1>6, SeederShape DEF SeedFire
  <2>2. quotes' \in Books
    BY <1>6, <2>1, AppliedTyped DEF SeedFire, TypeOK
  <2>3. Idle("drain") \in SeederStates
    BY SeederTyped
  <2> QED  BY <1>6, <2>2, <2>3, GotoTyped DEF SeedFire, TypeOK
<1>7. CASE Drain(t)
  <2> DEFINE held == IF pending = NotHeld THEN <<>> ELSE pending
  <2>1. held \in Seq(Deltas)
    BY DEF TypeOK
  <2> HIDE DEF held
  <2>2. [pc |-> "replay", left |-> held] \in SeederStates
    BY <2>1, SeederTyped
  <2>3. Goto(t, [pc |-> "replay", left |-> held])
    BY <1>7 DEF Drain, held
  <2> QED  BY <1>7, <2>2, <2>3, GotoTyped DEF Drain, TypeOK
<1>8. CASE ReplayTranslate(t)
  <2> DEFINE left == seeder[t].left
  <2>1. left \in Seq(Deltas) /\ left # <<>>
    BY <1>0, <1>8, SeederShape DEF ReplayTranslate
  <2>2. Goto(t, [pc |-> "replayFire", left |-> Tail(left),
                 update |-> Translation(Head(left))]) /\ Translate(Head(left))
    BY <1>8 DEF ReplayTranslate
  <2> HIDE DEF left
  <2>3. Head(left) \in Deltas /\ Tail(left) \in Seq(Deltas)
    BY <2>1
  <2>4. /\ Translation(Head(left)) \in Updates
        /\ known' \subseteq Levels /\ live' \subseteq Levels
    BY <2>2, <2>3, TranslationTyped
  <2>5. [pc |-> "replayFire", left |-> Tail(left), update |-> Translation(Head(left))]
          \in SeederStates
    BY <2>3, <2>4, SeederTyped
  <2> QED  BY <1>8, <2>2, <2>4, <2>5, GotoTyped DEF ReplayTranslate, TypeOK
<1>9. CASE ReplayFire(t)
  <2>1. seeder[t].update \in Updates /\ seeder[t].left \in Seq(Deltas)
    BY <1>0, <1>9, SeederShape DEF ReplayFire
  <2>2. quotes' \in Books
    BY <1>9, <2>1, AppliedTyped DEF ReplayFire, TypeOK
  <2>3. [pc |-> "replay", left |-> seeder[t].left] \in SeederStates
    BY <2>1, SeederTyped
  <2> QED  BY <1>9, <2>2, <2>3, GotoTyped DEF ReplayFire, TypeOK
<1>10. CASE ReplayDone(t)
  <2>1. Idle("begin") \in SeederStates
    BY SeederTyped
  <2> QED  BY <1>10, <2>1, GotoTyped DEF ReplayDone, TypeOK
<1> QED
  BY <1>1, <1>2, <1>3, <1>4, <1>5, <1>6, <1>7, <1>8, <1>9, <1>10 DEF Seeding

LEMMA FeedStartsTyped == Init => TypeOK
<1> SUFFICES ASSUME Init PROVE TypeOK
  OBVIOUS
<1>1. quotes \in Books
  BY LevelsAssumption DEF Init, Empty, Books, Sizes
<1>2. seeder \in [Seeders -> SeederStates]
  BY SeederTyped DEF Init
<1>3. reader \in ReaderStates
  BY ReaderTyped DEF Init
<1>4. wire \in Seq(Deltas)
  BY DEF Init
<1> QED  BY <1>1, <1>2, <1>3, <1>4 DEF Init, TypeOK, LevelsInit

(* Type correctness of the depth feed, whatever the threads are doing.      *)
THEOREM FeedTypeCorrect == Spec => []TypeOK
<1>1. Init => TypeOK
  BY FeedStartsTyped
<1>2. TypeOK /\ [Next]_vars => TypeOK'
  <2> SUFFICES ASSUME TypeOK, [Next]_vars PROVE TypeOK'
    OBVIOUS
  <2>1. CASE UNCHANGED vars
    BY <2>1 DEF vars, levelVars, venueVars, TypeOK
  <2> QED  BY <2>1, VenueTyped, ReaderKeepsTypes, SeederKeepsTypes DEF Next
<1> QED  BY <1>1, <1>2, PTL DEF Spec
================================================================================
