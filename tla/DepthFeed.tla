------------------------------- MODULE DepthFeed -------------------------------
(***************************************************************************)
(* core/bitstamp_client.py, the depth path of one symbol, down to the book *)
(* SymbolState keeps: the reader thread applying deltas as they arrive, and *)
(* the seed threads that re-diff the book against REST snapshots meanwhile. *)
(* Both call LevelIds and the on_depth callback, and only the `seeded` flag *)
(* and the list of held deltas are under the lock.                         *)
(*                                                                         *)
(* The venue is external: it changes its book one level at a time, streams *)
(* every change while a subscribed socket is up, and serves snapshots from *)
(* a cache that may be behind.                                             *)
(***************************************************************************)
EXTENDS LevelIds, Sequences

CONSTANTS
  Seeders,        (* the seed threads: one per subscribe_depth call         *)
  NotHeld,        (* no entry in _pending                                   *)
  CachedSnapshots, (* REST snapshots may be older than the book             *)
  MaxChanges,     (* bound: changes of the venue's book                     *)
  MaxFailures,    (* bound: REST requests that fail                         *)
  MaxDrops        (* bound: times the socket drops                          *)

ASSUME DepthAssumption ==
  /\ CachedSnapshots \in BOOLEAN
  /\ {MaxChanges, MaxFailures, MaxDrops} \subseteq Nat

VARIABLES
  book, cache,    (* the venue's book, and the one its REST endpoint serves  *)
  wire,           (* deltas sent on the socket and not yet received         *)
  connected,      (* a subscribed socket is up                              *)
  changes, failures, drops,
  seeded,         (* symbol \in _seeded                                     *)
  pending,        (* _pending[symbol]: the deltas held back, or NotHeld     *)
  quotes,         (* SymbolState.quotes: size per level, 0 when absent      *)
  reader,         (* what the reader thread is about to do                  *)
  seeder          (* what each seed thread is about to do                   *)

venueVars == <<book, cache, wire, connected, changes, failures, drops>>
vars == <<levelVars, venueVars, seeded, pending, quotes, reader, seeder>>

Books == [Levels -> Sizes]
Empty == [l \in Levels |-> 0]
Delta(l, size) == [x \in {l} |-> size]

(* apply_depth: ids that left go first, then the new quotes are stored.      *)
Applied(update) ==
  [l \in Levels |-> IF l \in DOMAIN update.stored THEN update.stored[l]
                    ELSE IF l \in update.deleted THEN 0 ELSE quotes[l]]

Idle(pc) == [pc |-> pc]

Init ==
  /\ book \in Books /\ cache = book /\ wire = <<>> /\ connected = TRUE
  /\ changes = 0 /\ failures = 0 /\ drops = 0
  /\ seeded = FALSE /\ pending = NotHeld /\ quotes = Empty
  /\ reader = Idle("recv")
  /\ seeder = [t \in Seeders |-> Idle("begin")]
  /\ LevelsInit

--------------------------------------------------------------------------------
(* The venue and the network.                                               *)

Change(l, size) ==
  /\ changes < MaxChanges
  /\ book[l] # size
  /\ changes' = changes + 1
  /\ book' = [book EXCEPT ![l] = size]
  /\ cache' = IF CachedSnapshots THEN cache ELSE book'
  /\ wire' = IF connected THEN Append(wire, Delta(l, size)) ELSE wire
  /\ UNCHANGED <<levelVars, connected, failures, drops, seeded, pending, quotes, reader, seeder>>

RefreshCache ==
  /\ cache # book
  /\ cache' = book
  /\ UNCHANGED <<levelVars, book, wire, connected, changes, failures, drops,
                 seeded, pending, quotes, reader, seeder>>

(* recv raises: whatever was on the socket is lost.                          *)
Drop ==
  /\ connected /\ drops < MaxDrops /\ reader.pc = "recv"
  /\ drops' = drops + 1
  /\ connected' = FALSE /\ wire' = <<>>
  /\ UNCHANGED <<levelVars, book, cache, changes, failures, seeded, pending, quotes,
                 reader, seeder>>

(* _reconnect resubscribes the channels and nothing else: the id map and     *)
(* the seeded flag survive, so the gap is left to the next reseed.           *)
Reconnect ==
  /\ ~connected
  /\ connected' = TRUE
  /\ UNCHANGED <<levelVars, book, cache, wire, changes, failures, drops, seeded, pending,
                 quotes, reader, seeder>>

--------------------------------------------------------------------------------
(* The reader thread: _handle, _emit_depth, _apply_depth.                   *)

(* The flag is tested and the delta held under one lock.                     *)
Receive ==
  /\ connected /\ reader.pc = "recv" /\ wire # <<>>
  /\ wire' = Tail(wire)
  /\ IF seeded
     THEN /\ reader' = [pc |-> "translate", delta |-> Head(wire)]
          /\ UNCHANGED pending
     ELSE /\ pending' = IF pending = NotHeld THEN <<Head(wire)>>
                        ELSE Append(pending, Head(wire))
          /\ UNCHANGED reader
  /\ UNCHANGED <<levelVars, book, cache, connected, changes, failures, drops, seeded,
                 quotes, seeder>>

ReaderTranslate ==
  /\ reader.pc = "translate"
  /\ Translate(reader.delta)
  /\ reader' = [pc |-> "fire", update |-> Translation(reader.delta)]
  /\ UNCHANGED <<venueVars, seeded, pending, quotes, seeder>>

ReaderFire ==
  /\ reader.pc = "fire"
  /\ quotes' = Applied(reader.update)
  /\ reader' = Idle("recv")
  /\ UNCHANGED <<levelVars, venueVars, seeded, pending, seeder>>

--------------------------------------------------------------------------------
(* A seed thread: _seed_loop around _seed_book.                             *)

Goto(t, next) == seeder' = [seeder EXCEPT ![t] = next]

SeedBegin(t) ==
  /\ seeder[t].pc = "begin"
  /\ seeded' = FALSE
  /\ pending' = <<>>
  /\ Goto(t, Idle("request"))
  /\ UNCHANGED <<levelVars, venueVars, quotes, reader>>

(* The early return of a failed request: the symbol stays unseeded and its   *)
(* deltas stay held until the next pass.                                     *)
SeedFails(t) ==
  /\ seeder[t].pc = "request"
  /\ failures < MaxFailures
  /\ failures' = failures + 1
  /\ Goto(t, Idle("begin"))
  /\ UNCHANGED <<levelVars, book, cache, wire, connected, changes, drops, seeded, pending,
                 quotes, reader>>

SeedRequest(t) ==
  /\ seeder[t].pc = "request"
  /\ Goto(t, [pc |-> "reconcile", snapshot |-> cache])
  /\ UNCHANGED <<levelVars, venueVars, seeded, pending, quotes, reader>>

(* reconcile compares, then replaces `live`; another thread can come between. *)
SeedReconcile(t) ==
  /\ seeder[t].pc = "reconcile"
  /\ MintIds(seeder[t].snapshot)
  /\ Goto(t, [pc |-> "believe", snapshot |-> seeder[t].snapshot,
              update |-> Repair(seeder[t].snapshot)])
  /\ UNCHANGED <<live, venueVars, seeded, pending, quotes, reader>>

SeedBelieve(t) ==
  /\ seeder[t].pc = "believe"
  /\ Believe(seeder[t].snapshot)
  /\ Goto(t, [pc |-> "fire", update |-> seeder[t].update])
  /\ UNCHANGED <<known, venueVars, seeded, pending, quotes, reader>>

SeedFire(t) ==
  /\ seeder[t].pc = "fire"
  /\ quotes' = Applied(seeder[t].update)
  /\ Goto(t, Idle("drain"))
  /\ UNCHANGED <<levelVars, venueVars, seeded, pending, reader>>

(* A drain that reads the held deltas without taking them.                   *)
DrainKeeping(t) ==
  /\ seeder[t].pc = "drain"
  /\ seeded' = TRUE
  /\ Goto(t, [pc |-> "replay", left |-> IF pending = NotHeld THEN <<>> ELSE pending])
  /\ UNCHANGED <<levelVars, venueVars, pending, quotes, reader>>

(* Under the lock: take what was held and go live.  The replay itself is     *)
(* outside it.                                                               *)
Drain(t) ==
  /\ seeder[t].pc = "drain"
  /\ seeded' = TRUE
  /\ pending' = NotHeld
  /\ Goto(t, [pc |-> "replay", left |-> IF pending = NotHeld THEN <<>> ELSE pending])
  /\ UNCHANGED <<levelVars, venueVars, quotes, reader>>

ReplayTranslate(t) ==
  /\ seeder[t].pc = "replay" /\ seeder[t].left # <<>>
  /\ Translate(Head(seeder[t].left))
  /\ Goto(t, [pc |-> "replayFire", left |-> Tail(seeder[t].left),
              update |-> Translation(Head(seeder[t].left))])
  /\ UNCHANGED <<venueVars, seeded, pending, quotes, reader>>

ReplayFire(t) ==
  /\ seeder[t].pc = "replayFire"
  /\ quotes' = Applied(seeder[t].update)
  /\ Goto(t, [pc |-> "replay", left |-> seeder[t].left])
  /\ UNCHANGED <<levelVars, venueVars, seeded, pending, reader>>

(* Nothing left: sleep reseed_seconds, then begin again.                     *)
ReplayDone(t) ==
  /\ seeder[t].pc = "replay" /\ seeder[t].left = <<>>
  /\ Goto(t, Idle("begin"))
  /\ UNCHANGED <<levelVars, venueVars, seeded, pending, quotes, reader>>

--------------------------------------------------------------------------------

Venue == (\E l \in Levels, size \in Sizes : Change(l, size)) \/ RefreshCache \/ Drop

Reader == Reconnect \/ Receive \/ ReaderTranslate \/ ReaderFire

Seeding(t) ==
  \/ SeedBegin(t) \/ SeedRequest(t) \/ SeedReconcile(t) \/ SeedBelieve(t) \/ SeedFire(t)
  \/ Drain(t) \/ ReplayTranslate(t) \/ ReplayFire(t) \/ ReplayDone(t)

Next == Venue \/ Reader \/ \E t \in Seeders : Seeding(t) \/ SeedFails(t)

(* Threads run, requests end, the endpoint's cache catches up; nothing is    *)
(* assumed of how often the book changes, the socket drops or REST fails.    *)
Fairness ==
  /\ WF_vars(Reader)
  /\ WF_vars(RefreshCache)
  /\ \A t \in Seeders : WF_vars(Seeding(t))

Spec == Init /\ [][Next]_vars /\ Fairness

--------------------------------------------------------------------------------

Deltas == UNION {[{l} -> Sizes] : l \in Levels}

Updates ==
  [stored : UNION {[L -> 1..MaxSize] : L \in SUBSET Levels}, deleted : SUBSET Levels]

ReaderStates ==
  [pc : {"recv"}] \cup [pc : {"translate"}, delta : Deltas] \cup [pc : {"fire"}, update : Updates]

SeederStates ==
  [pc : {"begin", "request", "drain"}] \cup [pc : {"reconcile"}, snapshot : Books]
    \cup [pc : {"believe"}, snapshot : Books, update : Updates]
    \cup [pc : {"fire"}, update : Updates]
    \cup [pc : {"replay"}, left : Seq(Deltas)]
    \cup [pc : {"replayFire"}, left : Seq(Deltas), update : Updates]

(* Types of every variable.                                                 *)
TypeOK ==
  /\ known \subseteq Levels /\ live \subseteq Levels
  /\ book \in Books /\ cache \in Books /\ quotes \in Books
  /\ wire \in Seq(Deltas)
  /\ connected \in BOOLEAN /\ seeded \in BOOLEAN
  /\ changes \in Nat /\ failures \in Nat /\ drops \in Nat
  /\ pending \in Seq(Deltas) \cup {NotHeld}
  /\ reader \in ReaderStates
  /\ seeder \in [Seeders -> SeederStates]

(* Once the book is live no delta is stranded in the list of held ones,     *)
(* where the next pass would throw it away: the flag and the list change    *)
(* under one lock (_seed_book, _emit_depth).                                *)
NothingStranded == seeded => pending = NotHeld

(* A level the consumer holds, or is about to be handed, has an id, so a    *)
(* later delete for it is never mistaken for one of a level never seen and  *)
(* skipped (book_ids.py translate, "append-only").                          *)
HeldLevelsHaveIds ==
  /\ \A l \in Levels : quotes[l] # 0 => l \in known
  /\ reader.pc = "fire" => DOMAIN reader.update.stored \subseteq known

(* When the venue's book stops changing, the reseeds repair every level it  *)
(* still lists, and everything LevelIds believes in is right: whatever was  *)
(* lost to a drop, a failed request or a stale snapshot comes back          *)
(* (_seed_loop: "every later pass is repair").                              *)
Repaired ==
  <>[] (/\ live = Resting(book)
        /\ \A l \in live : quotes[l] = book[l])

Quiet ==
  /\ connected /\ wire = <<>> /\ reader.pc = "recv" /\ seeded
  /\ \A t \in Seeders : seeder[t].pc = "begin"

(* With nothing lost and nothing in flight the local book is the venue's:   *)
(* bitstamp_client.py says the replay of held deltas "in arrival order      *)
(* leaves each price at its newest value either way".                       *)
NewestValueKept == Quiet => quotes = book
===============================================================================
