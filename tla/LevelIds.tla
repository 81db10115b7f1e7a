-------------------------------- MODULE LevelIds --------------------------------
(***************************************************************************)
(* core/book_ids.py, class LevelIds: price-keyed depth turned into the     *)
(* id-keyed quotes SymbolState.apply_depth takes.  A (side, price) pair    *)
(* is a level; ids are append-only and one per level for ever, so a level  *)
(* stands for its own id once it is in `known`.  A delta or a snapshot is  *)
(* a function from some levels to sizes, size 0 meaning the level is gone. *)
(***************************************************************************)
EXTENDS Integers

CONSTANTS Levels, MaxSize

ASSUME LevelsAssumption == MaxSize \in Nat \ {0}

VARIABLES
  known,      (* _ids: the levels that ever got an id                        *)
  live        (* _live: the levels believed to be resting in the book        *)

levelVars == <<known, live>>

Sizes == 0..MaxSize

LevelsInit == known = {} /\ live = {}

(* A test of a delta's size that takes a removal for a quote.                *)
RestingOrGone(depth) == {l \in DOMAIN depth : depth[l] >= 0}

Resting(depth) == {l \in DOMAIN depth : depth[l] > 0}

(* What apply_depth is told: the sizes to store and the ids to drop.         *)
Update(depth, gone) == [stored |-> [l \in Resting(depth) |-> depth[l]], deleted |-> gone]

Translation(delta) == Update(delta, (DOMAIN delta \ Resting(delta)) \cap known)

(* A translation that gives a dead level's id back.                          *)
TranslateReusingIds(delta) ==
  /\ known' = (known \cup Resting(delta)) \ (DOMAIN delta \ Resting(delta))
  /\ live' = (live \cup Resting(delta)) \ (DOMAIN delta \ Resting(delta))

(* translate: its effect on the maps; what it returns is Translation.        *)
Translate(delta) ==
  /\ known' = known \cup Resting(delta)
  /\ live' = (live \cup Resting(delta)) \ (DOMAIN delta \ Resting(delta))

Repair(snapshot) == Update(snapshot, live \ Resting(snapshot))

(* reconcile mints the ids while it walks the snapshot ...                   *)
MintIds(snapshot) == known' = known \cup Resting(snapshot)

(* A repair that only ever adds to what is believed.                         *)
BelieveMore(snapshot) == live' = live \cup Resting(snapshot)

(* ... and last of all replaces the set it compared the snapshot with.       *)
Believe(snapshot) == live' = Resting(snapshot)
===============================================================================
