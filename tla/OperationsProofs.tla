---------------------------- MODULE OperationsProofs ----------------------------
(***************************************************************************)
(* Proofs about operating the engine: what a process may do with the flags *)
(* it was given, what its exit code says, what the daily report counts,    *)
(* and which daily candles the extractor is seeded with.                   *)
(***************************************************************************)
EXTENDS EngineProcess, BarsProofs

--------------------------------------------------------------------------------
(* The process: the keys of a live order, and the exit code.                *)

Engines == [autotrade : BOOLEAN, armed : BOOLEAN, failed : BOOLEAN, running : BOOLEAN]

(* Before the gates nothing is armed; after them what is armed was given    *)
(* the keys, and so was what has been ordered.                              *)
KeysInv ==
  /\ settings \in Settings
  /\ engine \in Engines
  /\ stage \in {"down", "gates", "start", "seed", "replay", "exited"}
  /\ stage = "gates" => /\ ~engine.armed /\ liveOrder = "none"
                        /\ Live => ~engine.autotrade
  /\ stage \in {"start", "seed", "replay"} => LiveNeedsFourKeys

LEMMA KeysAreKept ==
  ASSUME KeysInv, [ProcessNext]_<<barsVars, processVars>>
  PROVE  KeysInv'
<1> USE DEF KeysInv, Engines, LiveNeedsFourKeys, Live, Confirmed, world, market
<1>1. CASE Launch
  <2>1. Idle \in Engines
    BY DEF Idle
  <2>2. engine' \in Engines /\ ~engine'.armed
        /\ engine'.autotrade = AutotradeAtStart
    BY <1>1, <2>1 DEF Launch, Idle, AutotradeAtStart, Settings
  <2> QED  BY <1>1, <2>2 DEF Launch, AutotradeAtStart
<1>2. CASE Arm
  <2>1. CASE Live /\ args.arm /\ args.understand /\ args.typed = "LIVE"
    BY <1>2, <2>1 DEF Arm
  <2>2. CASE ~(Live /\ args.arm /\ args.understand /\ args.typed = "LIVE")
    BY <1>2, <2>2 DEF Arm, Idle
  <2> QED  BY <2>1, <2>2
<1>3. CASE FeedRefused
  BY <1>3 DEF FeedRefused, Fatal, Exit, Idle
<1>4. CASE NothingEnabled
  BY <1>4 DEF NothingEnabled, Exit
<1>5. CASE Register
  BY <1>5 DEF Register
<1>6. CASE SeedRow
  BY <1>6 DEF SeedRow
<1>7. CASE SeedRaises
  BY <1>7 DEF SeedRaises, Fatal, Exit, Idle
<1>8. CASE SeedDone
  BY <1>8 DEF SeedDone, Idle
<1>9. CASE ReplayTick
  BY <1>9 DEF ReplayTick
<1>10. CASE RefreshDaily
  BY <1>10 DEF RefreshDaily
<1>11. CASE CloseTrade
  BY <1>11 DEF CloseTrade
<1>12. CASE WriteRow
  BY <1>12 DEF WriteRow
<1>13. CASE WriteFails
  BY <1>13 DEF WriteFails
<1>14. CASE LiveOrder
  BY <1>14 DEF LiveOrder
<1>15. CASE Finish
  BY <1>15 DEF Finish, Exit
<1>16. CASE Killed
  BY <1>16 DEF Killed
<1>17. CASE Supervise
  BY <1>17 DEF Supervise
<1>18. CASE Midnight
  BY <1>18 DEF Midnight
<1>19. CASE UNCHANGED <<barsVars, processVars>>
  BY <1>19 DEF processVars
<1> QED  BY <1>1, <1>2, <1>3, <1>4, <1>5, <1>6, <1>7, <1>8, <1>9, <1>10, <1>11,
            <1>12, <1>13, <1>14, <1>15, <1>16, <1>17, <1>18, <1>19 DEF ProcessNext

(* No sequence of starts, kills and midnights lets an engine in live mode   *)
(* trade by itself, or an order past the arming gate, without the mode,     *)
(* both flags and the typed word (load_settings, command_run, LiveBroker).  *)
THEOREM FourKeys == ProcessSpec => []LiveNeedsFourKeys
<1>1. ProcessInit => KeysInv
  BY DEF ProcessInit, KeysInv, Engines, Idle
<1>2. KeysInv /\ [ProcessNext]_<<barsVars, processVars>> => KeysInv'
  BY KeysAreKept
<1>3. KeysInv => LiveNeedsFourKeys
  BY DEF KeysInv, LiveNeedsFourKeys, Live
<1> QED  BY <1>1, <1>2, <1>3, PTL DEF ProcessSpec

(* Only the last step of the bootstrap marks the engine as running, and     *)
(* nothing before or after it that fails goes on to the replay.             *)
ExitInv ==
  /\ engine \in Engines
  /\ stage \in {"down", "gates", "start", "seed", "replay", "exited"}
  /\ stage \in {"gates", "start", "seed"} => ~engine.running /\ ~engine.failed
  /\ stage = "replay" => engine.running /\ ~engine.failed
  /\ SuccessMeansStarted

LEMMA ExitStep ==
  ASSUME ExitInv, [ProcessNext]_<<barsVars, processVars>>
  PROVE  ExitInv'
<1> USE DEF ExitInv, Engines, SuccessMeansStarted, world, market
<1>1. CASE Launch
  <2>1. Idle \in Engines /\ ~Idle.running /\ ~Idle.failed
    BY DEF Idle
  <2>2. AutotradeAtStart \in BOOLEAN
    BY <1>1 DEF AutotradeAtStart
  <2> QED  BY <1>1, <2>1, <2>2 DEF Launch
<1>2. CASE Arm
  <2>1. CASE Live /\ args.arm /\ args.understand /\ args.typed = "LIVE"
    BY <1>2, <2>1 DEF Arm
  <2>2. CASE ~(Live /\ args.arm /\ args.understand /\ args.typed = "LIVE")
    BY <1>2, <2>2 DEF Arm
  <2> QED  BY <2>1, <2>2
<1>3. CASE FeedRefused
  <2>1. engine' = [engine EXCEPT !.failed = TRUE] /\ stage' = "exited" /\ exitCode' = 1
    BY <1>3 DEF FeedRefused, Fatal, Exit
  <2>2. engine' \in Engines /\ engine'.failed
    BY <2>1
  <2>3. exitCode' # 0
    BY <2>1
  <2> QED  BY <2>1, <2>2, <2>3
<1>4. CASE NothingEnabled
  BY <1>4 DEF NothingEnabled, Exit
<1>5. CASE Register
  BY <1>5 DEF Register
<1>6. CASE SeedRow
  BY <1>6 DEF SeedRow
<1>7. CASE SeedRaises
  <2>1. engine' = [engine EXCEPT !.failed = TRUE] /\ stage' = "exited" /\ exitCode' = 1
    BY <1>7 DEF SeedRaises, Fatal, Exit
  <2>2. engine' \in Engines /\ engine'.failed
    BY <2>1
  <2>3. exitCode' # 0
    BY <2>1
  <2> QED  BY <2>1, <2>2, <2>3
<1>8. CASE SeedDone
  BY <1>8 DEF SeedDone
<1>9. CASE ReplayTick
  BY <1>9 DEF ReplayTick
<1>10. CASE RefreshDaily
  BY <1>10 DEF RefreshDaily
<1>11. CASE CloseTrade
  BY <1>11 DEF CloseTrade
<1>12. CASE WriteRow
  BY <1>12 DEF WriteRow
<1>13. CASE WriteFails
  BY <1>13 DEF WriteFails
<1>14. CASE LiveOrder
  BY <1>14 DEF LiveOrder
<1>15. CASE Finish
  BY <1>15 DEF Finish, Exit
<1>16. CASE Killed
  BY <1>16 DEF Killed
<1>17. CASE Supervise
  BY <1>17 DEF Supervise
<1>18. CASE Midnight
  BY <1>18 DEF Midnight
<1>19. CASE UNCHANGED <<barsVars, processVars>>
  BY <1>19 DEF processVars
<1> QED  BY <1>1, <1>2, <1>3, <1>4, <1>5, <1>6, <1>7, <1>8, <1>9, <1>10, <1>11,
            <1>12, <1>13, <1>14, <1>15, <1>16, <1>17, <1>18, <1>19 DEF ProcessNext

(* A process exits with 0 exactly when its bootstrap went all the way and   *)
(* nothing fatal was noted (start, _bootstrap, _fatal, command_run).        *)
THEOREM ExitCodeTells == ProcessSpec => []SuccessMeansStarted
<1>1. ProcessInit => ExitInv
  BY DEF ProcessInit, ExitInv, Engines, Idle, SuccessMeansStarted
<1>2. ExitInv /\ [ProcessNext]_<<barsVars, processVars>> => ExitInv'
  BY ExitStep
<1>3. ExitInv => SuccessMeansStarted
  BY DEF ExitInv
<1> QED  BY <1>1, <1>2, <1>3, PTL DEF ProcessSpec

--------------------------------------------------------------------------------
(* The daily report, and the types of the process.                          *)

(* These files hold these trades, each in one row.                          *)
Holds(files, trades) ==
  /\ \A d \in DOMAIN files : files[d] \in Seq(trades)
  /\ \A t \in trades : \E d \in DOMAIN files : \E i \in DOMAIN files[d] : files[d][i] = t
  /\ \A d, e \in DOMAIN files : \A i \in DOMAIN files[d], j \in DOMAIN files[e] :
       files[d][i] = files[e][j] => d = e /\ i = j

LEMMA OpenedHolds ==
  ASSUME NEW files, NEW trades, Holds(files, trades), NEW date
  PROVE  Holds(Opened(files, date), trades)
<1> DEFINE new == Opened(files, date)
<1>1. DOMAIN new = DOMAIN files \cup {date}
  BY DEF Opened
<1>2. \A d \in DOMAIN files : new[d] = files[d]
  BY DEF Opened
<1>3. \A d \in DOMAIN new : d \notin DOMAIN files => new[d] = <<>>
  BY DEF Opened
<1> HIDE DEF new
<1>4. \A d \in DOMAIN new : new[d] \in Seq(trades)
  <2> SUFFICES ASSUME NEW d \in DOMAIN new PROVE new[d] \in Seq(trades)
    OBVIOUS
  <2>1. CASE d \in DOMAIN files
    <3>1. files[d] \in Seq(trades)
      BY <2>1 DEF Holds
    <3> QED  BY <1>2, <2>1, <3>1
  <2>2. CASE d \notin DOMAIN files
    <3>1. new[d] = <<>>
      BY <1>3, <2>2
    <3> QED  BY <3>1
  <2> QED  BY <2>1, <2>2
<1>5. \A d \in DOMAIN new : \A i \in DOMAIN new[d] : d \in DOMAIN files
  <2> SUFFICES ASSUME NEW d \in DOMAIN new, d \notin DOMAIN files PROVE DOMAIN new[d] = {}
    OBVIOUS
  <2>1. new[d] = <<>>
    BY <1>3
  <2> QED  BY <2>1
<1>6. \A t \in trades : \E d \in DOMAIN new : \E i \in DOMAIN new[d] : new[d][i] = t
  BY <1>1, <1>2 DEF Holds
<1>7. \A d, e \in DOMAIN new : \A i \in DOMAIN new[d], j \in DOMAIN new[e] :
        new[d][i] = new[e][j] => d = e /\ i = j
  BY <1>2, <1>5 DEF Holds
<1>8. Holds(new, trades)
  BY <1>4, <1>6, <1>7 DEF Holds
<1> QED  BY <1>8 DEF new

LEMMA AppendedHolds ==
  ASSUME NEW files, NEW trades, Holds(files, trades),
         NEW date \in DOMAIN files, NEW t, t \notin trades
  PROVE  Holds([files EXCEPT ![date] = @ \o <<t>>], trades \cup {t})
<1> DEFINE new == [files EXCEPT ![date] = @ \o <<t>>]
           all == trades \cup {t}
           n == Len(files[date]) + 1
<1>0. \A d, e \in DOMAIN files : \A i \in DOMAIN files[d], j \in DOMAIN files[e] :
        files[d][i] = files[e][j] => d = e /\ i = j
  BY DEF Holds
<1>1. DOMAIN new = DOMAIN files /\ \A d \in DOMAIN files : d # date => new[d] = files[d]
  OBVIOUS
<1>2. new[date] = files[date] \o <<t>> /\ files[date] \in Seq(trades)
  BY DEF Holds
<1>3. DOMAIN new[date] = 1..n /\ n \in 1..n /\ new[date][n] = t
      /\ \A i \in 1..(n - 1) : new[date][i] = files[date][i]
  BY <1>2
<1>4. \A d \in DOMAIN files : files[d] \in Seq(all)
  <2> SUFFICES ASSUME NEW d \in DOMAIN files PROVE files[d] \in Seq(all)
    OBVIOUS
  <2>1. files[d] \in Seq(trades)
    BY DEF Holds
  <2> QED  BY <2>1
<1>5. new[date] \in Seq(all)
  BY <1>2, <1>4
<1>6. DOMAIN files[date] = 1..(n - 1)
  BY <1>2
<1> HIDE DEF new, n
<1>7. \A d \in DOMAIN new : new[d] \in Seq(all)
  BY <1>1, <1>4, <1>5
<1>8. \A d \in DOMAIN new : \A i \in DOMAIN new[d] :
        \/ d = date /\ i = n /\ new[d][i] = t
        \/ /\ ~(d = date /\ i = n) /\ d \in DOMAIN files /\ i \in DOMAIN files[d]
           /\ new[d][i] = files[d][i] /\ new[d][i] \in trades
  <2> SUFFICES ASSUME NEW d \in DOMAIN new, NEW i \in DOMAIN new[d], ~(d = date /\ i = n)
               PROVE  /\ d \in DOMAIN files /\ i \in DOMAIN files[d]
                      /\ new[d][i] = files[d][i] /\ new[d][i] \in trades
    BY <1>3
  <2>1. d \in DOMAIN files /\ files[d] \in Seq(trades)
    BY <1>1 DEF Holds
  <2>2. i \in DOMAIN files[d] /\ new[d][i] = files[d][i]
    BY <1>1, <1>3, <1>6
  <2> QED  BY <2>1, <2>2
<1>9. \A d \in DOMAIN files : \A i \in DOMAIN files[d] :
        d \in DOMAIN new /\ i \in DOMAIN new[d] /\ new[d][i] = files[d][i]
  BY <1>1, <1>3, <1>6
<1>10. \A u \in all : \E d \in DOMAIN new : \E i \in DOMAIN new[d] : new[d][i] = u
  <2> SUFFICES ASSUME NEW u \in all
               PROVE  \E d \in DOMAIN new : \E i \in DOMAIN new[d] : new[d][i] = u
    OBVIOUS
  <2>1. CASE u = t
    <3>1. date \in DOMAIN new /\ n \in DOMAIN new[date] /\ new[date][n] = u
      BY <1>1, <1>3, <2>1
    <3> QED  BY <3>1
  <2>2. CASE u \in trades
    BY <1>9, <2>2 DEF Holds
  <2> QED  BY <2>1, <2>2
<1>11. \A d, e \in DOMAIN new : \A i \in DOMAIN new[d], j \in DOMAIN new[e] :
         new[d][i] = new[e][j] => d = e /\ i = j
  <2> SUFFICES ASSUME NEW d \in DOMAIN new, NEW e \in DOMAIN new,
                      NEW i \in DOMAIN new[d], NEW j \in DOMAIN new[e],
                      new[d][i] = new[e][j]
               PROVE  d = e /\ i = j
    OBVIOUS
  <2>1. CASE d = date /\ i = n
    BY <1>8, <2>1
  <2>2. CASE e = date /\ j = n
    BY <1>8, <2>2
  <2>3. CASE ~(d = date /\ i = n) /\ ~(e = date /\ j = n)
    <3>1. d \in DOMAIN files /\ i \in DOMAIN files[d] /\ new[d][i] = files[d][i]
      BY <1>8, <2>3
    <3>2. e \in DOMAIN files /\ j \in DOMAIN files[e] /\ new[e][j] = files[e][j]
      BY <1>8, <2>3
    <3>3. files[d][i] = files[e][j]
      BY <3>1, <3>2
    <3> QED  BY <1>0, <3>1, <3>2, <3>3
  <2> QED  BY <2>1, <2>2, <2>3
<1>12. Holds(new, all)
  BY <1>7, <1>10, <1>11 DEF Holds
<1> QED  BY <1>12 DEF new

LEMMA SequenceOfOne ==
  ASSUME NEW t
  PROVE  SetToSeq({t}) = <<t>>
<1> DEFINE Whole == {f \in [1..1 -> {t}] : IsInjective(f)}
<1>1. Cardinality({t}) = 1
  BY FS_Singleton
<1>2. <<t>> \in [1..1 -> {t}] /\ IsInjective(<<t>>)
  BY DEF IsInjective
<1>3. \A f \in [1..1 -> {t}] : f = <<t>>
  <2> SUFFICES ASSUME NEW f \in [1..1 -> {t}] PROVE f = <<t>>
    OBVIOUS
  <2>1. f \in Seq({t}) /\ Len(f) = 1 /\ f[1] = t
    OBVIOUS
  <2> QED  BY <2>1
<1>4. (CHOOSE f \in [1..1 -> {t}] : IsInjective(f)) = <<t>>
  BY <1>2, <1>3
<1> QED  BY <1>1, <1>4 DEF SetToSeq

(* What the journal holds, the report counts: nothing twice, nothing        *)
(* missing, and each row under one date.                                    *)
LEMMA ReportOfJournal ==
  ASSUME NEW written, IsFiniteSet(written), Holds(journal, written),
         \A t \in written : t.pnl \in Int,
         written = closed \ (lost \cup pending)
  PROVE  ReportCountsOnce
<1> DEFINE rows  == LoadTrades(Nothing)
           dates == {RowAt(l).closedAt : l \in rows}
           daily == [d \in dates |-> Stats(OfDay(rows, d)).net]
           row_  == [l \in rows |-> RowAt(l)]
           won   == [l \in rows |-> RowAt(l).pnl]
           of    == [l \in rows |-> RowAt(l).closedAt]
           pnl   == [t \in written |-> t.pnl]
<1>1. rows = Lines
  BY DEF LoadTrades
<1>2. \A l \in Lines : /\ l = <<l[1], l[2]>> /\ l[1] \in DOMAIN journal
                       /\ l[2] \in DOMAIN journal[l[1]]
  BY DEF Lines
<1>3. \A d \in DOMAIN journal : \A i \in DOMAIN journal[d] : <<d, i>> \in Lines
  BY DEF Lines
<1>4. \A d \in DOMAIN journal : \A i \in DOMAIN journal[d] : RowAt(<<d, i>>) = journal[d][i]
  BY DEF RowAt
<1>5. \A l \in rows : RowAt(l) \in written
  <2> SUFFICES ASSUME NEW l \in rows PROVE RowAt(l) \in written
    OBVIOUS
  <2>1. journal[l[1]] \in Seq(written) /\ l[2] \in DOMAIN journal[l[1]]
    BY <1>1, <1>2 DEF Holds
  <2> QED  BY <2>1 DEF RowAt
<1>6. \A t \in written : \E l \in rows : RowAt(l) = t
  <2> SUFFICES ASSUME NEW t \in written PROVE \E l \in rows : RowAt(l) = t
    OBVIOUS
  <2>1. PICK d \in DOMAIN journal : \E i \in DOMAIN journal[d] : journal[d][i] = t
    BY DEF Holds
  <2>2. PICK i \in DOMAIN journal[d] : journal[d][i] = t
    BY <2>1
  <2> QED  BY <1>1, <1>3, <1>4, <2>2
<1>7. \A l, m \in rows : RowAt(l) = RowAt(m) => l = m
  <2> SUFFICES ASSUME NEW l \in rows, NEW m \in rows, RowAt(l) = RowAt(m) PROVE l = m
    OBVIOUS
  <2>1. \A d, e \in DOMAIN journal : \A i \in DOMAIN journal[d], j \in DOMAIN journal[e] :
          journal[d][i] = journal[e][j] => d = e /\ i = j
    BY DEF Holds
  <2>2. journal[l[1]][l[2]] = journal[m[1]][m[2]]
    BY DEF RowAt
  <2>3. l[1] = m[1] /\ l[2] = m[2]
    BY <1>1, <1>2, <2>1, <2>2
  <2> QED  BY <1>1, <1>2, <2>3
<1> HIDE DEF rows
<1>8. row_ \in Injection(rows, written) /\ row_ \in Surjection(rows, written)
  BY <1>5, <1>6, <1>7 DEF Injection, Surjection, IsInjective
<1>9. IsFiniteSet(rows) /\ Cardinality(rows) = Cardinality(written)
  BY <1>8, FS_Injection
<1>10. IntOn(won, rows) /\ IntOn(pnl, written)
  BY <1>5 DEF IntOn
<1>11. {row_[l] : l \in rows} = written /\ {RowAt(l) : l \in rows} = written
  BY <1>5, <1>6
<1>12. SumFunctionOnSet(pnl, written) = SumFunctionOnSet(won, rows)
  <2>1. \A l \in rows : pnl[row_[l]] = won[l]
    BY <1>5
  <2>2. \A l, m \in rows : row_[l] = row_[m] => l = m
    BY <1>7
  <2> HIDE DEF pnl, won, row_
  <2>3. SumFunctionOnSet(pnl, {row_[l] : l \in rows}) = SumFunctionOnSet(won, rows)
    BY <1>9, <1>10, <2>1, <2>2, SumThrough
  <2> QED  BY <1>11, <2>3
<1>13. Stats(rows).net = SumFunctionOnSet(won, rows)
  BY DEF Stats
<1>14. IsFiniteSet(dates) /\ \A l \in rows : of[l] \in dates
  <2>1. {of[l] : l \in rows} = dates
    OBVIOUS
  <2> HIDE DEF of, dates
  <2>2. IsFiniteSet({of[l] : l \in rows})
    BY <1>9, ImageIsFinite
  <2> QED  BY <2>1, <2>2
<1>15. \A d \in dates : daily[d] = SumFunctionOnSet(won, {l \in rows : of[l] = d})
  <2> SUFFICES ASSUME NEW d \in dates
               PROVE  daily[d] = SumFunctionOnSet(won, {l \in rows : of[l] = d})
    OBVIOUS
  <2> DEFINE G == OfDay(rows, d)
             own == [l \in G |-> RowAt(l).pnl]
  <2>1. G = {l \in rows : of[l] = d}
    BY DEF OfDay
  <2>2. daily[d] = SumFunctionOnSet(own, G)
    BY DEF Stats
  <2>3. G \in SUBSET rows
    BY <2>1
  <2>4. \A l \in G : own[l] = won[l]
    BY <2>3
  <2> HIDE DEF G, own, won, daily, of, dates
  <2>5. IsFiniteSet(G) /\ IntOn(won, G)
    BY <1>9, <1>10, <2>3, FS_Subset DEF IntOn
  <2>6. SumFunctionOnSet(own, G) = SumFunctionOnSet(won, G)
    BY <2>4, <2>5, SumAgrees
  <2> QED  BY <2>1, <2>2, <2>6
<1>16. SumFunctionOnSet(daily, dates) = SumFunctionOnSet(won, rows)
  <2> DEFINE groups == [d \in dates |-> SumFunctionOnSet(won, {l \in rows : of[l] = d})]
  <2>1. daily = groups
    BY <1>15
  <2> HIDE DEF won, daily, of, dates
  <2>2. SumFunctionOnSet(groups, dates) = SumFunctionOnSet(won, rows)
    BY <1>9, <1>10, <1>14, SumByGroups
  <2> QED  BY <2>1, <2>2
<1> QED
  BY <1>9, <1>11, <1>12, <1>13, <1>16 DEF ReportCountsOnce, rows

(* A trade is numbered by those closed before it, so no number comes twice; *)
(* what is neither written nor lost is the one trade still to be written,   *)
(* and a process that got as far as its construction has a file to write to.*)
BooksInv ==
  /\ IsFiniteSet(closed)
  /\ \A t \in closed : t.id \in Nat /\ t.id <= Cardinality(closed) /\ t.pnl \in Int
  /\ pending \subseteq closed /\ lost \subseteq closed /\ pending \cap lost = {}
  /\ pending = {} \/ \E t \in closed : pending = {t}
  /\ stage \in {"down", "gates", "start", "seed", "replay", "exited"}
  /\ stage \notin {"down", "exited"} => stamp \in DOMAIN journal
  /\ Holds(journal, closed \ (lost \cup pending))

books == <<closed, lost, pending, journal, stamp>>

LEMMA BooksUntouched ==
  ASSUME BooksInv, UNCHANGED books,
         stage' \in {"down", "gates", "start", "seed", "replay", "exited"},
         stage' \notin {"down", "exited"} => stage \notin {"down", "exited"}
  PROVE  BooksInv'
BY DEF BooksInv, books, Holds

LEMMA PendingLost ==
  ASSUME BooksInv, stage \in {"gates", "start", "seed", "replay"},
         stage' \in {"down", "replay", "exited"}, stage' = "replay" => stage = "replay",
         UNCHANGED <<closed, journal, stamp>>, lost' = lost \cup pending, pending' = {}
  PROVE  BooksInv'
<1>1. closed' \ (lost' \cup pending') = closed \ (lost \cup pending)
  OBVIOUS
<1>2. Holds(journal', closed' \ (lost' \cup pending'))
  BY <1>1 DEF BooksInv
<1> QED  BY <1>2 DEF BooksInv, Holds

LEMMA TradeBooked == BooksInv /\ CloseTrade => BooksInv'
<1> SUFFICES ASSUME BooksInv, CloseTrade PROVE BooksInv'
  OBVIOUS
<1> USE ProcessAssumption
<1>1. PICK pnl \in Pnls :
        pending' = {[ id |-> Cardinality(closed) + 1, pnl |-> pnl,
                      closedAt |-> DateOf(Newest(ticks).when) ]}
  BY DEF CloseTrade
<1> DEFINE day == DateOf(Newest(ticks).when)
           id  == Cardinality(closed) + 1
           t   == [id |-> id, pnl |-> pnl, closedAt |-> day]
<1>2. pending' = {t} /\ closed' = closed \cup {t} /\ pending = {}
      /\ UNCHANGED <<journal, lost, stamp, stage>>
  BY <1>1 DEF CloseTrade
<1>3. Cardinality(closed) \in Nat /\ IsFiniteSet(closed)
  BY FS_CardinalityType DEF BooksInv
<1>4. t.id = id /\ t.pnl \in Int /\ id \in Nat
  BY <1>3
<1>5. t \notin closed
  BY <1>3, <1>4 DEF BooksInv
<1> HIDE DEF t
<1>6. IsFiniteSet(closed') /\ Cardinality(closed') = id
  BY <1>2, <1>3, <1>5, FS_AddElement
<1>7. \A u \in closed' : u.id \in Nat /\ u.id <= Cardinality(closed') /\ u.pnl \in Int
  BY <1>2, <1>3, <1>4, <1>6 DEF BooksInv
<1>8. closed' \ (lost' \cup pending') = closed \ (lost \cup pending)
  BY <1>2, <1>5
<1>9. Holds(journal', closed' \ (lost' \cup pending'))
  BY <1>2, <1>8 DEF BooksInv
<1>10. /\ pending' \subseteq closed' /\ lost' \subseteq closed' /\ pending' \cap lost' = {}
       /\ pending' = {} \/ \E u \in closed' : pending' = {u}
  BY <1>2, <1>5 DEF BooksInv
<1>11. /\ stage' \in {"down", "gates", "start", "seed", "replay", "exited"}
       /\ stage' \notin {"down", "exited"} => stamp' \in DOMAIN journal'
  BY <1>2 DEF BooksInv
<1> QED  BY <1>6, <1>7, <1>9, <1>10, <1>11 DEF BooksInv

LEMMA RowBooked == BooksInv /\ WriteRow => BooksInv'
<1> SUFFICES ASSUME BooksInv, WriteRow PROVE BooksInv'
  OBVIOUS
<1>1. PICK t \in closed : pending = {t}
  BY DEF BooksInv, WriteRow
<1>2. journal' = [journal EXCEPT ![stamp] = @ \o <<t>>]
  BY <1>1, SequenceOfOne DEF WriteRow
<1>3. stamp \in DOMAIN journal
  BY DEF BooksInv, WriteRow
<1> DEFINE written == closed \ (lost \cup pending)
<1>4. Holds(journal, written) /\ t \notin written
  BY <1>1 DEF BooksInv
<1>5. closed' \ (lost' \cup pending') = written \cup {t}
  BY <1>1 DEF WriteRow, BooksInv
<1> HIDE DEF written
<1>6. Holds(journal', closed' \ (lost' \cup pending'))
  <2>1. Holds([journal EXCEPT ![stamp] = @ \o <<t>>], written \cup {t})
    BY <1>3, <1>4, AppendedHolds
  <2> QED  BY <1>2, <1>5, <2>1
<1>7. DOMAIN journal' = DOMAIN journal
  BY <1>2
<1> QED  BY <1>6, <1>7 DEF BooksInv, WriteRow

LEMMA BooksAreKept ==
  ASSUME BooksInv, [ProcessNext]_<<barsVars, processVars>>
  PROVE  BooksInv'
<1> USE DEF world, market
<1>0. stage \in {"down", "gates", "start", "seed", "replay", "exited"}
  BY DEF BooksInv
<1>1. CASE Launch
  <2>1. journal' = Opened(journal, today) /\ stamp' = today /\ stage' = "gates"
        /\ UNCHANGED <<closed, lost, pending>>
    BY <1>1 DEF Launch
  <2>2. Holds(journal', closed' \ (lost' \cup pending'))
    BY <2>1, OpenedHolds DEF BooksInv
  <2>3. stamp' \in DOMAIN journal'
    BY <2>1 DEF Opened
  <2> QED  BY <2>1, <2>2, <2>3 DEF BooksInv
<1>2. CASE \/ Arm \/ FeedRefused \/ NothingEnabled \/ Register \/ SeedRow \/ SeedRaises
           \/ SeedDone \/ ReplayTick \/ RefreshDaily \/ LiveOrder \/ Supervise \/ Midnight
           \/ UNCHANGED <<barsVars, processVars>>
  <2>1. UNCHANGED books
    BY <1>2 DEF books, processVars, Arm, FeedRefused, NothingEnabled, Register, SeedRow,
                SeedRaises, SeedDone, ReplayTick, RefreshDaily, LiveOrder, Supervise,
                Midnight
  <2>2. /\ stage' \in {"down", "gates", "start", "seed", "replay", "exited"}
        /\ stage' \notin {"down", "exited"} => stage \notin {"down", "exited"}
    BY <1>0, <1>2 DEF processVars, Arm, FeedRefused, NothingEnabled, Register, SeedRow,
                      SeedRaises, SeedDone, ReplayTick, RefreshDaily, LiveOrder,
                      Supervise, Midnight, Exit
  <2> QED  BY <2>1, <2>2, BooksUntouched
<1>3. CASE CloseTrade
  BY <1>3, TradeBooked
<1>4. CASE WriteRow
  BY <1>4, RowBooked
<1>5. CASE WriteFails \/ Finish \/ Killed
  <2>1. /\ stage \in {"gates", "start", "seed", "replay"}
        /\ stage' \in {"down", "replay", "exited"} /\ (stage' = "replay" => stage = "replay")
    BY <1>0, <1>5 DEF WriteFails, Finish, Killed, Exit
  <2>2. UNCHANGED <<closed, journal, stamp>> /\ lost' = lost \cup pending /\ pending' = {}
    BY <1>5 DEF WriteFails, Finish, Killed
  <2> QED  BY <2>1, <2>2, PendingLost
<1> QED  BY <1>1, <1>2, <1>3, <1>4, <1>5 DEF ProcessNext

LEMMA BooksStart == ProcessInit => BooksInv
<1> SUFFICES ASSUME ProcessInit PROVE BooksInv
  OBVIOUS
<1>1. closed = {} /\ pending = {} /\ lost = {} /\ journal = <<>> /\ stage = "down"
  BY DEF ProcessInit
<1>2. Holds(journal, {}) /\ closed \ (lost \cup pending) = {}
  BY <1>1 DEF Holds
<1> QED  BY <1>1, <1>2, FS_EmptySet DEF BooksInv

LEMMA BooksTell == BooksInv => ReportCountsOnce
<1> SUFFICES ASSUME BooksInv PROVE ReportCountsOnce
  OBVIOUS
<1> DEFINE written == closed \ (lost \cup pending)
<1>1. IsFiniteSet(written)
  <2>1. written \in SUBSET closed
    OBVIOUS
  <2> HIDE DEF written
  <2> QED  BY <2>1, FS_Subset DEF BooksInv
<1>2. Holds(journal, written) /\ \A t \in written : t.pnl \in Int
  BY DEF BooksInv
<1> QED  BY <1>1, <1>2, ReportOfJournal

(* Every trade of every process, unless a crash or a full disk took its row,*)
(* is in the report once, and the days add up to the total (Journal.trade,  *)
(* Journal.__init__, daily_report.py).                                      *)
THEOREM ReportIsExact == ProcessSpec => []ReportCountsOnce
<1>1. ProcessInit => BooksInv
  BY BooksStart
<1>2. BooksInv /\ [ProcessNext]_<<barsVars, processVars>> => BooksInv'
  BY BooksAreKept
<1>3. BooksInv => ReportCountsOnce
  BY BooksTell
<1> QED  BY <1>1, <1>2, <1>3, PTL DEF ProcessSpec

LEMMA CountedUp ==
  ASSUME NEW n \in Nat, NEW r \in 0..n
  PROVE  0 \in 0..n /\ (r < n => r + 1 \in 0..n)
OBVIOUS

LEMMA IdleTyped == Idle \in [DOMAIN Idle -> BOOLEAN]
<1>1. DOMAIN Idle = {"autotrade", "armed", "failed", "running"}
  BY DEF Idle
<1>2. Idle.autotrade = FALSE /\ Idle.armed = FALSE /\ Idle.failed = FALSE /\ Idle.running = FALSE
  BY DEF Idle
<1>3. Idle = [x \in DOMAIN Idle |-> Idle[x]]
  BY Zenon DEF Idle
<1>4. \A x \in DOMAIN Idle : Idle[x] \in BOOLEAN
  BY <1>1, <1>2
<1> QED  BY <1>3, <1>4

LEMMA ProcessTyped ==
  ASSUME ProcessTypeOK, [ProcessNext]_<<barsVars, processVars>>
  PROVE  ProcessTypeOK'
<1>01. Len(Recorded) \in Nat
  BY ProcessAssumption
<1>0. DOMAIN Idle = {"autotrade", "armed", "failed", "running"}
  BY DEF Idle
<1> USE DEF ProcessTypeOK, world, market
<1>1. CASE Launch
  <2>1. AutotradeAtStart \in BOOLEAN
    BY DEF AutotradeAtStart
  <2>2. engine' \in [DOMAIN Idle -> BOOLEAN]
    BY <1>1, <2>1, <1>0, IdleTyped DEF Launch
  <2>3. DOMAIN journal' \subseteq Wall /\ stamp' \in Wall
    BY <1>1 DEF Launch, Opened
  <2>4. lives' \in 0..MaxLives
    <3>1. lives < MaxLives /\ lives' = lives + 1 /\ lives \in 0..MaxLives
      BY <1>1 DEF Launch
    <3>2. MaxLives \in Nat
      BY ProcessAssumption
    <3> QED  BY <3>1, <3>2, CountedUp
  <2>5. row' \in 0..Len(Recorded)
    BY <1>1, <1>01, CountedUp DEF Launch
  <2> QED  BY <1>1, <2>2, <2>3, <2>4, <2>5 DEF Launch
<1>2. CASE Arm
  <2>1. engine' \in [DOMAIN Idle -> BOOLEAN]
    BY <1>2, <1>0 DEF Arm
  <2> QED  BY <1>2, <2>1 DEF Arm
<1>3. CASE FeedRefused
  BY <1>3, <1>0 DEF FeedRefused, Fatal, Exit
<1>4. CASE NothingEnabled
  BY <1>4 DEF NothingEnabled, Exit
<1>5. CASE Register
  BY <1>5 DEF Register
<1>6. CASE SeedRow
  <2>1. row < Len(Recorded) /\ row' = row + 1 /\ row \in 0..Len(Recorded)
    BY <1>6 DEF SeedRow, NextRow
  <2>2. row' \in 0..Len(Recorded)
    BY <1>01, <2>1, CountedUp
  <2> QED  BY <1>6, <2>2 DEF SeedRow
<1>7. CASE SeedRaises
  BY <1>7, <1>0 DEF SeedRaises, Fatal, Exit
<1>8. CASE SeedDone
  <2>1. engine' \in [DOMAIN Idle -> BOOLEAN]
    BY <1>8, <1>0 DEF SeedDone
  <2>2. row' \in 0..Len(Recorded)
    BY <1>8, <1>01, CountedUp DEF SeedDone
  <2> QED  BY <1>8, <2>1, <2>2 DEF SeedDone
<1>9. CASE ReplayTick
  <2>1. row < Len(Recorded) /\ row' = row + 1 /\ row \in 0..Len(Recorded)
    BY <1>9 DEF ReplayTick, NextRow
  <2>2. row' \in 0..Len(Recorded)
    BY <1>01, <2>1, CountedUp
  <2> QED  BY <1>9, <2>2 DEF ReplayTick
<1>10. CASE RefreshDaily
  BY <1>10 DEF RefreshDaily
<1>11. CASE CloseTrade
  BY <1>11 DEF CloseTrade
<1>12. CASE WriteRow
  <2>1. DOMAIN journal' = DOMAIN journal
    BY <1>12 DEF WriteRow
  <2> QED  BY <1>12, <2>1 DEF WriteRow
<1>13. CASE WriteFails
  BY <1>13 DEF WriteFails
<1>14. CASE LiveOrder
  BY <1>14 DEF LiveOrder
<1>15. CASE Finish
  BY <1>15 DEF Finish, Exit
<1>16. CASE Killed
  BY <1>16 DEF Killed
<1>17. CASE Supervise
  BY <1>17 DEF Supervise
<1>18. CASE Midnight
  BY <1>18 DEF Midnight
<1>19. CASE UNCHANGED <<barsVars, processVars>>
  BY <1>19 DEF processVars
<1> QED  BY <1>1, <1>2, <1>3, <1>4, <1>5, <1>6, <1>7, <1>8, <1>9, <1>10, <1>11,
            <1>12, <1>13, <1>14, <1>15, <1>16, <1>17, <1>18, <1>19 DEF ProcessNext

LEMMA ProcessStarts == ProcessInit => ProcessTypeOK
<1> SUFFICES ASSUME ProcessInit PROVE ProcessTypeOK
  OBVIOUS
<1> USE ProcessAssumption
<1>1. today \in Wall
  <2>1. \E i \in Wall : \A j \in Wall : i <= j
    BY HasLeast
  <2> QED  BY <2>1 DEF ProcessInit, Min
<1>2. engine \in [DOMAIN Idle -> BOOLEAN]
  BY IdleTyped DEF ProcessInit
<1>3. Len(Recorded) \in Nat /\ row = 0 /\ lives = 0 /\ journal = <<>>
  BY DEF ProcessInit
<1> QED  BY <1>1, <1>2, <1>3 DEF ProcessInit, ProcessTypeOK

(* Type correctness of the process and of what outlives it.                 *)
THEOREM ProcessTypeCorrect == ProcessSpec => []ProcessTypeOK
<1> QED  BY ProcessStarts, ProcessTyped, PTL DEF ProcessSpec

--------------------------------------------------------------------------------
(* The daily candles.                                                       *)

LEMMA IntsHaveExtremes ==
  ASSUME NEW S \in SUBSET Int, IsFiniteSet(S), S # {}
  PROVE  /\ \E m \in S : \A n \in S : n <= m
         /\ \E m \in S : \A n \in S : m <= n
<1> DEFINE G == {T \in SUBSET S :
                   T # {} => /\ \E m \in T : \A n \in T : n <= m
                             /\ \E m \in T : \A n \in T : m <= n}
<1>1. {} \in G
  OBVIOUS
<1>2. ASSUME NEW T \in SUBSET S, T \in G, NEW y \in S \ T PROVE T \cup {y} \in G
  <2>1. y \in Int /\ \A x \in T : x \in Int
    OBVIOUS
  <2>2. CASE T = {}
    BY <2>1, <2>2
  <2>3. CASE T # {}
    <3>1. PICK m \in T : \A n \in T : n <= m
      BY <1>2, <2>3
    <3>2. PICK l \in T : \A n \in T : l <= n
      BY <1>2, <2>3
    <3>3. \E x \in T \cup {y} : \A n \in T \cup {y} : n <= x
      <4>1. CASE y <= m
        BY <2>1, <3>1, <4>1
      <4>2. CASE m <= y
        BY <2>1, <3>1, <4>2
      <4> QED  BY <2>1, <4>1, <4>2
    <3>4. \E x \in T \cup {y} : \A n \in T \cup {y} : x <= n
      <4>1. CASE y <= l
        BY <2>1, <3>2, <4>1
      <4>2. CASE l <= y
        BY <2>1, <3>2, <4>2
      <4> QED  BY <2>1, <4>1, <4>2
    <3> QED  BY <3>3, <3>4
  <2> QED  BY <2>2, <2>3
<1>3. S \in G
  <2> HIDE DEF G
  <2> QED  BY <1>1, <1>2, Growing
<1> QED  BY <1>3

LEMMA Extremes ==
  ASSUME NEW S \in SUBSET Int, NEW m \in S
  PROVE  /\ (\A n \in S : n <= m) => Max(S) = m
         /\ (\A n \in S : m <= n) => Min(S) = m
<1>1. ASSUME \A n \in S : n <= m PROVE Max(S) = m
  <2>1. \A x \in S : (\A y \in S : x >= y) <=> x = m
    BY <1>1
  <2> QED  BY <2>1 DEF Max
<1>2. ASSUME \A n \in S : m <= n PROVE Min(S) = m
  <2>1. \A x \in S : (\A y \in S : x =< y) <=> x = m
    BY <1>2
  <2> QED  BY <2>1 DEF Min
<1> QED  BY <1>1, <1>2

(* A bar and the ticks in it are of one day.                                *)
LEMMA QuotientUnique ==
  ASSUME NEW x \in Int, NEW d \in Nat \ {0}, NEW q \in Int, d * q <= x, x < d * q + d
  PROVE  x \div d = q
<1> DEFINE p == x \div d
<1>1. p \in Int /\ d * p <= x /\ x < d * p + d
  BY Division
<1> HIDE DEF p
<1>2. CASE p + 1 <= q
  <2>1. d * (p + 1) <= d * q /\ d * (p + 1) = d * p + d
    BY <1>1, <1>2
  <2> QED  BY <1>1, <2>1
<1>3. CASE q + 1 <= p
  <2>1. d * (q + 1) <= d * p /\ d * (q + 1) = d * q + d
    BY <1>1, <1>3
  <2> QED  BY <1>1, <2>1
<1>4. p = q
  BY <1>1, <1>2, <1>3
<1> QED  BY <1>4 DEF p

LEMMA BucketOfDay ==
  ASSUME NEW when \in Int
  PROVE  DateOf(Bucket(when, EntryPeriod)) = DateOf(when)
<1>1. /\ EntryPeriod \in Nat \ {0} /\ DaySeconds \in Nat \ {0}
      /\ DaySeconds % EntryPeriod = 0
  BY ProcessAssumption, BarsAssumption
<1> DEFINE x == Bucket(when, EntryPeriod)
           q == when \div DaySeconds
<1>2. x \in Int /\ Bucket(when, DaySeconds) <= x
      /\ x < Bucket(when, DaySeconds) + DaySeconds
  BY <1>1, BucketType, BucketsNest
<1>3. q \in Int /\ Bucket(when, DaySeconds) = DaySeconds * q
  BY <1>1, Division DEF Bucket
<1> HIDE DEF x, q
<1>4. x \div DaySeconds = q
  BY <1>1, <1>2, <1>3, QuotientUnique
<1> QED  BY <1>4 DEF DateOf, x, q

(* The recorded ticks are in time order, as the files of a day-by-day       *)
(* collector are.                                                           *)
RecordedInOrder ==
  \A i, j \in DOMAIN Recorded : i < j => Recorded[i].when <= Recorded[j].when

Slot(k) == Bucket(Recorded[k].when, EntryPeriod)

(* Of the first n recorded ticks, those that fall into this bar.            *)
InBar(bar, n) == {k \in 1..n : Slot(k) = bar.start}

(* A bar opens, closes and ranges as these recorded ticks do.               *)
Recalls(bar, T) ==
  /\ \E k \in T : bar.open = Recorded[k].price /\ \A l \in T : k <= l
  /\ \E k \in T : bar.close = Recorded[k].price /\ \A l \in T : l <= k
  /\ \E k \in T : bar.high = Recorded[k].price
  /\ \E k \in T : bar.low = Recorded[k].price
  /\ \A k \in T : bar.low <= Recorded[k].price /\ Recorded[k].price <= bar.high

(* A series is what _roll made of the first n recorded ticks.               *)
FoldOfTicks(bars, n) ==
  /\ Rising(bars, EntryPeriod)
  /\ IF n = 0 THEN bars = <<>> ELSE bars # <<>> /\ Newest(bars).start = Slot(n)
  /\ \A b \in Range(bars) : Recalls(b, InBar(b, n))
  /\ \A k \in 1..n : bars[1].start <= Recorded[k].when => \E b \in Range(bars) : b.start = Slot(k)

LEMMA RecordedTyped ==
  /\ EntryPeriod \in Nat \ {0} /\ EntryPeriod \in Timeframes
  /\ Len(Recorded) \in Nat /\ DOMAIN Recorded = 1..Len(Recorded)
  /\ \A k \in 1..Len(Recorded) :
       /\ Recorded[k] \in Tick /\ Recorded[k].when \in Int /\ Recorded[k].price \in Int
       /\ Slot(k) \in Int /\ Slot(k) % EntryPeriod = 0 /\ Slot(k) <= Recorded[k].when
<1>1. EntryPeriod \in Nat \ {0} /\ EntryPeriod \in Timeframes
  BY ProcessAssumption, BarsAssumption
<1>2. Recorded \in Seq(Tick)
  BY ProcessAssumption
<1>3. Len(Recorded) \in Nat /\ DOMAIN Recorded = 1..Len(Recorded)
  BY <1>2
<1>4. ASSUME NEW k \in 1..Len(Recorded)
      PROVE  /\ Recorded[k] \in Tick /\ Recorded[k].when \in Int /\ Recorded[k].price \in Int
             /\ Slot(k) \in Int /\ Slot(k) % EntryPeriod = 0 /\ Slot(k) <= Recorded[k].when
  <2>1. Recorded[k] \in Tick
    BY <1>2
  <2>2. Recorded[k].when \in Int /\ Recorded[k].price \in Int
    BY <2>1 DEF Tick
  <2> QED  BY <1>1, <2>1, <2>2, BucketType, BucketOnGrid, BucketHolds DEF Slot
<1> QED  BY <1>1, <1>3, <1>4

LEMMA SlotsRise ==
  ASSUME RecordedInOrder, NEW i \in 1..Len(Recorded), NEW j \in 1..Len(Recorded), i <= j
  PROVE  Slot(i) <= Slot(j)
<1>1. CASE i = j
  BY <1>1, RecordedTyped
<1>2. CASE i < j
  <2>1. Recorded[i].when <= Recorded[j].when
    BY <1>2, RecordedTyped DEF RecordedInOrder
  <2> QED  BY <2>1, RecordedTyped, BucketsRise DEF Slot
<1> QED  BY <1>1, <1>2

(* A bar of these ticks, updated with one more.                             *)
LEMMA UpdatedRecalls ==
  ASSUME NEW bar \in Bar, NEW n \in Nat, n + 1 \in 1..Len(Recorded),
         NEW T \in SUBSET (1..n), Recalls(bar, T)
  PROVE  Recalls(Updated(bar, Recorded[n + 1].price), T \cup {n + 1})
<1> DEFINE p == Recorded[n + 1].price
           new == Updated(bar, p)
<1>1. /\ new.open = bar.open /\ new.close = p
      /\ new.high = (IF p > bar.high THEN p ELSE bar.high)
      /\ new.low = (IF p < bar.low THEN p ELSE bar.low)
      /\ bar.high \in Int /\ bar.low \in Int
  BY DEF Updated, Bar
<1>2. p \in Int /\ \A k \in T : k \in Int /\ k <= n /\ Recorded[k].price \in Int
  <2>1. Len(Recorded) \in Nat /\ \A k \in 1..Len(Recorded) : Recorded[k].price \in Int
    BY RecordedTyped
  <2>2. \A k \in T : k \in Int /\ k <= n /\ k \in 1..Len(Recorded)
    BY <2>1
  <2> QED  BY <2>1, <2>2
<1> DEFINE U == T \cup {n + 1}
<1>3. /\ p = Recorded[n + 1].price /\ n + 1 \in U /\ T \subseteq U
      /\ \A k \in U : k = n + 1 \/ k \in T
      /\ \A k \in U : k <= n + 1
  BY <1>2
<1> HIDE DEF new, p, U
<1>4. \E k \in U : new.open = Recorded[k].price /\ \A l \in U : k <= l
  <2>1. PICK k \in T : bar.open = Recorded[k].price /\ \A l \in T : k <= l
    BY DEF Recalls
  <2>2. k \in U /\ k <= n + 1
    BY <1>3
  <2>3. \A l \in U : k <= l
    BY <1>3, <2>1, <2>2
  <2> QED  BY <1>1, <2>1, <2>2, <2>3
<1>5. \E k \in U : new.close = Recorded[k].price /\ \A l \in U : l <= k
  BY <1>1, <1>3
<1>6. /\ \E k \in U : bar.high = Recorded[k].price
      /\ \E k \in U : bar.low = Recorded[k].price
      /\ \A k \in T : bar.low <= Recorded[k].price /\ Recorded[k].price <= bar.high
  BY <1>3 DEF Recalls
<1>7. \E k \in U : new.high = Recorded[k].price
  BY <1>1, <1>3, <1>6
<1>8. \E k \in U : new.low = Recorded[k].price
  BY <1>1, <1>3, <1>6
<1>9. \A k \in U : new.low <= Recorded[k].price /\ Recorded[k].price <= new.high
  <2> SUFFICES ASSUME NEW k \in U
               PROVE  new.low <= Recorded[k].price /\ Recorded[k].price <= new.high
    OBVIOUS
  <2>1. CASE k = n + 1
    BY <1>1, <1>2, <1>3, <2>1
  <2>2. CASE k \in T
    <3>1. /\ bar.low <= Recorded[k].price /\ Recorded[k].price <= bar.high
          /\ Recorded[k].price \in Int
      BY <1>2, <1>6, <2>2
    <3> QED  BY <1>1, <1>2, <3>1
  <2> QED  BY <1>3, <2>1, <2>2
<1>10. Recalls(new, U)
  BY <1>4, <1>5, <1>7, <1>8, <1>9 DEF Recalls
<1> QED  BY <1>10 DEF new, p, U

LEMMA FirstRecalls ==
  ASSUME NEW n \in 1..Len(Recorded)
  PROVE  Recalls(FirstOf(Slot(n), Recorded[n].price), {n})
BY RecordedTyped DEF Recalls, FirstOf

LEMMA FoldExtends ==
  ASSUME RecordedInOrder, NEW n \in Nat, n + 1 \in 1..Len(Recorded),
         NEW bars, FoldOfTicks(bars, n)
  PROVE  FoldOfTicks(Rolled(bars, EntryPeriod, Recorded[n + 1]), n + 1)
<1> DEFINE tick == Recorded[n + 1]
           rolled == Rolled(bars, EntryPeriod, tick)
           start == Slot(n + 1)
           price == tick.price
<1>0. /\ EntryPeriod \in Timeframes /\ EntryPeriod \in Nat \ {0}
      /\ tick \in Tick /\ start \in Int /\ price \in Int /\ Len(Recorded) \in Nat
      /\ start % EntryPeriod = 0 /\ start = Bucket(tick.when, EntryPeriod)
  BY RecordedTyped DEF Slot
<1>1. \A k \in 1..n : k \in 1..Len(Recorded) /\ Slot(k) \in Int /\ Slot(k) <= start
  <2> SUFFICES ASSUME NEW k \in 1..n
               PROVE  k \in 1..Len(Recorded) /\ Slot(k) \in Int /\ Slot(k) <= start
    OBVIOUS
  <2>1. k \in 1..Len(Recorded) /\ k <= n + 1
    BY <1>0
  <2> QED  BY <2>1, RecordedTyped, SlotsRise
<1>2. bars # <<>> => n \in 1..n /\ Newest(bars).start = Slot(n) /\ Newest(bars).start <= start
  BY <1>1 DEF FoldOfTicks
<1>3. Rising(bars, EntryPeriod)
  BY DEF FoldOfTicks
<1>4. /\ Rising(rolled, EntryPeriod) /\ rolled # <<>> /\ Newest(rolled).start = start
      /\ Ticked(bars, rolled, start, price)
  BY <1>0, <1>2, <1>3, RolledRises, RolledEither
<1>5. /\ \A b \in Range(bars) \cup Range(rolled) : b \in Bar /\ b.start \in Int
      /\ rolled[1].start \in Int /\ rolled[1].start % EntryPeriod = 0
      /\ bars # <<>> => bars[1].start \in Int
  <2>1. 1 \in 1..Len(rolled) /\ (bars # <<>> => 1 \in 1..Len(bars))
    BY <1>3, <1>4 DEF Rising
  <2>2. rolled[1].start % EntryPeriod = 0
    BY <1>4, <2>1 DEF Rising
  <2>3. /\ Range(bars) \subseteq Bar /\ Range(rolled) \subseteq Bar
        /\ \A i \in 1..Len(rolled) : rolled[i].start \in Int
        /\ \A i \in 1..Len(bars) : bars[i].start \in Int
    BY <1>3, <1>4, RisingRange
  <2> QED  BY <2>1, <2>2, <2>3 DEF Bar
<1> HIDE DEF rolled, start, price, tick
<1>6. \A k \in 1..n + 1 : k \in 1..n \/ k = n + 1
  OBVIOUS
<1>7. Slot(n + 1) = start /\ n + 1 # 0 /\ n + 1 \in 1..n + 1 /\ \A k \in 1..n : k \in 1..n + 1
  BY DEF start
<1>8. ASSUME NEW b, b.start # start PROVE InBar(b, n + 1) = InBar(b, n)
  BY <1>6, <1>7, <1>8 DEF InBar
<1>9. ASSUME Touched(bars, rolled, price), Newest(bars).start = start
      PROVE  FoldOfTicks(rolled, n + 1)
  <2> DEFINE last == Newest(bars)
             late == Updated(last, price)
  <2>1. /\ last \in Range(bars) /\ Range(rolled) = (Range(bars) \ {last}) \cup {late}
        /\ rolled[1].start = bars[1].start
        /\ \A b \in Range(bars) : b = last \/ b.start < start
        /\ last \in Bar /\ late.start = start /\ last.start = start
    BY <1>0, <1>5, <1>9, UpdatedIsBar DEF Touched, price
  <2> HIDE DEF last, late
  <2>2. Recalls(late, InBar(late, n + 1))
    <3>1. Recalls(last, InBar(last, n)) /\ InBar(last, n) \in SUBSET (1..n)
      BY <2>1 DEF FoldOfTicks, InBar
    <3>2. InBar(late, n + 1) = InBar(last, n) \cup {n + 1}
      BY <1>6, <1>7, <2>1 DEF InBar
    <3> QED  BY <2>1, <3>1, <3>2, UpdatedRecalls DEF late, price, tick
  <2>3. \A b \in Range(rolled) : Recalls(b, InBar(b, n + 1))
    <3> SUFFICES ASSUME NEW b \in Range(rolled), b # late PROVE Recalls(b, InBar(b, n + 1))
      BY <2>2
    <3>1. b \in Range(bars) /\ b.start # start
      BY <1>0, <1>5, <2>1
    <3> QED  BY <1>8, <3>1 DEF FoldOfTicks
  <2>4. ASSUME NEW k \in 1..n + 1, rolled[1].start <= Recorded[k].when
        PROVE  \E b \in Range(rolled) : b.start = Slot(k)
    <3>1. CASE k = n + 1
      BY <1>7, <2>1, <3>1
    <3>2. CASE k \in 1..n
      <4>1. PICK b \in Range(bars) : b.start = Slot(k)
        BY <2>1, <2>4, <3>2 DEF FoldOfTicks
      <4> QED  BY <2>1, <4>1
    <3> QED  BY <1>6, <3>1, <3>2
  <2> QED  BY <1>4, <1>7, <2>3, <2>4 DEF FoldOfTicks
<1>10. ASSUME Extended(bars, rolled, FirstOf(start, price))
       PROVE  FoldOfTicks(rolled, n + 1)
  <2> DEFINE new == FirstOf(start, price)
  <2>1. /\ new \in Range(rolled) /\ Range(rolled) \subseteq Range(bars) \cup {new}
        /\ new.start = start /\ \A b \in Range(bars) : b.start < start
        /\ \A b \in Range(bars) \ Range(rolled) : b.start < rolled[1].start
        /\ bars # <<>> => bars[1].start <= rolled[1].start
    BY <1>0, <1>10, FirstIsBar DEF Extended
  <2>2. Recalls(new, {n + 1})
    BY FirstRecalls DEF start, price, tick
  <2> HIDE DEF new
  <2>3. \A k \in 1..n : Slot(k) < start
    <3> SUFFICES ASSUME NEW k \in 1..n PROVE Slot(k) < start
      OBVIOUS
    <3>1. bars # <<>> /\ n \in 1..n /\ Newest(bars).start = Slot(n)
      BY <1>2 DEF FoldOfTicks
    <3>2. Newest(bars) \in Range(bars)
      BY <1>3, <3>1, RisingRange DEF Newest
    <3>3. Slot(k) <= Slot(n)
      BY <1>1, <3>1, SlotsRise
    <3> QED  BY <1>0, <1>1, <2>1, <3>1, <3>2, <3>3
  <2>4. InBar(new, n + 1) = {n + 1}
    BY <1>0, <1>1, <1>6, <1>7, <2>1, <2>3 DEF InBar
  <2>5. \A b \in Range(rolled) : Recalls(b, InBar(b, n + 1))
    <3> SUFFICES ASSUME NEW b \in Range(rolled), b # new PROVE Recalls(b, InBar(b, n + 1))
      BY <2>2, <2>4
    <3>1. b \in Range(bars) /\ b.start # start
      BY <1>0, <1>5, <2>1
    <3> QED  BY <1>8, <3>1 DEF FoldOfTicks
  <2>6. ASSUME NEW k \in 1..n + 1, rolled[1].start <= Recorded[k].when
        PROVE  \E b \in Range(rolled) : b.start = Slot(k)
    <3>1. CASE k = n + 1
      BY <1>7, <2>1, <3>1
    <3>2. CASE k \in 1..n
      <4>1. bars # <<>> /\ Recorded[k].when \in Int
        BY <1>1, <3>2, RecordedTyped DEF FoldOfTicks
      <4>2. bars[1].start <= Recorded[k].when
        BY <1>5, <2>1, <2>6, <4>1
      <4>3. PICK b \in Range(bars) : b.start = Slot(k)
        BY <3>2, <4>2 DEF FoldOfTicks
      <4>4. Bucket(rolled[1].start, EntryPeriod) <= Slot(k)
        BY <1>0, <1>5, <2>6, <4>1, BucketsRise DEF Slot
      <4>5. Bucket(rolled[1].start, EntryPeriod) = rolled[1].start
        BY <1>5 DEF Bucket
      <4>6. b \in Range(rolled)
        BY <1>1, <1>5, <2>1, <3>2, <4>3, <4>4, <4>5
      <4> QED  BY <4>3, <4>6
    <3> QED  BY <1>6, <3>1, <3>2
  <2> QED  BY <1>4, <1>7, <2>5, <2>6 DEF FoldOfTicks
<1>11. FoldOfTicks(rolled, n + 1)
  BY <1>4, <1>9, <1>10 DEF Ticked
<1> QED  BY <1>11 DEF rolled, tick

(* Once all the recorded ticks are folded, the bars of a day of which       *)
(* nothing is forgotten tell its candle.                                    *)
LEMMA CandleTells ==
  ASSUME RecordedInOrder, FoldOfTicks(series[EntryPeriod], Len(Recorded)),
         NEW day \in BarDays, ~Forgotten(day)
  PROVE  LET of   == {i \in DOMAIN Recorded : DateOf(Recorded[i].when) = day}
             said == {Recorded[i].price : i \in of}
         IN  Candle(day) = [ open  |-> Recorded[Min(of)].price,
                             close |-> Recorded[Max(of)].price,
                             high  |-> Max(said), low |-> Min(said) ]
<1> DEFINE bars == series[EntryPeriod]
           n    == Len(bars)
           all  == 1..Len(Recorded)
           T(i) == InBar(bars[i], Len(Recorded))
           own  == {i \in 1..n : DateOf(bars[i].start) = day}
           of   == {k \in all : DateOf(Recorded[k].when) = day}
           said == {Recorded[k].price : k \in of}
           tops == {bars[i].high : i \in own}
           ends == {bars[i].low : i \in own}
<1>0. /\ EntryPeriod \in Nat \ {0} /\ Len(Recorded) \in Nat /\ DOMAIN Recorded = all
      /\ \A k \in all : /\ Recorded[k].when \in Int /\ Recorded[k].price \in Int
                        /\ Slot(k) \in Int
  BY RecordedTyped
<1>1. /\ n \in Nat /\ Range(bars) = {bars[i] : i \in 1..n}
      /\ \A i \in 1..n : bars[i] \in Bar /\ bars[i].start \in Int
      /\ \A i, j \in 1..n : i < j => bars[i].start < bars[j].start
  BY RisingRange DEF FoldOfTicks, Rising
<1>2. \A i \in 1..n : bars[i].high \in Int /\ bars[i].low \in Int
  BY <1>1 DEF Bar
<1>3. \A i \in 1..n : Recalls(bars[i], T(i))
  BY <1>1 DEF FoldOfTicks
<1>4. \A i \in own : \A k \in T(i) : k \in of
  <2> SUFFICES ASSUME NEW i \in own, NEW k \in T(i) PROVE k \in of
    OBVIOUS
  <2>1. k \in all /\ Slot(k) = bars[i].start
    BY DEF InBar
  <2>2. DateOf(Slot(k)) = DateOf(Recorded[k].when)
    BY <1>0, <2>1, BucketOfDay DEF Slot
  <2> QED  BY <2>1, <2>2
<1>5. \A k \in of : \E i \in own : k \in T(i)
  <2> SUFFICES ASSUME NEW k \in of PROVE \E i \in own : k \in T(i)
    OBVIOUS
  <2>0. n # 0
    <3>1. bars # <<>>
      BY DEF FoldOfTicks
    <3>2. bars \in Seq(Bar)
      BY DEF FoldOfTicks, Rising
    <3> QED  BY <3>1, <3>2
  <2>1. bars[1].start \in Int /\ Recorded[k].when \in Int
    BY <1>0, <1>1, <2>0
  <2>2. ~(Recorded[k].when < bars[1].start)
    BY <1>0 DEF Forgotten
  <2>3. bars[1].start <= Recorded[k].when
    BY <2>1, <2>2
  <2>4. PICK b \in Range(bars) : b.start = Slot(k)
    BY <2>3 DEF FoldOfTicks
  <2>5. PICK i \in 1..n : bars[i].start = Slot(k)
    BY <1>1, <2>4
  <2>6. DateOf(Slot(k)) = DateOf(Recorded[k].when)
    BY <1>0, BucketOfDay DEF Slot
  <2> QED  BY <2>5, <2>6 DEF InBar
<1>6. own # {}
  BY DEF BarDays
(* A later bar holds later ticks.                                           *)
<1>7. \A i, j \in own : \A k \in T(i), l \in T(j) : i < j => k < l
  <2> SUFFICES ASSUME NEW i \in own, NEW j \in own, NEW k \in T(i), NEW l \in T(j), i < j
               PROVE  k < l
    OBVIOUS
  <2>1. k \in all /\ l \in all /\ Slot(k) < Slot(l) /\ k \in Int /\ l \in Int
    BY <1>1 DEF InBar
  <2>2. l <= k => Slot(l) <= Slot(k)
    BY <2>1, SlotsRise
  <2> QED  BY <1>0, <2>1, <2>2
<1>8. own \in SUBSET Nat /\ IsFiniteSet(own)
  <2>1. IsFiniteSet(1..n)
    BY <1>1, FS_Interval
  <2>2. own \in SUBSET (1..n)
    OBVIOUS
  <2>3. own \in SUBSET Nat
    BY <1>1, <2>2
  <2> HIDE DEF own
  <2>4. IsFiniteSet(own)
    BY <2>1, <2>2, FS_Subset
  <2> QED  BY <2>3, <2>4
<1>9. of \in SUBSET Int /\ own \in SUBSET Int
  BY <1>1
<1>10. /\ tops \in SUBSET Int /\ ends \in SUBSET Int /\ said \in SUBSET Int
       /\ tops # {} /\ ends # {} /\ IsFiniteSet(tops) /\ IsFiniteSet(ends)
  <2> DEFINE high == [i \in own |-> bars[i].high]
             low  == [i \in own |-> bars[i].low]
  <2>1. tops = {high[i] : i \in own} /\ ends = {low[i] : i \in own}
    OBVIOUS
  <2>2. tops \in SUBSET Int /\ ends \in SUBSET Int /\ said \in SUBSET Int
    BY <1>0, <1>2
  <2>3. tops # {} /\ ends # {}
    BY <1>6
  <2> HIDE DEF high, low, tops, ends, own
  <2>4. IsFiniteSet({high[i] : i \in own}) /\ IsFiniteSet({low[i] : i \in own})
    BY <1>8, ImageIsFinite
  <2> QED  BY <2>1, <2>2, <2>3, <2>4
<1>11. own \subseteq 1..n
  OBVIOUS
<1> HIDE DEF own, of, T, n, all
<1>12. bars[Min(own)].open = Recorded[Min(of)].price
  <2>1. PICK i \in own : \A j \in own : i <= j
    BY <1>6, <1>8, HasLeast
  <2>2. PICK k \in T(i) : bars[i].open = Recorded[k].price /\ \A l \in T(i) : k <= l
    BY <1>3, <1>11 DEF Recalls
  <2>3. k \in of
    BY <1>4, <2>2
  <2>4. \A l \in of : k <= l
    <3> SUFFICES ASSUME NEW l \in of PROVE k <= l
      OBVIOUS
    <3>1. PICK j \in own : l \in T(j)
      BY <1>5
    <3>2. i = j \/ i < j
      BY <1>9, <2>1
    <3>3. k \in Int /\ l \in Int
      BY <1>9, <2>3
    <3>4. CASE i = j
      BY <2>2, <3>1, <3>4
    <3>5. CASE i < j
      <4>1. k < l
        BY <1>7, <2>2, <3>1, <3>5
      <4> QED  BY <3>3, <4>1
    <3> QED  BY <3>2, <3>4, <3>5
  <2>5. Min(own) = i /\ Min(of) = k
    BY <1>9, <2>1, <2>3, <2>4, Extremes
  <2> QED  BY <2>2, <2>5
<1>13. bars[Max(own)].close = Recorded[Max(of)].price
  <2>1. PICK i \in own : \A j \in own : j <= i
    BY <1>6, <1>8, HasGreatest
  <2>2. PICK k \in T(i) : bars[i].close = Recorded[k].price /\ \A l \in T(i) : l <= k
    BY <1>3, <1>11 DEF Recalls
  <2>3. k \in of
    BY <1>4, <2>2
  <2>4. \A l \in of : l <= k
    <3> SUFFICES ASSUME NEW l \in of PROVE l <= k
      OBVIOUS
    <3>1. PICK j \in own : l \in T(j)
      BY <1>5
    <3>2. i = j \/ j < i
      BY <1>9, <2>1
    <3>3. k \in Int /\ l \in Int
      BY <1>9, <2>3
    <3>4. CASE i = j
      BY <2>2, <3>1, <3>4
    <3>5. CASE j < i
      <4>1. l < k
        BY <1>7, <2>2, <3>1, <3>5
      <4> QED  BY <3>3, <4>1
    <3> QED  BY <3>2, <3>4, <3>5
  <2>5. Max(own) = i /\ Max(of) = k
    BY <1>9, <2>1, <2>3, <2>4, Extremes
  <2> QED  BY <2>2, <2>5
<1>14. Max(tops) = Max(said)
  <2>1. PICK m \in tops : \A x \in tops : x <= m
    BY <1>10, IntsHaveExtremes
  <2>2. PICK i \in own : m = bars[i].high
    OBVIOUS
  <2>3. PICK k \in T(i) : m = Recorded[k].price
    BY <1>3, <1>11, <2>2 DEF Recalls
  <2>4. k \in of
    BY <1>4, <2>3
  <2>5. m \in said
    BY <2>3, <2>4
  <2>6. \A x \in said : x <= m
    <3> SUFFICES ASSUME NEW l \in of PROVE Recorded[l].price <= m
      OBVIOUS
    <3>1. PICK j \in own : l \in T(j)
      BY <1>5
    <3>2. Recorded[l].price <= bars[j].high
      BY <1>3, <1>11, <3>1 DEF Recalls
    <3>3. bars[j].high \in tops /\ Recorded[l].price \in said
      OBVIOUS
    <3> HIDE DEF tops, said
    <3>4. m \in Int /\ bars[j].high \in Int /\ Recorded[l].price \in Int
      BY <1>10, <3>3
    <3>5. bars[j].high <= m
      BY <2>1, <3>3
    <3> QED  BY <3>2, <3>4, <3>5
  <2> HIDE DEF tops, said
  <2> QED  BY <1>10, <2>1, <2>5, <2>6, Extremes
<1>15. Min(ends) = Min(said)
  <2>1. PICK m \in ends : \A x \in ends : m <= x
    BY <1>10, IntsHaveExtremes
  <2>2. PICK i \in own : m = bars[i].low
    OBVIOUS
  <2>3. PICK k \in T(i) : m = Recorded[k].price
    BY <1>3, <1>11, <2>2 DEF Recalls
  <2>4. k \in of
    BY <1>4, <2>3
  <2>5. m \in said
    BY <2>3, <2>4
  <2>6. \A x \in said : m <= x
    <3> SUFFICES ASSUME NEW l \in of PROVE m <= Recorded[l].price
      OBVIOUS
    <3>1. PICK j \in own : l \in T(j)
      BY <1>5
    <3>2. bars[j].low <= Recorded[l].price
      BY <1>3, <1>11, <3>1 DEF Recalls
    <3>3. bars[j].low \in ends /\ Recorded[l].price \in said
      OBVIOUS
    <3> HIDE DEF ends, said
    <3>4. m \in Int /\ bars[j].low \in Int /\ Recorded[l].price \in Int
      BY <1>10, <3>3
    <3>5. m <= bars[j].low
      BY <2>1, <3>3
    <3> QED  BY <3>2, <3>4, <3>5
  <2> HIDE DEF ends, said
  <2> QED  BY <1>10, <2>1, <2>5, <2>6, Extremes
<1> QED  BY <1>0, <1>12, <1>13, <1>14, <1>15 DEF Candle, own, of, n, all

(* While a process seeds, the entry series is what _roll makes of the ticks *)
(* it has read, and it stays that of all of them until the replay begins.   *)
DailyInv ==
  /\ ProcessTypeOK
  /\ stage \in {"gates", "start"} =>
       row = 0 /\ series[EntryPeriod] = <<>> /\ candles = <<>>
  /\ stage = "seed" => FoldOfTicks(series[EntryPeriod], row) /\ candles = <<>>
  /\ stage = "replay" /\ row = 0 => /\ FoldOfTicks(series[EntryPeriod], Len(Recorded))
                                 /\ DOMAIN candles \subseteq Int
  /\ DailyCandlesAgree

LEMMA ReseededAgree ==
  ASSUME RecordedInOrder, FoldOfTicks(series[EntryPeriod], Len(Recorded)), ProcessTypeOK,
         candles = <<>> \/ (/\ stage = "replay" /\ row = 0 /\ DailyCandlesAgree
                           /\ DOMAIN candles \subseteq Int),
         candles' = Reseeded, UNCHANGED <<series, today>>
  PROVE  DailyCandlesAgree' /\ DOMAIN candles' \subseteq Int
<1> DEFINE Agrees(day, candle) ==
             LET of   == {i \in DOMAIN Recorded : DateOf(Recorded[i].when) = day}
                 said == {Recorded[i].price : i \in of}
             IN  /\ day < today
                 /\ ~Forgotten(day) =>
                      candle = [ open  |-> Recorded[Min(of)].price,
                                 close |-> Recorded[Max(of)].price,
                                 high  |-> Max(said), low |-> Min(said) ]
<1>1. \A day \in DOMAIN candles' : Agrees(day, candles'[day])
  <2>1. CASE CompletedDays(today) = {}
    <3>1. candles' = candles
      BY <2>1 DEF Reseeded
    <3>2. CASE candles = <<>>
      <4>1. DOMAIN candles' = {}
        BY <3>1, <3>2
      <4> QED  BY <4>1
    <3>3. CASE stage = "replay" /\ row = 0 /\ DailyCandlesAgree /\ DOMAIN candles \subseteq Int
      BY <3>1, <3>3 DEF DailyCandlesAgree
    <3> QED  BY <3>2, <3>3
  <2>2. CASE CompletedDays(today) # {}
    <3>1. candles' = DailyCandles
      BY <2>2 DEF Reseeded
    <3> SUFFICES ASSUME NEW day \in CompletedDays(today) PROVE Agrees(day, candles'[day])
      BY <3>1 DEF DailyCandles
    <3>2. day \in BarDays /\ day < today /\ candles'[day] = Candle(day)
      BY <3>1 DEF DailyCandles, CompletedDays
    <3>3. ~Forgotten(day) => Agrees(day, Candle(day))
      BY <3>2, CandleTells
    <3> QED  BY <3>2, <3>3
  <2> QED  BY <2>1, <2>2
<1>2. \A day : Forgotten(day)' = Forgotten(day)
  BY DEF Forgotten
<1>3. BarDays \subseteq Int
  <2>1. \A i \in 1..Len(series[EntryPeriod]) : series[EntryPeriod][i].start \in Int
    BY RisingRange DEF FoldOfTicks
  <2>2. DaySeconds \in Nat \ {0}
    BY ProcessAssumption
  <2> QED  BY <2>1, <2>2, Division DEF BarDays, DateOf
<1>4. DOMAIN candles' \subseteq Int
  <2>1. candles' = candles \/ DOMAIN candles' \subseteq BarDays
    BY DEF Reseeded, DailyCandles, CompletedDays
  <2>2. candles = <<>> => DOMAIN candles = {}
    OBVIOUS
  <2> QED  BY <1>3, <2>1, <2>2
<1> QED  BY <1>1, <1>2, <1>4 DEF DailyCandlesAgree

LEMMA DailyStep ==
  ASSUME RecordedInOrder, DailyInv, [ProcessNext]_<<barsVars, processVars>>
  PROVE  DailyInv'
<1> USE DEF world, market
<1>0. ProcessTypeOK /\ ProcessTypeOK'
  BY ProcessTyped DEF DailyInv
<1>1. CASE Launch
  <2>1. stage' = "gates" /\ row' = 0 /\ candles' = <<>> /\ series'[EntryPeriod] = <<>>
    BY <1>1, ProcessAssumption DEF Launch
  <2> QED  BY <1>0, <2>1 DEF DailyInv, DailyCandlesAgree
<1>2. CASE Arm
  <2>1. stage' = "start" /\ stage = "gates" /\ UNCHANGED <<row, series, candles>>
    BY <1>2 DEF Arm
  <2> QED  BY <1>0, <2>1 DEF DailyInv, DailyCandlesAgree
<1>3. CASE FeedRefused \/ NothingEnabled \/ SeedRaises \/ Finish \/ Killed \/ Supervise
  <2>1. stage' \in {"down", "exited"}
    BY <1>3 DEF FeedRefused, NothingEnabled, SeedRaises, Finish, Killed, Supervise, Exit
  <2> QED  BY <1>0, <2>1 DEF DailyInv, DailyCandlesAgree
<1>4. CASE Register
  <2>1. stage' = "seed" /\ stage = "start" /\ UNCHANGED <<row, series, candles>>
    BY <1>4 DEF Register
  <2>2. row = 0 /\ series[EntryPeriod] = <<>> /\ candles = <<>>
    BY <2>1 DEF DailyInv
  <2>3. FoldOfTicks(<<>>, 0)
    <3>1. Len(<<>>) = 0 /\ <<>> \in Seq(Bar) /\ MaxBars \in Nat
      BY BarsAssumption
    <3>2. Rising(<<>>, EntryPeriod)
      BY <3>1 DEF Rising
    <3>3. Range(<<>>) = {}
      BY DEF Range
    <3> QED  BY <3>2, <3>3 DEF FoldOfTicks
  <2> QED  BY <1>0, <2>1, <2>2, <2>3 DEF DailyInv, DailyCandlesAgree
<1>5. CASE SeedRow
  <2>1. /\ stage' = "seed" /\ stage = "seed" /\ row < Len(Recorded) /\ row' = row + 1
        /\ UNCHANGED candles /\ AddTick(Recorded[row'])
    BY <1>5 DEF SeedRow, NextRow
  <2>2. series'[EntryPeriod] = Rolled(series[EntryPeriod], EntryPeriod, Recorded[row + 1])
    BY <2>1, ProcessAssumption DEF AddTick
  <2>3. row \in Nat /\ row + 1 \in 1..Len(Recorded)
    <3>1. row \in 0..Len(Recorded)
      BY <1>0 DEF ProcessTypeOK
    <3>2. Len(Recorded) \in Nat
      BY RecordedTyped
    <3> QED  BY <2>1, <3>1, <3>2
  <2>4. FoldOfTicks(series[EntryPeriod], row) /\ candles = <<>>
    BY <2>1 DEF DailyInv
  <2>5. FoldOfTicks(series'[EntryPeriod], row + 1)
    BY <2>2, <2>3, <2>4, FoldExtends
  <2> QED  BY <1>0, <2>1, <2>4, <2>5 DEF DailyInv, DailyCandlesAgree
<1>6. CASE SeedDone
  <2>1. /\ stage' = "replay" /\ stage = "seed" /\ row = Len(Recorded) /\ row' = 0
        /\ candles' = Reseeded /\ UNCHANGED <<series, today>>
    BY <1>6 DEF SeedDone
  <2>2. FoldOfTicks(series[EntryPeriod], Len(Recorded)) /\ candles = <<>>
    BY <2>1 DEF DailyInv
  <2>3. DailyCandlesAgree' /\ DOMAIN candles' \subseteq Int
    BY <1>0, <2>1, <2>2, ReseededAgree
  <2> QED  BY <1>0, <2>1, <2>2, <2>3 DEF DailyInv
<1>7. CASE ReplayTick
  <2>1. stage' = "replay" /\ row' # 0
    <3>1. row \in 0..Len(Recorded)
      BY <1>0 DEF ProcessTypeOK
    <3>2. Len(Recorded) \in Nat
      BY RecordedTyped
    <3>3. row' = row + 1 /\ stage' = "replay"
      BY <1>7 DEF ReplayTick, NextRow
    <3> QED  BY <3>1, <3>2, <3>3
  <2> QED  BY <1>0, <2>1 DEF DailyInv, DailyCandlesAgree
<1>8. CASE RefreshDaily
  <2>1. /\ stage' = "replay" /\ stage = "replay" /\ candles' = Reseeded
        /\ UNCHANGED <<series, today, row>>
    BY <1>8 DEF RefreshDaily
  <2>2. CASE row = 0
    <3>1. FoldOfTicks(series[EntryPeriod], Len(Recorded)) /\ DailyCandlesAgree
          /\ DOMAIN candles \subseteq Int
      BY <2>1, <2>2 DEF DailyInv
    <3>2. DailyCandlesAgree' /\ DOMAIN candles' \subseteq Int
      BY <1>0, <2>1, <2>2, <3>1, ReseededAgree
    <3> QED  BY <1>0, <2>1, <3>1, <3>2 DEF DailyInv
  <2>3. CASE row # 0
    BY <1>0, <2>1, <2>3 DEF DailyInv, DailyCandlesAgree
  <2> QED  BY <2>2, <2>3
<1>9. CASE Midnight
  <2>1. today' = today + 1 /\ UNCHANGED <<stage, row, series, candles>>
    BY <1>9 DEF Midnight
  <2>2. today \in Nat
    BY <1>0, ProcessAssumption DEF ProcessTypeOK
  <2>3. \A day : Forgotten(day)' = Forgotten(day)
    BY <2>1 DEF Forgotten
  <2>4. DailyCandlesAgree'
    <3> SUFFICES ASSUME stage = "replay", row = 0, NEW day \in DOMAIN candles
                 PROVE  day < today'
      BY <2>1, <2>3 DEF DailyInv, DailyCandlesAgree
    <3>1. day < today /\ day \in Int
      BY DEF DailyInv, DailyCandlesAgree
    <3> QED  BY <2>1, <2>2, <3>1
  <2> QED  BY <1>0, <2>1, <2>4 DEF DailyInv
<1>10. CASE CloseTrade \/ WriteRow \/ WriteFails \/ LiveOrder
            \/ UNCHANGED <<barsVars, processVars>>
  <2>1. UNCHANGED <<stage, row, series, candles, today>>
    BY <1>10 DEF CloseTrade, WriteRow, WriteFails, LiveOrder, barsVars, processVars
  <2>2. \A day : Forgotten(day)' = Forgotten(day)
    BY <2>1 DEF Forgotten
  <2> QED  BY <1>0, <2>1, <2>2 DEF DailyInv, DailyCandlesAgree
<1> QED  BY <1>1, <1>2, <1>3, <1>4, <1>5, <1>6, <1>7, <1>8, <1>9, <1>10 DEF ProcessNext

(* If the recorded ticks are in time order, the extractor is given the      *)
(* candles of days that are over, each as the day's ticks make it unless    *)
(* the deque of entry bars has forgotten some (_seed_ict_daily).            *)
THEOREM DailyCandlesTell ==
  ASSUME RecordedInOrder
  PROVE  ProcessSpec => []DailyCandlesAgree
<1>1. ProcessInit => DailyInv
  BY ProcessStarts DEF ProcessInit, DailyInv, DailyCandlesAgree
<1>2. DailyInv /\ [ProcessNext]_<<barsVars, processVars>> => DailyInv'
  BY DailyStep
<1>3. DailyInv => DailyCandlesAgree
  BY DEF DailyInv
<1> QED  BY <1>1, <1>2, <1>3, PTL DEF ProcessSpec
================================================================================
