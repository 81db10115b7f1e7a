------------------------------ MODULE MCComponents ------------------------------
(***************************************************************************)
(* The components that share no state with the engine's risk path, each on *)
(* its own instance: a behaviour is one of theirs, the others stay in an   *)
(* initial state.                                                          *)
(***************************************************************************)
EXTENDS Bars, TickFiles, OhlcHistory, TripleBarrier, DepthDataset, Workspace,
        EmaStrategy, PanelGuard, DepthPurchase, StatePublisher

VARIABLE part    (* the component this behaviour is of                      *)

MCRecords ==
  {[when |-> w, open |-> 1, low |-> 0, high |-> 2, close |-> 1] : w \in {0, 2, 4, 5}}
  \cup {[when |-> 3, open |-> 0, low |-> l, high |-> 2, close |-> 1] : l \in {0, 1}}

MCWindows == [start : {NoBound, 1}, end : {NoBound, 2}, every : {1, 2}]

MCQuotes == {[bid |-> q[1], ask |-> q[2]] : q \in {<<7, 7>>, <<8, 10>>, <<10, 10>>, <<13, 13>>}}

MCFeatures == << <<2, 4>>, <<6>> >>

MCRecordings == << <<1, 2>>, <<3>> >>

Timeframe(count, gap, atr) == [bars |-> count, gap |-> gap, atr |-> atr]

Gradients == {Timeframe(3, gap, 100) : gap \in {-100, 14, 20, 100}}

(* Every mix of trends and soft factors; and readings cut short.            *)
MCReadings ==
  [ ticked : {TRUE}, bars : {3}, confirms : Gradients \X Gradients,
    entryGap : {-1, 1}, away : {-160, -50, 0, 160}, atr : {0, 20, 100},
    rsi : {20, 50, 80}, hasDepth : {TRUE}, imbalance : {-100, 0, 100},
    momentum : {-100, 100}, spread : {1, 40, 51}, median : {1, 20} ]
  \cup
  [ ticked : BOOLEAN, bars : {2, 3},
    confirms : {Timeframe(3, 100, 100), Timeframe(2, 0, 0), Timeframe(3, 5, 0)}
                 \X {Timeframe(3, 100, 100)},
    entryGap : {1}, away : {0}, atr : {0, 100}, rsi : {50}, hasDepth : {FALSE},
    imbalance : {0}, momentum : {100}, spread : {1}, median : {1} ]

Parts == {"bars", "ticks", "history", "labels", "dataset", "workspace", "strategy",
          "panel", "purchase", "publisher"}

MCInit ==
  /\ part \in Parts
  /\ part # "ticks" => scid = <<>> /\ window = CHOOSE w \in Windows : TRUE
  /\ part # "history" => venue = {} /\ honest = TRUE
  /\ part # "dataset" => download = <<CHOOSE u \in Updates : TRUE>>
  /\ part # "workspace" => job = NoJob(CHOOSE d \in Dirs : TRUE)
  /\ part # "strategy" => reading = CHOOSE r \in Readings : TRUE
  /\ part # "purchase" =>
       call = CHOOSE c \in [query : Queries, cost : Costs, confirm : BOOLEAN] : TRUE
  /\ BarsInit /\ TickFilesInit /\ OhlcInit /\ BarrierInit /\ DatasetInit
  /\ WorkspaceInit /\ StrategyInit /\ PanelInit /\ PurchaseInit
  /\ PublisherInit

Still(P) ==
  /\ "bars" \in P => UNCHANGED barsVars
  /\ "ticks" \in P => UNCHANGED tickFilesVars
  /\ "history" \in P => UNCHANGED ohlcVars
  /\ "labels" \in P => UNCHANGED path
  /\ "dataset" \in P => UNCHANGED datasetVars
  /\ "workspace" \in P => UNCHANGED workspaceVars
  /\ "strategy" \in P => UNCHANGED strategyVars
  /\ "panel" \in P => UNCHANGED panelVars
  /\ "purchase" \in P => UNCHANGED purchaseVars
  /\ "publisher" \in P => UNCHANGED publisherVars

MCNext ==
  /\ UNCHANGED part
  /\ \/ part = "bars" /\ BarsNext
     \/ part = "ticks" /\ TickFilesNext
     \/ part = "history" /\ OhlcNext
     \/ part = "labels" /\ BarrierNext
     \/ part = "dataset" /\ DatasetNext
     \/ part = "workspace" /\ WorkspaceNext
     \/ part = "strategy" /\ Evaluate
     \/ part = "panel" /\ PanelNext
     \/ part = "purchase" /\ PurchaseNext
     \/ part = "publisher" /\ PublisherNext
  /\ Still(Parts \ {part})

MCVars == <<part, barsVars, tickFilesVars, ohlcVars, path, datasetVars,
            workspaceVars, strategyVars, panelVars, purchaseVars, publisherVars>>

(* Fairness only for the component that has some.                           *)
MCSpec == MCInit /\ [][MCNext]_MCVars /\ (part = "publisher" => PublisherFairness)

(* The type invariants of the ten components.                               *)
ComponentsTypeOK ==
  /\ BarsTypeOK /\ TickFilesTypeOK /\ OhlcTypeOK /\ BarrierTypeOK /\ DatasetTypeOK
  /\ WorkspaceTypeOK /\ StrategyTypeOK /\ PanelTypeOK /\ PurchaseTypeOK
  /\ PublisherTypeOK

(* Through snapshots that mix two moments, iterations that raise, writes    *)
(* that fail, crashes and restarts of the engine, the page ends up telling  *)
(* the truth once the trading pauses, or saying that it is stale            *)
(* (_write_state, _Periodic, /api/state and tick of app.js).                *)
PanelSettles == part = "publisher" => PanelCatchesUp
================================================================================
