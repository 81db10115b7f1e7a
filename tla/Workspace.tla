------------------------------- MODULE Workspace -------------------------------
(***************************************************************************)
(* run.py, command_collect, and the directories it shares with its own     *)
(* input: recorded ticks and collected feature rows are files of the same  *)
(* names, ict_<SYMBOL>_<DATE>.csv, and the collector appends.              *)
(*                                                                         *)
(* An entry of a file is a tick or a row made from it, by its number.  The *)
(* collector behind the command (the ict package) is external: it appends  *)
(* one row per bar; here every tick closes a bar.                          *)
(***************************************************************************)
EXTENDS Integers, Sequences

CONSTANTS
  Dirs,          (* directories                                             *)
  Recordings,    (* day -> numbers of the ticks recorded on it              *)
  MaxCollects,   (* bound: replays started                                  *)
  MaxLiveRows    (* bound: rows a live feed yields                          *)

(* A number is of one tick of its day.                                      *)
ASSUME WorkspaceAssumption ==
  /\ MaxCollects \in Nat /\ MaxLiveRows \in Nat
  /\ Recordings \in Seq(Seq(Nat))
  /\ \A d \in DOMAIN Recordings : \A i, j \in DOMAIN Recordings[d] :
       Recordings[d][i] = Recordings[d][j] => i = j

VARIABLES
  dirs,          (* directory -> day -> file                                *)
  job,           (* the dry replay: on, src, out, day, at, n entries read   *)
  collects,      (* replays asked for so far                                *)
  liveRows,      (* rows of the live feed so far                            *)
  status         (* exit status of the last replay, or -1                   *)

workspaceVars == <<dirs, job, collects, liveRows, status>>

Days == DOMAIN Recordings

TicksOf(d) == [i \in DOMAIN Recordings[d] |-> [kind |-> "tick", n |-> Recordings[d][i]]]

NoFiles == [d \in Days |-> <<>>]

NoJob(dir) == [on |-> FALSE, src |-> dir, out |-> dir, day |-> 0, at |-> 0, n |-> 0]

WorkspaceInit ==
  /\ \E source \in Dirs :
       /\ dirs = [dir \in Dirs |-> IF dir = source THEN [d \in Days |-> TicksOf(d)]
                                                   ELSE NoFiles]
       /\ job = NoJob(source)
  /\ collects = 0 /\ liveRows = 0 /\ status = -1

HasFiles(dir) == \E d \in Days : dirs[dir][d] # <<>>

(* A warning in the help text is not a guard.                               *)
RefusedNever(src, out) == FALSE

(* The two refusals of a dry replay.                                        *)
Refused(src, out) == out = src \/ HasFiles(out)

CollectRefused ==
  /\ ~job.on /\ collects < MaxCollects
  /\ \E src, out \in Dirs : Refused(src, out)
  /\ collects' = collects + 1 /\ status' = 2
  /\ UNCHANGED <<dirs, job, liveRows>>

CollectStarts ==
  /\ ~job.on /\ collects < MaxCollects
  /\ \E src, out \in Dirs :
       /\ ~Refused(src, out)
       /\ job' = [on |-> TRUE, src |-> src, out |-> out, day |-> 1, at |-> 0, n |-> 0]
  /\ collects' = collects + 1 /\ status' = -1
  /\ UNCHANGED <<dirs, liveRows>>

ReplayEntry ==
  /\ job.on /\ job.day \in Days /\ job.at < Len(dirs[job.src][job.day])
  /\ job' = [job EXCEPT !.at = @ + 1, !.n = @ + 1]
  /\ dirs' = [dirs EXCEPT ![job.out][job.day] =
                Append(@, [kind |-> "row", n |-> dirs[job.src][job.day][job.at + 1].n])]
  /\ UNCHANGED <<collects, liveRows, status>>

NextFile ==
  /\ job.on /\ job.day \in Days /\ job.at >= Len(dirs[job.src][job.day])
  /\ job' = [job EXCEPT !.day = @ + 1, !.at = 0]
  /\ UNCHANGED <<dirs, collects, liveRows, status>>

(* The end of the source, or Ctrl-C: stop flushes, and the exit is clean    *)
(* unless there was nothing to replay.                                      *)
CollectStops ==
  /\ job.on
  /\ job' = [job EXCEPT !.on = FALSE]
  /\ status' = IF job.day \notin Days /\ job.n = 0 THEN 1 ELSE 0
  /\ UNCHANGED <<dirs, collects, liveRows>>

(* A kill in the middle: what was appended stays.                           *)
CollectDies ==
  /\ job.on
  /\ job' = [job EXCEPT !.on = FALSE]
  /\ UNCHANGED <<dirs, collects, liveRows, status>>

(* A live feed appends wherever it is told to; its rows are numbered below 0. *)
LiveRow ==
  /\ liveRows < MaxLiveRows
  /\ liveRows' = liveRows + 1
  /\ \E dir \in Dirs, d \in Days :
       dirs' = [dirs EXCEPT ![dir][d] = Append(@, [kind |-> "live", n |-> -liveRows'])]
  /\ UNCHANGED <<job, collects, status>>

(* Clear that directory, or pass a different --out.                         *)
Cleared ==
  /\ ~job.on
  /\ \E dir \in Dirs : dirs' = [dirs EXCEPT ![dir] = NoFiles]
  /\ UNCHANGED <<job, collects, liveRows, status>>

WorkspaceNext ==
  \/ CollectRefused \/ CollectStarts \/ ReplayEntry \/ NextFile
  \/ CollectStops \/ CollectDies \/ LiveRow \/ Cleared

WorkspaceSpec == WorkspaceInit /\ [][WorkspaceNext]_workspaceVars

--------------------------------------------------------------------------------
(* Properties.                                                              *)

WorkspaceTypeOK ==
  /\ DOMAIN dirs = Dirs
  /\ \A dir \in Dirs : \A d \in Days : \A i \in DOMAIN dirs[dir][d] :
       dirs[dir][d][i].kind \in {"tick", "row", "live"}
  /\ status \in -1..2 /\ collects \in 0..MaxCollects

(* However often replays are started, interrupted, killed and started again *)
(* over directories that share their file names, no tick yields two rows of *)
(* one file: "a second run into the same directory writes every row twice"  *)
(* (run.py, the guard on existing files).                                   *)
RowsOnce ==
  \A dir \in Dirs : \A d \in Days :
    LET file == dirs[dir][d]
    IN  \A i, j \in DOMAIN file :
          i # j /\ file[i].kind = "row" /\ file[j].kind = "row" => file[i] # file[j]
================================================================================
