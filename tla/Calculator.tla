----------------------------- MODULE Calculator -----------------------------
(***************************************************************************)
(* The integral of cw03/.../zad2.  A run splits NCells cells among NProc   *)
(* forked workers; each leaves its partial sum in the file w%d.txt of the  *)
(* working directory, and the parent adds the files up once every worker   *)
(* has ended well.  The files outlive a run that is interrupted.           *)
(*                                                                         *)
(* A sum is the set of cells in it, a cell <<NCells, i>> as its width      *)
(* depends on the run.  A second run beside the first, in one directory,   *)
(* is not modelled: nothing keeps their files apart.                       *)
(***************************************************************************)
EXTENDS Integers, SequencesExt

CONSTANTS
  Runs,      \* the possible arguments: <<NProc, NCells>>
  MaxRuns    \* bound on the runs, one after another

VARIABLES
  left,      \* runs that may still come
  args,      \* of the last run
  pc,        \* "idle", "fork", "wait", "reduce", "unlink"
  wid,       \* of the loop at pc
  worker,    \* "none", "computes", "opened", "good", "bad": exited with 0, or not
  file,      \* NoFile, Emptied, or <<"sum", cells>>
  err, num_completed,
  sums,      \* what reduce has added up
  printed    \* the last run printed its result

vars == <<left, args, pc, wid, worker, file, err, num_completed, sums, printed>>

Wids == UNION {0 .. run[1] - 1 : run \in Runs}
NProc == args[1]
NCells == args[2]

NoFile == <<"none", {}>>
Emptied == <<"empty", {}>>

Init ==
  /\ left = MaxRuns /\ args = <<1, 0>> /\ pc = "idle" /\ wid = 0
  /\ worker = [w \in Wids |-> "none"] /\ file = [w \in Wids |-> NoFile]
  /\ err = FALSE /\ num_completed = 0 /\ sums = <<>> /\ printed = FALSE

Starts ==
  /\ pc = "idle" /\ left > 0 /\ left' = left - 1
  /\ args' \in Runs /\ pc' = "fork" /\ wid' = 0
  /\ err' = FALSE /\ num_completed' = 0 /\ sums' = <<>> /\ printed' = FALSE
  /\ UNCHANGED <<worker, file>>

\* the first loop of compute, left when fork fails
Forks ==
  /\ pc = "fork"
  /\ \/ /\ wid < NProc /\ wid' = wid + 1
        /\ worker' = [worker EXCEPT ![wid] = "computes"] /\ UNCHANGED <<pc, err>>
     \/ wid = NProc /\ pc' = "wait" /\ UNCHANGED <<wid, worker, err>>
     \/ wid < NProc /\ pc' = "wait" /\ err' = TRUE /\ UNCHANGED <<wid, worker>>
  /\ UNCHANGED <<left, args, file, num_completed, sums, printed>>

CellsOf(w) == {<<NCells, i>> : i \in {j \in 0 .. NCells - 1 : j % NProc = w}}

\* worker_task: fopen empties the file, fclose writes the sum.  What it returns is
\* not looked at.  A worker may be killed anywhere.
worker_task(w) ==
  /\ \/ /\ worker[w] = "computes"
        /\ worker' = [worker EXCEPT ![w] = "opened"] /\ file' = [file EXCEPT ![w] = Emptied]
     \/ /\ worker[w] = "opened" /\ worker' = [worker EXCEPT ![w] = "good"]
        /\ file' \in {file, [file EXCEPT ![w] = <<"sum", CellsOf(w)>>]}
     \/ /\ worker[w] \in {"computes", "opened"} /\ worker' = [worker EXCEPT ![w] = "bad"]
        /\ UNCHANGED file
  /\ UNCHANGED <<left, args, pc, wid, err, num_completed, sums, printed>>

Children == {w \in Wids : worker[w] # "none"}

\* mutant: any child that ends counts
wait_AllGood(w) ==
  /\ worker[w] \in {"good", "bad"} /\ worker' = [worker EXCEPT ![w] = "none"]
  /\ num_completed' = num_completed + 1 /\ UNCHANGED err

wait(w) ==
  /\ worker[w] \in {"good", "bad"} /\ worker' = [worker EXCEPT ![w] = "none"]
  /\ num_completed' = IF worker[w] = "good" THEN num_completed + 1 ELSE num_completed
  /\ err' = (err \/ worker[w] = "bad")

\* the second loop of compute, until there is no child left
Waits ==
  /\ pc = "wait"
  /\ \/ (\E w \in Wids : wait(w)) /\ UNCHANGED <<pc, wid>>
     \/ /\ Children = {} /\ wid' = 0
        /\ err' = (err \/ num_completed # NProc)
        /\ pc' = IF err' THEN "unlink" ELSE "reduce"
        /\ UNCHANGED <<worker, num_completed>>
  /\ UNCHANGED <<left, args, file, sums, printed>>

\* reduce and the printf
Reduces ==
  /\ pc = "reduce"
  /\ IF wid < NProc
     THEN /\ UNCHANGED printed
          /\ IF file[wid] \in {NoFile, Emptied}
             THEN err' = TRUE /\ pc' = "unlink" /\ wid' = 0 /\ UNCHANGED sums
             ELSE sums' = Append(sums, file[wid][2]) /\ wid' = wid + 1 /\ UNCHANGED <<err, pc>>
     ELSE printed' = TRUE /\ pc' = "unlink" /\ wid' = 0 /\ UNCHANGED <<err, sums>>
  /\ UNCHANGED <<left, args, worker, file, num_completed>>

Unlinks ==
  /\ pc = "unlink"
  /\ IF wid < NProc
     THEN file' = [file EXCEPT ![wid] = NoFile] /\ wid' = wid + 1 /\ UNCHANGED pc
     ELSE pc' = "idle" /\ UNCHANGED <<file, wid>>
  /\ UNCHANGED <<left, args, worker, err, num_completed, sums, printed>>

\* SIGINT from the terminal, to the parent and its workers
Interrupted ==
  /\ pc # "idle" /\ pc' = "idle" /\ worker' = [w \in Wids |-> "none"]
  /\ UNCHANGED <<left, args, wid, file, err, num_completed, sums, printed>>

Parent == Forks \/ Waits \/ Reduces \/ Unlinks

Next == Starts \/ Parent \/ Interrupted \/ \E w \in Wids : worker_task(w)

Spec == Init /\ [][Next]_vars

-----------------------------------------------------------------------------
\* A result that is printed adds every cell of its own run once, whatever failed and whatever
\* files earlier runs left; a run that goes to its end leaves no file of its workers.
ResultIsWhole ==
  /\ printed =>
       /\ UNION ToSet(sums) = {<<NCells, i>> : i \in 0 .. NCells - 1}
       /\ \A k, m \in DOMAIN sums : k # m => sums[k] \cap sums[m] = {}
  /\ pc = "unlink" => \A w \in 0 .. wid - 1 : file[w] = NoFile
=============================================================================
