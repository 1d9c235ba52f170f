----------------------------- MODULE ForkSearch -----------------------------
(***************************************************************************)
(* The search of a directory tree in cw03/.../zad3: one forked process per *)
(* directory, down to a depth.  What a process prints stays in the buffer  *)
(* of its stdout until it exits, unless stdout is a terminal, and a child  *)
(* inherits what its parent has not flushed yet.                           *)
(*                                                                         *)
(* Nobody kills a process, and no path is too long for PATH_MAX.  A file's *)
(* matches are one line of output; a file that is not text has none        *)
(* (is_text_file tells directories from text, too).  Some failed calls are *)
(* told: the process gives up and exits with an error.  Others are taken   *)
(* for an answer: a text file for one that is not text, a directory for    *)
(* one that has no more entries.                                           *)
(***************************************************************************)
EXTENDS Integers, Bags

CONSTANTS
  Dirs,      \* Top, the root and the directories below it
  Top,       \* the process that is started, seen as the directory the root is in
  TextFiles,
  Entries,   \* the entries of each directory
  MaxDepth   \* bound on DEPTH

VARIABLES
  tty,
  pc,        \* of the process of a directory: "none", "list", "wait", "exited", "reaped"
  depth,     \* its argument
  todo,      \* entries readdir has not returned
  err,
  buffer,    \* lines not flushed, a bag
  out,       \* lines printed, a bag
  faults,    \* history: processes that met a failed call and know it
  missed     \* history: entries not looked at because of one that was taken for an answer

vars == <<tty, pc, depth, todo, err, buffer, out, faults, missed>>

Init ==
  /\ tty \in BOOLEAN
  /\ depth \in [Dirs -> 0 .. MaxDepth] /\ \A d \in Dirs \ {Top} : depth[d] = 0
  /\ pc = [d \in Dirs |-> IF d = Top THEN "list" ELSE "none"]
  /\ todo = [d \in Dirs |-> Entries[d]]
  /\ err = [d \in Dirs |-> FALSE]
  /\ buffer = [d \in Dirs |-> EmptyBag] /\ out = EmptyBag
  /\ faults = {} /\ missed = {}

\* fork_search counts the root as its first level, process_dir what is in a directory
LevelOf(d) == depth[d]
IsDir(e) == e \in Dirs

\* process_path of a directory: the child has a copy of its parent's memory
Forks(d, e) ==
  /\ IsDir(e) /\ LevelOf(d) > 0
  /\ pc' = [pc EXCEPT ![e] = "list"]
  /\ depth' = [depth EXCEPT ![e] = depth[d] - 1]
  /\ buffer' = [buffer EXCEPT ![e] = buffer[d]]
  /\ UNCHANGED <<err, out, faults, missed>>

Prints(d, e) ==
  LET lines == IF e \in TextFiles THEN SetToBag({e}) ELSE EmptyBag IN
  IF tty
  THEN out' = out (+) lines /\ UNCHANGED buffer
  ELSE buffer' = [buffer EXCEPT ![d] = @ (+) lines] /\ UNCHANGED out

\* process_path of anything else: search_file
Searches(d, e) ==
  /\ ~IsDir(e) \/ LevelOf(d) = 0
  /\ Prints(d, e)
  /\ UNCHANGED <<pc, depth, err, faults, missed>>

\* is_text_file says no for want of an answer: the quoted path is too long, popen fails, or
\* the command prints less than it should
Skips(d, e) ==
  /\ e \in TextFiles /\ missed' = missed \cup {e}
  /\ UNCHANGED <<pc, depth, err, buffer, out, faults>>

\* lstat, fork or fopen fails, or reading does, perhaps with matches printed; the rest of the
\* directory is not looked at
Stops(d, e) ==
  /\ Prints(d, e) \/ UNCHANGED <<buffer, out>>
  /\ pc' = [pc EXCEPT ![d] = "wait"] /\ err' = [err EXCEPT ![d] = TRUE]
  /\ faults' = faults \cup {d}
  /\ UNCHANGED <<depth, missed>>

\* readdir returns no entry: there are no more, or it failed, which nobody asks.  The root is
\* an argument, not read.
EndsList(d) ==
  /\ d = Top => todo[d] = {}
  /\ todo' = [todo EXCEPT ![d] = {}] /\ missed' = missed \cup todo[d]
  /\ pc' = [pc EXCEPT ![d] = "wait"]
  /\ UNCHANGED <<depth, err, buffer, out, faults>>

\* the loop of process_dir
Lists(d) ==
  /\ pc[d] = "list"
  /\ \/ \E e \in todo[d] :
          /\ todo' = [todo EXCEPT ![d] = @ \ {e}]
          /\ Forks(d, e) \/ Searches(d, e) \/ Skips(d, e) \/ Stops(d, e)
     \/ EndsList(d)
  /\ UNCHANGED tty

\* opendir fails: the child exits at once
OpenFails(d) ==
  /\ d # Top /\ pc[d] = "list" /\ todo[d] = Entries[d]
  /\ pc' = [pc EXCEPT ![d] = "exited"] /\ err' = [err EXCEPT ![d] = TRUE]
  /\ out' = out (+) buffer[d] /\ faults' = faults \cup {d}
  /\ UNCHANGED <<tty, depth, todo, buffer, missed>>

Children(d) == {e \in Entries[d] \cap Dirs : pc[e] \notin {"none", "reaped"}}

\* mutant: waits for one child
Waits_Once(d) ==
  /\ pc[d] = "wait"
  /\ \/ \E e \in Children(d) :
          /\ pc[e] = "exited" /\ pc' = [pc EXCEPT ![e] = "reaped", ![d] = "exited"]
          /\ err' = [err EXCEPT ![d] = @ \/ err[e]]
     \/ Children(d) = {} /\ pc' = [pc EXCEPT ![d] = "exited"] /\ UNCHANGED err
  /\ out' = (IF pc'[d] = "exited" THEN out (+) buffer[d] ELSE out)
  /\ UNCHANGED <<tty, depth, todo, buffer, faults, missed>>

\* the wait loop, and exit, which flushes
Waits(d) ==
  /\ pc[d] = "wait"
  /\ \/ \E e \in Children(d) :
          /\ pc[e] = "exited" /\ pc' = [pc EXCEPT ![e] = "reaped"]
          /\ err' = [err EXCEPT ![d] = @ \/ err[e]]
     \/ Children(d) = {} /\ pc' = [pc EXCEPT ![d] = "exited"] /\ UNCHANGED err
  /\ out' = (IF pc'[d] = "exited" THEN out (+) buffer[d] ELSE out)
  /\ UNCHANGED <<tty, depth, todo, buffer, faults, missed>>

Step(d) == Lists(d) \/ OpenFails(d) \/ Waits(d)
Next == \E d \in Dirs : Step(d)

Spec == Init /\ [][Next]_vars

-----------------------------------------------------------------------------
Ended == pc[Top] = "exited"

\* d is m levels below a, by these entries
PathTo(entries, a, m, d) ==
  \E path \in [0 .. m -> Dirs] :
    path[0] = a /\ path[m] = d /\ \A k \in 1 .. m : path[k] \in entries[path[k - 1]]

\* the text files within a depth, from a directory of the tree
FilesWithin(entries, n, a) ==
  UNION {entries[d] \cap TextFiles :
           d \in {e \in Dirs : \E m \in 0 .. n : PathTo(entries, a, m, e)}}

\* the entries that were not missed
Seen == [d \in Dirs |-> Entries[d] \ missed]

\* Once the program has ended nobody prints any more, and it tells of each failure that a
\* process knows of, and of no other.  Only files of the tree within the depth are printed; and
\* if it tells of no failure, all of these but those it missed because a failure was taken
\* for an answer, a file itself or a directory above it.  On a terminal each is printed once.
\* In a file or a pipe a line that was in the buffer when its process forked comes out again
\* from every child.
EachMatchOnce ==
  Ended =>
    /\ \A d \in Dirs \ {Top} : pc[d] \in {"none", "reaped"}
    /\ err[Top] <=> faults # {}
    /\ BagToSet(out) \subseteq FilesWithin(Entries, depth[Top], Top)
    /\ ~err[Top] => FilesWithin(Seen, depth[Top], Top) \subseteq BagToSet(out)
    /\ tty => \A f \in BagToSet(out) : out[f] = 1
=============================================================================
