----------------------------- MODULE SignalCount -----------------------------
(***************************************************************************)
(* sender and catcher of cw04/.../zad3a and zad3b.  The sender sends a     *)
(* number of signals and one that ends the count; the catcher sends as     *)
(* many back as it counted, and one that ends.  In zad3b each signal of    *)
(* the sender is confirmed before the next.                                *)
(*                                                                         *)
(* The signals "count" and "stop" are SIGUSR1 and SIGUSR2, sent by kill or *)
(* sigqueue, or the first two realtime signals.  The kernel keeps one      *)
(* pending SIGUSR1 however often it is sent, and every realtime one.  It   *)
(* runs the handlers of all that is pending and not blocked before the     *)
(* process goes on (Calm); in what order is left open.                     *)
(***************************************************************************)
EXTENDS Integers

CONSTANT MaxSignals    \* bound on to_send

VARIABLES
  confirmed,   \* zad3b
  mode,        \* "kill", also for sigqueue, or "sigrt"
  to_send,
  pc,          \* sender: "off", "ping", "confirm", "test", "done"
               \* catcher: "start", "test", "pong", "done", "killed"
  asleep,      \* at its "confirm" or "test": "no", "falling" when the test has failed, "yes"
               \* in sigsuspend, "hit" when a handler has run there
  pending,     \* by process and signal
  g_usr1_count, g_usr2_count,
  sent         \* what each has sent of its "count" signals

vars == <<confirmed, mode, to_send, pc, asleep, pending, g_usr1_count, g_usr2_count, sent>>

Procs == {"sender", "catcher"}
Peer == [sender |-> "catcher", catcher |-> "sender"]

Init ==
  /\ confirmed = FALSE /\ mode = "kill" /\ to_send = 0
  /\ pc = [sender |-> "off", catcher |-> "start"]
  /\ asleep = [p \in Procs |-> "no"]
  /\ pending = [p \in Procs |-> [count |-> 0, stop |-> 0]]
  /\ g_usr1_count = [p \in Procs |-> 0] /\ g_usr2_count = [p \in Procs |-> 0]
  /\ sent = [p \in Procs |-> 0]

Args == <<confirmed, mode, to_send>>

\* kill or sigqueue, given the pending signals so far
Kill(was, p, s) ==
  CASE pc[p] \in {"done", "killed"} -> was
    [] pc[p] \notin {"done", "killed"} /\ mode = "sigrt" -> [was EXCEPT ![p][s] = @ + 1]
    [] OTHER -> [was EXCEPT ![p][s] = 1]

\* mutant: the stop is not blocked between the test and the sigsuspend
Blocked_Nothing(p) ==
  {s \in {"count"} : asleep[p] \in {"no", "falling"} /\ pc[p] = "confirm"}

\* sigprocmask around the two waiting loops, lifted by sigsuspend
Blocked(p) ==
  {s \in {"count", "stop"} :
     asleep[p] \in {"no", "falling"} /\ (IF s = "count" THEN pc[p] = "confirm" ELSE pc[p] = "test")}

Deliverable(p) == {s \in {"count", "stop"} : pending[p][s] > 0} \ Blocked(p)
Calm(p) == Deliverable(p) = {}

Running(p) == pc[p] \notin {"off", "done", "killed"}

\* the handler; the catcher of zad3b confirms from inside it.  Before the catcher's sigaction,
\* when its PID is already printed, a signal kills it.
Handles(p, s) ==
  /\ Running(p) /\ s \in Deliverable(p)
  /\ IF pc[p] = "start"
     THEN /\ pc' = [pc EXCEPT ![p] = "killed"]
          /\ pending' = [pending EXCEPT ![p] = [count |-> 0, stop |-> 0]]
          /\ UNCHANGED <<asleep, g_usr1_count, g_usr2_count>>
     ELSE /\ LET left == [pending EXCEPT ![p][s] = @ - 1] IN
             pending' = IF p = "catcher" /\ s = "count" /\ confirmed THEN Kill(left, Peer[p], s) ELSE left
          /\ g_usr1_count' = IF s = "count" THEN [g_usr1_count EXCEPT ![p] = @ + 1] ELSE g_usr1_count
          /\ g_usr2_count' = IF s = "stop" THEN [g_usr2_count EXCEPT ![p] = @ + 1] ELSE g_usr2_count
          /\ asleep' = IF asleep[p] = "yes" THEN [asleep EXCEPT ![p] = "hit"] ELSE asleep
          /\ UNCHANGED pc
  /\ UNCHANGED <<Args, sent>>

Goes(p, to) == pc' = [pc EXCEPT ![p] = to]

\* the sender is started, the catcher has installed its handlers
Starts(p) ==
  /\ \/ /\ p = "sender" /\ pc[p] = "off" /\ Goes(p, "ping")
        /\ confirmed' \in BOOLEAN /\ mode' \in {"kill", "sigrt"} /\ to_send' \in 0 .. MaxSignals
     \/ /\ p = "catcher" /\ pc[p] = "start" /\ Calm(p) /\ Goes(p, "test")
        /\ UNCHANGED Args
  /\ UNCHANGED <<asleep, pending, g_usr1_count, g_usr2_count, sent>>

\* the sender's loop over to_send, the catcher's over g_usr1_count, and the signal that ends
Sends(p) ==
  /\ Calm(p)
  /\ LET total == IF p = "sender" THEN to_send ELSE g_usr1_count[p] IN
     /\ pc[p] = (IF p = "sender" THEN "ping" ELSE "pong")
     /\ IF sent[p] < total
        THEN /\ pending' = Kill(pending, Peer[p], "count")
             /\ sent' = [sent EXCEPT ![p] = @ + 1]
             /\ IF p = "sender" /\ confirmed THEN Goes(p, "confirm") ELSE UNCHANGED pc
        ELSE /\ pending' = Kill(pending, Peer[p], "stop") /\ UNCHANGED sent
             /\ Goes(p, IF p = "sender" THEN "test" ELSE "done")
  /\ UNCHANGED <<Args, asleep, g_usr1_count, g_usr2_count>>

\* mutant: the flag of the last confirmation is not cleared
AfterConfirmation_Kept(p) == g_usr1_count

AfterConfirmation(p) == [g_usr1_count EXCEPT ![p] = 0]

\* the test of a waiting loop: out of it, or to the sigsuspend
Tests(p) ==
  /\ pc[p] \in {"confirm", "test"} /\ asleep[p] = "no" /\ Calm(p)
  /\ CASE pc[p] = "confirm" /\ g_usr1_count[p] > 0 ->
            g_usr1_count' = AfterConfirmation(p) /\ Goes(p, "ping") /\ UNCHANGED asleep
       [] pc[p] = "test" /\ g_usr2_count[p] > 0 ->
            Goes(p, IF p = "sender" THEN "done" ELSE "pong") /\ UNCHANGED <<asleep, g_usr1_count>>
       [] OTHER -> asleep' = [asleep EXCEPT ![p] = "falling"] /\ UNCHANGED <<pc, g_usr1_count>>
  /\ UNCHANGED <<Args, pending, g_usr2_count, sent>>

\* into sigsuspend, and out after the handlers
Suspends(p) ==
  /\ Calm(p)
  /\ \/ asleep[p] = "falling" /\ asleep' = [asleep EXCEPT ![p] = "yes"]
     \/ asleep[p] = "hit" /\ asleep' = [asleep EXCEPT ![p] = "no"]
  /\ UNCHANGED <<Args, pc, pending, g_usr1_count, g_usr2_count, sent>>

Step(p) ==
  Starts(p) \/ Sends(p) \/ Tests(p) \/ Suspends(p) \/ \E s \in {"count", "stop"} : Handles(p, s)

Next == \E p \in Procs : Step(p)

Spec == Init /\ [][Next]_vars

-----------------------------------------------------------------------------
\* Nobody counts a signal that was not sent, and at the end what was printed is what was sent
\* wherever nothing can merge: the catcher's count with realtime signals or confirmations,
\* the sender's with realtime signals.  Of many that merge one is left.
CountsAgree ==
  /\ g_usr1_count["catcher"] <= sent["sender"]
  /\ pc["catcher"] \in {"pong", "done"} =>
       /\ mode = "sigrt" \/ confirmed => g_usr1_count["catcher"] = to_send
       /\ to_send > 0 => g_usr1_count["catcher"] > 0
  /\ pc["sender"] = "done" =>
       /\ g_usr1_count["sender"] <= g_usr1_count["catcher"]
       /\ mode = "sigrt" => g_usr1_count["sender"] = g_usr1_count["catcher"]
       /\ g_usr1_count["catcher"] > 0 => g_usr1_count["sender"] > 0

\* Both have ended, unless the first signal came before the catcher's handlers.
BothEnded == pc["catcher"] = "killed" \/ \A p \in Procs : pc[p] = "done"
=============================================================================
