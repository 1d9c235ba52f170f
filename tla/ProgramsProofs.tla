--------------------------- MODULE ProgramsProofs ---------------------------
(***************************************************************************)
(* What the small programs promise, proved for every value of their        *)
(* constants.  The programs share nothing, so each has an invariant of its *)
(* own, which every step keeps: a step of the program itself, or one that  *)
(* leaves its variables alone.                                             *)
(***************************************************************************)
EXTENDS Programs, FiniteSetTheorems, FunctionTheorems, SequenceTheorems, WellFoundedInduction, TLAPS

-----------------------------------------------------------------------------
(* Signal counting.  What is sent and not yet counted is pending; with     *)
(* SIGUSR1 some of it has merged, but never all.  In zad3b the signal that *)
(* is on its way, or its confirmation, is in one place.                    *)

SignalTypes ==
  /\ confirmed \in BOOLEAN /\ mode \in {"kill", "sigrt"} /\ to_send \in Nat
  /\ pc_s \in [Signal!Procs -> {"off", "ping", "confirm", "start", "test", "pong", "done", "killed"}]
  /\ pc_s["sender"] \in {"off", "ping", "confirm", "test", "done"}
  /\ pc_s["catcher"] \in {"start", "test", "pong", "done", "killed"}
  /\ asleep \in [Signal!Procs -> {"no", "falling", "yes", "hit"}]
  /\ pending \in [Signal!Procs -> [count : Nat, stop : Nat]]
  /\ g_usr1_count \in [Signal!Procs -> Nat] /\ g_usr2_count \in [Signal!Procs -> Nat]
  /\ sent_s \in [Signal!Procs -> Nat]

Counted(p) == g_usr1_count[p]
Coming(p) == pending[p].count
Unstopped(p) == pending[p].stop = 0 /\ g_usr2_count[p] = 0

\* from the sender to the catcher
Ping ==
  /\ sent_s["sender"] <= to_send
  /\ pc_s["sender"] \in {"test", "done"} => sent_s["sender"] = to_send
  /\ pc_s["sender"] = "off" => sent_s["sender"] = 0
  /\ pc_s["sender"] = "confirm" => confirmed
  /\ pc_s["sender"] \in {"off", "ping", "confirm"} => Unstopped("catcher")
  /\ pc_s["catcher"] \in {"start", "killed"} => Counted("catcher") = 0
  /\ pc_s["catcher"] = "start" => g_usr2_count["catcher"] = 0
  /\ pc_s["catcher"] \in {"pong", "done"} =>
       pc_s["sender"] \in {"test", "done"} /\ Coming("catcher") = 0
  /\ pc_s["catcher"] # "killed" /\ ~confirmed =>
       /\ Counted("catcher") + Coming("catcher") <= sent_s["sender"]
       /\ mode = "sigrt" => Counted("catcher") + Coming("catcher") = sent_s["sender"]
       /\ sent_s["sender"] > 0 => Counted("catcher") + Coming("catcher") > 0
  /\ pc_s["catcher"] # "killed" /\ confirmed =>
       /\ Counted("catcher") + Coming("catcher") = sent_s["sender"]
       /\ pc_s["sender"] # "confirm" => Coming("catcher") = 0

\* and back: confirmations, and later the reply
Pong ==
  /\ pc_s["catcher"] \in {"start", "killed"} => Counted("sender") = 0 /\ Coming("sender") = 0
  /\ pc_s["catcher"] # "killed" /\ pc_s["sender"] = "confirm" =>
       Coming("catcher") + Coming("sender") + Counted("sender") = 1
  /\ pc_s["catcher"] \in {"start", "test", "killed"} =>
       /\ sent_s["catcher"] = 0 /\ Unstopped("sender")
       /\ pc_s["sender"] # "confirm" => Coming("sender") = 0 /\ Counted("sender") = 0
  /\ pc_s["catcher"] \in {"pong", "done"} =>
       /\ sent_s["catcher"] <= Counted("catcher")
       /\ Counted("sender") + Coming("sender") <= sent_s["catcher"]
       /\ mode = "sigrt" => Counted("sender") + Coming("sender") = sent_s["catcher"]
       /\ sent_s["catcher"] > 0 => Counted("sender") + Coming("sender") > 0
  /\ pc_s["catcher"] = "pong" => Unstopped("sender")
  /\ pc_s["catcher"] = "done" => sent_s["catcher"] = Counted("catcher")
  /\ pc_s["sender"] = "done" => pc_s["catcher"] = "done" /\ Coming("sender") = 0

SignalInv == SignalTypes /\ Ping /\ Pong

LEMMA SignalInit == Signal!Init => SignalInv
<1> SUFFICES ASSUME Signal!Init PROVE SignalInv
  OBVIOUS
<1>1. /\ pc_s = [sender |-> "off", catcher |-> "start"]
      /\ pc_s["sender"] = "off" /\ pc_s["catcher"] = "start"
  BY DEF Signal!Init
<1>2. pc_s \in [Signal!Procs -> {"off", "ping", "confirm", "start", "test", "pong", "done", "killed"}]
  BY <1>1 DEF Signal!Procs
<1>3. \A p \in Signal!Procs : Counted(p) = 0 /\ Coming(p) = 0 /\ Unstopped(p) /\ sent_s[p] = 0
  BY DEF Signal!Init, Counted, Coming, Unstopped
<1>4. SignalTypes BY <1>1, <1>2 DEF Signal!Init, SignalTypes
<1>5. Ping BY <1>1, <1>3 DEF Signal!Init, Ping, Unstopped, Signal!Procs
<1>6. Pong BY <1>1, <1>3 DEF Signal!Init, Pong, Unstopped, Signal!Procs
<1> QED BY <1>4, <1>5, <1>6 DEF SignalInv

\* One more signal is pending, unless it merges or comes too late.
LEMMA KillEffect ==
  ASSUME NEW was \in [Signal!Procs -> [count : Nat, stop : Nat]], NEW p \in Signal!Procs,
         NEW s \in {"count", "stop"}
  PROVE  LET now == Signal!Kill(was, p, s) IN
         /\ now \in [Signal!Procs -> [count : Nat, stop : Nat]]
         /\ \A q \in Signal!Procs : q # p => now[q] = was[q]
         /\ s = "count" => now[p].stop = was[p].stop
         /\ s = "stop" => now[p].count = was[p].count
         /\ pc_s[p] \in {"done", "killed"} => now = was
         /\ pc_s[p] \notin {"done", "killed"} =>
              now[p][s] = IF mode = "sigrt" THEN was[p][s] + 1 ELSE 1
<1>1. CASE pc_s[p] \in {"done", "killed"} BY <1>1 DEF Signal!Kill
<1>2. CASE pc_s[p] \notin {"done", "killed"} /\ mode = "sigrt"
  BY <1>2 DEF Signal!Kill
<1>3. CASE pc_s[p] \notin {"done", "killed"} /\ mode # "sigrt"
  BY <1>3 DEF Signal!Kill
<1> QED BY <1>1, <1>2, <1>3

LEMMA StartsStep ==
  ASSUME SignalInv, NEW p \in Signal!Procs, Signal!Starts(p)
  PROVE  SignalInv'
<1>1. CASE p = "sender"
  BY <1>1 DEF Signal!Starts, Signal!Goes, Signal!Procs, SignalInv, SignalTypes, Ping, Pong, Counted,
              Coming, Unstopped
<1>2. CASE p = "catcher"
  BY <1>2 DEF Signal!Starts, Signal!Goes, Signal!Procs, Signal!Args, SignalInv, SignalTypes, Ping, Pong,
              Counted, Coming, Unstopped
<1> QED BY <1>1, <1>2 DEF Signal!Procs

LEMMA SendsStep ==
  ASSUME SignalInv, NEW p \in Signal!Procs, Signal!Sends(p)
  PROVE  SignalInv'
<1>0. /\ \A q \in Signal!Procs : q = "sender" \/ q = "catcher"
      /\ UNCHANGED <<confirmed, mode, to_send, asleep, g_usr1_count, g_usr2_count>>
  BY DEF Signal!Sends, Signal!Args, Signal!Procs
<1>c. Coming(p) = 0 /\ pending[p].stop = 0
  BY DEF Signal!Sends, Signal!Calm, Signal!Deliverable, Signal!Blocked, SignalInv, SignalTypes, Coming
<1>1. CASE p = "sender"
  <2> DEFINE now(s) == Signal!Kill(pending, "catcher", s)
  <2>0. "catcher" \in Signal!Procs /\ "sender" \in Signal!Procs /\ Signal!Peer[p] = "catcher"
    BY <1>1 DEF Signal!Procs, Signal!Peer
  <2>1. CASE sent_s["sender"] < to_send
    <3>1. /\ pc_s["sender"] = "ping" /\ pending' = now("count")
          /\ sent_s' = [sent_s EXCEPT !["sender"] = @ + 1]
          /\ pc_s' = IF confirmed THEN [pc_s EXCEPT !["sender"] = "confirm"] ELSE pc_s
      BY <1>1, <2>0, <2>1 DEF Signal!Sends, Signal!Goes
    <3>2. /\ pending' \in [Signal!Procs -> [count : Nat, stop : Nat]]
          /\ pending'["sender"] = pending["sender"]
          /\ pending'["catcher"].stop = pending["catcher"].stop
          /\ pc_s["catcher"] \in {"done", "killed"} => pending' = pending
          /\ pc_s["catcher"] \notin {"done", "killed"} =>
               pending'["catcher"].count = IF mode = "sigrt" THEN pending["catcher"].count + 1 ELSE 1
      <4> HIDE DEF now
      <4> QED BY <2>0, <3>1, KillEffect DEF SignalInv, SignalTypes, now
    <3> HIDE DEF now
    <3>3. SignalTypes' BY <1>0, <2>0, <3>1, <3>2 DEF SignalInv, SignalTypes
    <3>4. Ping' BY <1>0, <1>1, <1>c, <2>0, <2>1, <3>1, <3>2
          DEF SignalInv, SignalTypes, Ping, Pong, Counted, Coming, Unstopped
    <3>5. Pong' BY <1>0, <1>1, <1>c, <2>0, <2>1, <3>1, <3>2
          DEF SignalInv, SignalTypes, Ping, Pong, Counted, Coming, Unstopped
    <3> QED BY <3>3, <3>4, <3>5 DEF SignalInv
  <2>2. CASE ~(sent_s["sender"] < to_send)
    <3>1. /\ pc_s["sender"] = "ping" /\ pending' = now("stop") /\ sent_s' = sent_s
          /\ pc_s' = [pc_s EXCEPT !["sender"] = "test"]
      BY <1>1, <2>0, <2>2 DEF Signal!Sends, Signal!Goes
    <3>2. /\ pending' \in [Signal!Procs -> [count : Nat, stop : Nat]]
          /\ pending'["sender"] = pending["sender"]
          /\ pending'["catcher"].count = pending["catcher"].count
      <4> HIDE DEF now
      <4> QED BY <2>0, <3>1, KillEffect DEF SignalInv, SignalTypes, now
    <3> HIDE DEF now
    <3>3. SignalTypes' BY <1>0, <2>0, <3>1, <3>2 DEF SignalInv, SignalTypes
    <3>4. Ping' BY <1>0, <1>1, <1>c, <2>0, <2>2, <3>1, <3>2
          DEF SignalInv, SignalTypes, Ping, Pong, Counted, Coming, Unstopped
    <3>5. Pong' BY <1>0, <1>1, <1>c, <2>0, <2>2, <3>1, <3>2
          DEF SignalInv, SignalTypes, Ping, Pong, Counted, Coming, Unstopped
    <3> QED BY <3>3, <3>4, <3>5 DEF SignalInv
  <2> QED BY <2>1, <2>2
<1>2. CASE p = "catcher"
  <2> DEFINE now(s) == Signal!Kill(pending, "sender", s)
  <2>0. "catcher" \in Signal!Procs /\ "sender" \in Signal!Procs /\ Signal!Peer[p] = "sender"
    BY <1>2 DEF Signal!Procs, Signal!Peer
  <2>1. CASE sent_s["catcher"] < g_usr1_count["catcher"]
    <3>1. /\ pc_s["catcher"] = "pong" /\ pending' = now("count")
          /\ sent_s' = [sent_s EXCEPT !["catcher"] = @ + 1] /\ pc_s' = pc_s
      BY <1>2, <2>0, <2>1 DEF Signal!Sends, Signal!Goes
    <3>2. /\ pending' \in [Signal!Procs -> [count : Nat, stop : Nat]]
          /\ pending'["catcher"] = pending["catcher"]
          /\ pending'["sender"].stop = pending["sender"].stop
          /\ pc_s["sender"] \in {"done", "killed"} => pending' = pending
          /\ pc_s["sender"] \notin {"done", "killed"} =>
               pending'["sender"].count = IF mode = "sigrt" THEN pending["sender"].count + 1 ELSE 1
      <4>1. pending \in [Signal!Procs -> [count : Nat, stop : Nat]] BY DEF SignalInv, SignalTypes
      <4>2. pending' = Signal!Kill(pending, "sender", "count") BY <3>1
      <4> HIDE DEF now
      <4> QED BY <2>0, <4>1, <4>2, KillEffect
    <3> HIDE DEF now
    <3>3. SignalTypes' BY <1>0, <2>0, <3>1, <3>2 DEF SignalInv, SignalTypes
    <3>4. Ping' BY <1>0, <1>2, <1>c, <2>0, <2>1, <3>1, <3>2
          DEF SignalInv, SignalTypes, Ping, Pong, Counted, Coming, Unstopped
    <3>5. Pong' BY <1>0, <1>2, <1>c, <2>0, <2>1, <3>1, <3>2
          DEF SignalInv, SignalTypes, Ping, Pong, Counted, Coming, Unstopped
    <3> QED BY <3>3, <3>4, <3>5 DEF SignalInv
  <2>2. CASE ~(sent_s["catcher"] < g_usr1_count["catcher"])
    <3>1. /\ pc_s["catcher"] = "pong" /\ pending' = now("stop") /\ sent_s' = sent_s
          /\ pc_s' = [pc_s EXCEPT !["catcher"] = "done"]
      BY <1>2, <2>0, <2>2 DEF Signal!Sends, Signal!Goes
    <3>2. /\ pending' \in [Signal!Procs -> [count : Nat, stop : Nat]]
          /\ pending'["catcher"] = pending["catcher"]
          /\ pending'["sender"].count = pending["sender"].count
      <4>1. pending \in [Signal!Procs -> [count : Nat, stop : Nat]] BY DEF SignalInv, SignalTypes
      <4>2. pending' = Signal!Kill(pending, "sender", "stop") BY <3>1
      <4> HIDE DEF now
      <4> QED BY <2>0, <4>1, <4>2, KillEffect
    <3> HIDE DEF now
    <3>3. SignalTypes' BY <1>0, <2>0, <3>1, <3>2 DEF SignalInv, SignalTypes
    <3>4. Ping' BY <1>0, <1>2, <1>c, <2>0, <2>2, <3>1, <3>2
          DEF SignalInv, SignalTypes, Ping, Pong, Counted, Coming, Unstopped
    <3>5. Pong' BY <1>0, <1>2, <1>c, <2>0, <2>2, <3>1, <3>2
          DEF SignalInv, SignalTypes, Ping, Pong, Counted, Coming, Unstopped
    <3> QED BY <3>3, <3>4, <3>5 DEF SignalInv
  <2> QED BY <2>1, <2>2
<1> QED BY <1>0, <1>1, <1>2

LEMMA TestsStep ==
  ASSUME SignalInv, NEW p \in Signal!Procs, Signal!Tests(p)
  PROVE  SignalInv'
<1>0. /\ p = "sender" \/ p = "catcher"
      /\ "catcher" \in Signal!Procs /\ "sender" \in Signal!Procs
      /\ UNCHANGED <<confirmed, mode, to_send, pending, g_usr2_count, sent_s>>
  BY DEF Signal!Tests, Signal!Args, Signal!Procs
<1>1. CASE pc_s[p] = "confirm" /\ g_usr1_count[p] > 0
  <2>1. /\ p = "sender" /\ pc_s' = [pc_s EXCEPT ![p] = "ping"] /\ asleep' = asleep
        /\ g_usr1_count' = [g_usr1_count EXCEPT ![p] = 0]
    BY <1>0, <1>1 DEF Signal!Tests, Signal!Goes, Signal!AfterConfirmation, SignalInv, SignalTypes
  <2>2. SignalTypes' BY <1>0, <2>1 DEF SignalInv, SignalTypes
  <2>3. Ping' /\ Pong'
    BY <1>0, <1>1, <2>1 DEF SignalInv, SignalTypes, Ping, Pong, Counted, Coming, Unstopped
  <2> QED BY <2>2, <2>3 DEF SignalInv
<1>2. CASE ~(pc_s[p] = "confirm" /\ g_usr1_count[p] > 0) /\ pc_s[p] = "test" /\ g_usr2_count[p] > 0
  <2>1. /\ pc_s' = [pc_s EXCEPT ![p] = IF p = "sender" THEN "done" ELSE "pong"]
        /\ UNCHANGED <<asleep, g_usr1_count>>
    BY <1>2 DEF Signal!Tests, Signal!Goes
  <2>2. Coming(p) = 0
    BY <1>2 DEF Signal!Tests, Signal!Calm, Signal!Deliverable, Signal!Blocked, SignalInv, SignalTypes, Coming
  <2>3. SignalTypes' BY <1>0, <2>1 DEF SignalInv, SignalTypes
  <2>4. Ping' /\ Pong'
    BY <1>0, <1>2, <2>1, <2>2 DEF SignalInv, SignalTypes, Ping, Pong, Counted, Coming, Unstopped
  <2> QED BY <2>3, <2>4 DEF SignalInv
<1>3. CASE /\ ~(pc_s[p] = "confirm" /\ g_usr1_count[p] > 0) /\ ~(pc_s[p] = "test" /\ g_usr2_count[p] > 0)
  <2>1. asleep' = [asleep EXCEPT ![p] = "falling"] /\ UNCHANGED <<pc_s, g_usr1_count>>
    BY <1>3 DEF Signal!Tests
  <2> QED BY <1>0, <2>1 DEF SignalInv, SignalTypes, Ping, Pong, Counted, Coming, Unstopped
<1> QED BY <1>1, <1>2, <1>3

LEMMA SuspendsStep ==
  ASSUME SignalInv, NEW p \in Signal!Procs, Signal!Suspends(p)
  PROVE  SignalInv'
BY DEF Signal!Suspends, Signal!Args, SignalInv, SignalTypes, Ping, Pong, Counted, Coming, Unstopped

\* A handler counts what was pending; the catcher's may confirm.
LEMMA HandlesStep ==
  ASSUME SignalInv, NEW p \in Signal!Procs, NEW s \in {"count", "stop"}, Signal!Handles(p, s)
  PROVE  SignalInv'
<1>0. /\ p = "sender" \/ p = "catcher"
      /\ "catcher" \in Signal!Procs /\ "sender" \in Signal!Procs
      /\ UNCHANGED <<confirmed, mode, to_send, sent_s>>
      /\ pc_s[p] \notin {"off", "done", "killed"} /\ pending[p][s] > 0
      /\ pending \in [Signal!Procs -> [count : Nat, stop : Nat]]
  BY DEF Signal!Handles, Signal!Running, Signal!Deliverable, Signal!Args, Signal!Procs, SignalInv, SignalTypes
<1>1. CASE pc_s[p] = "start"
  <2>1. /\ p = "catcher" /\ pc_s' = [pc_s EXCEPT ![p] = "killed"]
        /\ pending' = [pending EXCEPT ![p] = [count |-> 0, stop |-> 0]]
        /\ UNCHANGED <<asleep, g_usr1_count, g_usr2_count>>
    BY <1>0, <1>1 DEF Signal!Handles, SignalInv, SignalTypes
  <2>2. SignalTypes' BY <1>0, <2>1 DEF SignalInv, SignalTypes
  <2>3. Ping' /\ Pong'
    BY <1>0, <1>1, <2>1 DEF SignalInv, SignalTypes, Ping, Pong, Counted, Coming, Unstopped
  <2> QED BY <2>2, <2>3 DEF SignalInv
<1>2. CASE pc_s[p] # "start"
  <2> DEFINE left0 == [pending EXCEPT ![p][s] = @ - 1]
  <2>1. /\ pending' = IF p = "catcher" /\ s = "count" /\ confirmed
                      THEN Signal!Kill(left0, "sender", s) ELSE left0
        /\ g_usr1_count' = IF s = "count" THEN [g_usr1_count EXCEPT ![p] = @ + 1] ELSE g_usr1_count
        /\ g_usr2_count' = IF s = "stop" THEN [g_usr2_count EXCEPT ![p] = @ + 1] ELSE g_usr2_count
        /\ asleep' = IF asleep[p] = "yes" THEN [asleep EXCEPT ![p] = "hit"] ELSE asleep
        /\ UNCHANGED pc_s
    BY <1>2 DEF Signal!Handles, Signal!Peer
  <2>2. /\ left0 \in [Signal!Procs -> [count : Nat, stop : Nat]]
        /\ left0[p][s] = pending[p][s] - 1
        /\ \A q \in Signal!Procs : q # p => left0[q] = pending[q]
        /\ s = "count" => left0[p].stop = pending[p].stop
        /\ s = "stop" => left0[p].count = pending[p].count
    <3>1. [pending[p] EXCEPT ![s] = @ - 1] \in [count : Nat, stop : Nat]
      <4>1. CASE s = "count" BY <1>0, <4>1
      <4>2. CASE s = "stop" BY <1>0, <4>2
      <4> QED BY <4>1, <4>2
    <3>2. left0 = [pending EXCEPT ![p] = [pending[p] EXCEPT ![s] = @ - 1]] OBVIOUS
    <3>3. /\ [pending[p] EXCEPT ![s] = @ - 1][s] = pending[p][s] - 1
          /\ s = "count" => [pending[p] EXCEPT ![s] = @ - 1].stop = pending[p].stop
          /\ s = "stop" => [pending[p] EXCEPT ![s] = @ - 1].count = pending[p].count
      BY <1>0
    <3> HIDE DEF left0
    <3> QED BY <1>0, <3>1, <3>2, <3>3
  <2>3. CASE p = "catcher" /\ s = "count" /\ confirmed
    <3>1. /\ pending' \in [Signal!Procs -> [count : Nat, stop : Nat]]
          /\ pending'["catcher"].count = pending["catcher"].count - 1
          /\ pending'["catcher"].stop = pending["catcher"].stop
          /\ pending'["sender"].stop = pending["sender"].stop
          /\ pc_s["sender"] \in {"done", "killed"} => pending'["sender"] = pending["sender"]
          /\ pc_s["sender"] \notin {"done", "killed"} =>
               pending'["sender"].count = IF mode = "sigrt" THEN pending["sender"].count + 1 ELSE 1
      <4>1. pending' = Signal!Kill(left0, "sender", "count") BY <2>1, <2>3
      <4>2. left0["sender"] = pending["sender"] /\ left0["catcher"].count = pending["catcher"].count - 1
            /\ left0["catcher"].stop = pending["catcher"].stop
        BY <1>0, <2>2, <2>3
      <4> HIDE DEF left0
      <4> QED BY <1>0, <2>2, <4>1, <4>2, KillEffect
    <3> HIDE DEF left0
    <3>2. SignalTypes' BY <1>0, <2>1, <3>1 DEF SignalInv, SignalTypes
    <3>3. Ping' BY <1>0, <1>2, <2>1, <2>3, <3>1
          DEF SignalInv, SignalTypes, Ping, Pong, Counted, Coming, Unstopped
    <3>4. Pong' BY <1>0, <1>2, <2>1, <2>3, <3>1
          DEF SignalInv, SignalTypes, Ping, Pong, Counted, Coming, Unstopped
    <3> QED BY <3>2, <3>3, <3>4 DEF SignalInv
  <2>4. CASE s = "count" /\ ~(p = "catcher" /\ confirmed)
    <3>1. /\ pending' \in [Signal!Procs -> [count : Nat, stop : Nat]]
          /\ pending'[p].count = pending[p].count - 1 /\ pending'[p].stop = pending[p].stop
          /\ \A q \in Signal!Procs : q # p => pending'[q] = pending[q]
      BY <2>1, <2>2, <2>4
    <3>2. /\ g_usr1_count' = [g_usr1_count EXCEPT ![p] = @ + 1]
          /\ UNCHANGED g_usr2_count
      BY <2>1, <2>4
    <3> HIDE DEF left0
    <3>3. SignalTypes' BY <1>0, <2>1, <3>1, <3>2 DEF SignalInv, SignalTypes
    <3>4. CASE p = "sender"
      <4>1. /\ pending'["sender"].count = pending["sender"].count - 1
            /\ pending'["sender"].stop = pending["sender"].stop
            /\ pending'["catcher"] = pending["catcher"]
            /\ g_usr1_count'["sender"] = g_usr1_count["sender"] + 1
            /\ g_usr1_count'["catcher"] = g_usr1_count["catcher"]
        BY <1>0, <3>1, <3>2, <3>4 DEF SignalInv, SignalTypes
      <4>2. pending["sender"].count > 0 /\ UNCHANGED <<pc_s, g_usr2_count>> BY <1>0, <2>1, <2>4, <3>4
      <4>3. Ping' BY <1>0, <4>1, <4>2 DEF SignalInv, SignalTypes, Ping, Counted, Coming, Unstopped
      <4>4. Pong' BY <1>0, <4>1, <4>2 DEF SignalInv, SignalTypes, Ping, Pong, Counted, Coming, Unstopped
      <4> QED BY <3>3, <4>3, <4>4 DEF SignalInv
    <3>5. CASE p = "catcher"
      BY <1>0, <1>2, <2>1, <2>4, <3>1, <3>2, <3>3, <3>5
      DEF SignalInv, SignalTypes, Ping, Pong, Counted, Coming, Unstopped
    <3> QED BY <1>0, <3>4, <3>5
  <2>5. CASE s = "stop"
    <3>1. /\ pending' \in [Signal!Procs -> [count : Nat, stop : Nat]]
          /\ pending'[p].count = pending[p].count /\ pending'[p].stop = pending[p].stop - 1
          /\ \A q \in Signal!Procs : q # p => pending'[q] = pending[q]
      BY <2>1, <2>2, <2>5
    <3>2. /\ g_usr2_count' = [g_usr2_count EXCEPT ![p] = @ + 1]
          /\ UNCHANGED g_usr1_count
      BY <2>1, <2>5
    <3> HIDE DEF left0
    <3>3. SignalTypes' BY <1>0, <2>1, <3>1, <3>2 DEF SignalInv, SignalTypes
    <3>4. CASE p = "sender"
      BY <1>0, <2>1, <2>5, <3>1, <3>2, <3>3, <3>4
      DEF SignalInv, SignalTypes, Ping, Pong, Counted, Coming, Unstopped
    <3>5. CASE p = "catcher"
      BY <1>0, <1>2, <2>1, <2>5, <3>1, <3>2, <3>3, <3>5
      DEF SignalInv, SignalTypes, Ping, Pong, Counted, Coming, Unstopped
    <3> QED BY <1>0, <3>4, <3>5
  <2> QED BY <2>3, <2>4, <2>5
<1> QED BY <1>1, <1>2

LEMMA SignalNext == SignalInv /\ [Next]_vars => SignalInv'
<1> SUFFICES ASSUME SignalInv, [Next]_vars PROVE SignalInv'
  OBVIOUS
<1>1. CASE UNCHANGED signalVars
  BY <1>1 DEF signalVars, SignalInv, SignalTypes, Ping, Pong, Counted, Coming, Unstopped
<1>2. ASSUME NEW p \in Signal!Procs, Signal!Step(p) PROVE SignalInv'
  BY <1>2, StartsStep, SendsStep, TestsStep, SuspendsStep, HandlesStep DEF Signal!Step
<1>3. UNCHANGED signalVars \/ \E p \in Signal!Procs : Signal!Step(p)
  BY DEF Next, vars, Only, SignalStep, SearchStep
<1> QED BY <1>1, <1>2, <1>3

\* Nobody counts a signal that was not sent; with realtime signals or confirmations every one
\* is counted, and of many that merge one is, however many are sent.
THEOREM SignalsAreCounted == Spec => []CountsAgree
<1>1. Init => SignalInv BY SignalInit DEF Init
<1>2. SignalInv => CountsAgree
  BY DEF SignalInv, SignalTypes, Ping, Pong, Counted, Coming, Unstopped, CountsAgree, Signal!CountsAgree,
     Signal!Procs
<1> QED BY <1>1, <1>2, SignalNext, PTL DEF Spec

-----------------------------------------------------------------------------
(* Producers and consumers.  While one consumer at a time has a record, the *)
(* file it writes back is the output with that record inserted; where a     *)
(* chunk is inserted the chunks behind it move by one place, but keep their *)
(* lines.  Of records written in parts nothing is said but their types.     *)

Chunk == Producers \X Nat
File == Seq(Chunk \cup {Lines!NewLine})

LinesTypes ==
  /\ pc_f \in [Lines!Procs ->
                 {"off", "opening", "truncate", "running", "midway", "copy", "write", "done", "killed"}]
  /\ sent_f \in [Producers -> Nat] /\ fifo \in Seq(Chunk) /\ output \in File
  /\ record \in [Consumers -> {<<>>} \cup {<<x>> : x \in Chunk}]
  /\ tmp \in [Consumers -> File] /\ spoiled \in BOOLEAN
  /\ fits \in BOOLEAN /\ torn \in BOOLEAN /\ (fits => ~torn)

\* who holds a record, and what has been copied for it
Turns == \A c \in Consumers : record[c] # <<>> <=> pc_f[c] \in {"copy", "write"}
OneHolds == \A c, d \in Consumers : record[c] # <<>> /\ record[d] # <<>> => c = d
Copied ==
  \A c \in Consumers : pc_f[c] = "write" => tmp[c] = Lines!WithChunk(output, record[c][1])

\* every chunk of the file is in its producer's line
InLine(file) ==
  \A k \in DOMAIN file : file[k] # Lines!NewLine =>
    file[k][1] \in Producers /\ Lines!LineAt(file, k) = LineOf[file[k][1]]

\* the chunks of p up to w have been written, those up to t taken from the FIFO
Split(p, w, t) ==
  /\ w \in 0 .. sent_f[p] /\ t \in 0 .. sent_f[p]
  /\ Lines!InOrder(p, output, 1, w)
  /\ IF t = w THEN Lines!Holders(p) = {}
     ELSE t = w + 1 /\ \E c \in Consumers : Lines!Holders(p) = {c} /\ record[c] = <<<<p, t>>>>
  /\ Lines!InOrder(p, fifo, t + 1, sent_f[p])

\* those up to t have been taken, and whoever holds one is the only one
Taken(p, t) ==
  /\ Lines!InOrder(p, fifo, t + 1, sent_f[p])
  /\ \A c \in Consumers : record[c] # <<>> /\ record[c][1][1] = p => record[c][1][2] \in 1 .. t
Handed ==
  /\ \A p \in Producers : \E t \in 0 .. sent_f[p] : Taken(p, t)
  /\ \A c, d \in Consumers : record[c] # <<>> /\ record[c] = record[d] => c = d

LinesInv ==
  /\ LinesTypes /\ Turns
  /\ ~torn => Handed
  /\ ~torn /\ ~spoiled =>
       /\ OneHolds /\ Copied /\ InLine(output)
       /\ \A p \in Producers : \E w, t \in 0 .. sent_f[p] : Split(p, w, t)

\* t is s with x inserted at place e
Inserted(t, s, e, x) ==
  /\ Len(t) = Len(s) + 1 /\ e \in 1 .. Len(t)
  /\ \A k \in 1 .. Len(s) : k < e => t[k] = s[k]
  /\ \A k \in 1 .. Len(s) : k >= e => t[k + 1] = s[k]
  /\ t[e] = x

LEMMA ItemsAre ==
  ASSUME NEW file \in File
  PROVE  /\ Len(file) \in Nat /\ DOMAIN file = 1 .. Len(file)
         /\ \A k \in 1 .. Len(file) : file[k] \in Chunk \cup {Lines!NewLine}
BY DEF File

LEMMA ChunksAreItems == ASSUME NEW s \in Seq(Chunk) PROVE s \in File
BY SeqMonotonic DEF File

LEMMA NoNewLine == \A x \in Chunk : x # Lines!NewLine
<1> SUFFICES ASSUME NEW x \in Chunk PROVE x # Lines!NewLine OBVIOUS
<1>1. PICK p, n : x = <<p, n>> BY DEF Chunk
<1>2. <<p, n>> # <<>> OBVIOUS
<1> QED BY <1>1, <1>2 DEF Lines!NewLine

\* Where the chunks of a producer are after an insertion.
LEMMA PlacesInserted ==
  ASSUME NEW s \in File, NEW t \in File, NEW e \in Int, NEW x, Inserted(t, s, e, x), NEW p
  PROVE  /\ \A k \in Lines!PlacesOf(p, s) :
              /\ k \in Int
              /\ k < e => k \in Lines!PlacesOf(p, t) /\ t[k] = s[k]
              /\ k >= e => k + 1 \in Lines!PlacesOf(p, t) /\ t[k + 1] = s[k]
         /\ \A k \in Lines!PlacesOf(p, t) :
              /\ k \in Int
              /\ k < e => k \in Lines!PlacesOf(p, s) /\ t[k] = s[k]
              /\ k > e => k - 1 \in Lines!PlacesOf(p, s) /\ t[k] = s[k - 1]
         /\ e \in Lines!PlacesOf(p, t) <=> x # Lines!NewLine /\ x[1] = p
<1>1. /\ Len(s) \in Nat /\ DOMAIN s = 1 .. Len(s)
      /\ DOMAIN t = 1 .. Len(s) + 1
  BY ItemsAre DEF Inserted
<1>2. ASSUME NEW k \in 1 .. Len(s) + 1, k > e
      PROVE  k - 1 \in 1 .. Len(s) /\ k - 1 >= e /\ t[k] = s[k - 1]
  <2>1. k - 1 \in 1 .. Len(s) /\ k - 1 >= e /\ (k - 1) + 1 = k BY <1>1, <1>2 DEF Inserted
  <2>2. t[(k - 1) + 1] = s[k - 1] BY <2>1 DEF Inserted
  <2> QED BY <2>1, <2>2
<1>3. ASSUME NEW k \in 1 .. Len(s) + 1, k < e PROVE k \in 1 .. Len(s) /\ t[k] = s[k]
  BY <1>1, <1>3 DEF Inserted
<1>4. ASSUME NEW k \in 1 .. Len(s) PROVE k \in Int /\ k \in 1 .. Len(s) + 1 /\ k + 1 \in 1 .. Len(s) + 1
  BY <1>1
<1>5. \A k \in 1 .. Len(s) + 1 : k \in Int BY <1>1
<1>6. e \in 1 .. Len(s) + 1 /\ t[e] = x BY DEF Inserted
<1>7. \A k \in Lines!PlacesOf(p, s) :
        /\ k \in Int
        /\ k < e => k \in Lines!PlacesOf(p, t) /\ t[k] = s[k]
        /\ k >= e => k + 1 \in Lines!PlacesOf(p, t) /\ t[k + 1] = s[k]
  BY <1>1, <1>4 DEF Lines!PlacesOf, Inserted
<1>8. \A k \in Lines!PlacesOf(p, t) :
        /\ k \in Int
        /\ k < e => k \in Lines!PlacesOf(p, s) /\ t[k] = s[k]
        /\ k > e => k - 1 \in Lines!PlacesOf(p, s) /\ t[k] = s[k - 1]
  BY <1>1, <1>2, <1>3, <1>5 DEF Lines!PlacesOf
<1>9. e \in Lines!PlacesOf(p, t) <=> x # Lines!NewLine /\ x[1] = p
  BY <1>1, <1>6 DEF Lines!PlacesOf
<1> QED BY <1>7, <1>8, <1>9

\* The chunks of the others are where they were.
LEMMA OthersInOrder ==
  ASSUME NEW s \in File, NEW t \in File, NEW e \in Int, NEW x, Inserted(t, s, e, x), NEW p,
         x = Lines!NewLine \/ x[1] # p, NEW m, NEW n
  PROVE  Lines!InOrder(p, t, m, n) <=> Lines!InOrder(p, s, m, n)
<1> DEFINE S == Lines!PlacesOf(p, s)
           T == Lines!PlacesOf(p, t)
<1>1. \A k \in S : /\ k \in Int
                   /\ k < e => k \in T /\ t[k] = s[k]
                   /\ k >= e => k + 1 \in T /\ t[k + 1] = s[k]
  BY PlacesInserted
<1>2. \A k \in T : /\ k \in Int
                   /\ k < e => k \in S /\ t[k] = s[k]
                   /\ k > e => k - 1 \in S /\ t[k] = s[k - 1]
  BY PlacesInserted
<1>3. e \notin T BY PlacesInserted
<1> HIDE DEF S, T
<1>4. \A k \in S : k < e \/ k >= e BY <1>1
<1>5. \A k \in T : k < e \/ k > e BY <1>2, <1>3
<1>6. {s[k][2] : k \in S} = {t[k][2] : k \in T}
  <2>1. ASSUME NEW k \in S PROVE \E j \in T : t[j] = s[k] BY <1>1, <1>4
  <2>2. ASSUME NEW k \in T PROVE \E j \in S : s[j] = t[k] BY <1>2, <1>5
  <2> QED BY <2>1, <2>2
<1>7. (\A j, k \in S : j < k => s[j][2] < s[k][2]) => (\A j, k \in T : j < k => t[j][2] < t[k][2])
  <2> SUFFICES ASSUME \A j, k \in S : j < k => s[j][2] < s[k][2], NEW j \in T, NEW k \in T, j < k
               PROVE  t[j][2] < t[k][2]
    OBVIOUS
  <2>1. j \in Int /\ k \in Int BY <1>2
  <2>2. CASE k < e BY <1>2, <2>1, <2>2
  <2>3. CASE k > e /\ j < e
    <3>1. j < k - 1 BY <2>1, <2>3
    <3> QED BY <1>2, <2>3, <3>1
  <2>4. CASE j > e
    <3>1. k > e /\ j - 1 < k - 1 BY <2>1, <2>4
    <3> QED BY <1>2, <2>4, <3>1
  <2> QED BY <1>5, <2>2, <2>3, <2>4
<1>8. (\A j, k \in T : j < k => t[j][2] < t[k][2]) => (\A j, k \in S : j < k => s[j][2] < s[k][2])
  <2> SUFFICES ASSUME \A j, k \in T : j < k => t[j][2] < t[k][2], NEW j \in S, NEW k \in S, j < k
               PROVE  s[j][2] < s[k][2]
    OBVIOUS
  <2>1. j \in Int /\ k \in Int BY <1>1
  <2>2. CASE k < e
    <3>1. j < e BY <2>1, <2>2
    <3> QED BY <1>1, <2>2, <3>1
  <2>3. CASE k >= e /\ j < e
    <3>1. j < k + 1 BY <2>1
    <3> QED BY <1>1, <2>3, <3>1
  <2>4. CASE j >= e
    <3>1. k >= e /\ j + 1 < k + 1 BY <2>1, <2>4
    <3> QED BY <1>1, <2>4, <3>1
  <2> QED BY <1>4, <2>2, <2>3, <2>4
<1> QED BY <1>6, <1>7, <1>8 DEF Lines!InOrder, S, T

\* The next chunk of a producer behind its others.
LEMMA NextInOrder ==
  ASSUME NEW s \in File, NEW t \in File, NEW e \in Int, NEW p, NEW m \in Nat, NEW n \in Nat,
         Inserted(t, s, e, <<p, n + 1>>), m <= n + 1,
         \A k \in Lines!PlacesOf(p, s) : k < e, Lines!InOrder(p, s, m, n)
  PROVE  Lines!InOrder(p, t, m, n + 1)
<1> DEFINE S == Lines!PlacesOf(p, s)
           T == Lines!PlacesOf(p, t)
<1>0. <<p, n + 1>> # Lines!NewLine BY DEF Lines!NewLine
<1>1. \A k \in S : k \in Int /\ k \in T /\ t[k] = s[k] BY PlacesInserted
<1>2. \A k \in T : /\ k \in Int
                   /\ k < e => k \in S /\ t[k] = s[k]
                   /\ k > e => k - 1 \in S
  BY PlacesInserted
<1>3. e \in T /\ t[e] = <<p, n + 1>>
  <2>1. e \in T <=> <<p, n + 1>> # Lines!NewLine /\ <<p, n + 1>>[1] = p
    <3> DEFINE x == <<p, n + 1>>
    <3> HIDE DEF x
    <3>1. Inserted(t, s, e, x) BY DEF x
    <3>2. e \in T <=> x # Lines!NewLine /\ x[1] = p BY <3>1, PlacesInserted
    <3> QED BY <3>2 DEF x
  <2> QED BY <1>0, <2>1 DEF Inserted
<1>4. \A k \in S : k < e OBVIOUS
<1>5. {s[k][2] : k \in S} = m .. n /\ \A j, k \in S : j < k => s[j][2] < s[k][2]
  BY DEF Lines!InOrder
<1> HIDE DEF S, T
<1>6. T = S \cup {e}
  <2>1. ASSUME NEW k \in T PROVE ~(k > e)
    <3> SUFFICES ASSUME k > e PROVE FALSE OBVIOUS
    <3>1. k \in Int /\ k - 1 \in S BY <1>2
    <3> QED BY <1>4, <3>1
  <2>2. ASSUME NEW k \in T PROVE k \in S \cup {e} BY <1>2, <2>1
  <2> QED BY <1>1, <1>3, <2>2
<1>7. {t[k][2] : k \in T} = m .. n + 1
  <2>1. {t[k][2] : k \in T} = {s[k][2] : k \in S} \cup {n + 1}
    <3>1. t[e][2] = n + 1 BY <1>3
    <3>2. ASSUME NEW k \in T PROVE t[k][2] \in {s[j][2] : j \in S} \cup {n + 1}
      BY <1>1, <1>6, <3>1
    <3>3. ASSUME NEW k \in S PROVE s[k][2] \in {t[j][2] : j \in T} BY <1>1
    <3>4. n + 1 \in {t[j][2] : j \in T} BY <1>3, <3>1
    <3> QED BY <3>2, <3>3, <3>4
  <2> QED BY <1>5, <2>1
<1>8. ASSUME NEW j \in T, NEW k \in T, j < k PROVE t[j][2] < t[k][2]
  <2>1. j \in S
    <3> SUFFICES ASSUME j = e PROVE FALSE BY <1>6
    <3> QED BY <1>2, <1>4, <1>6, <1>8
  <2>2. CASE k \in S BY <1>1, <1>5, <1>8, <2>1, <2>2
  <2>3. CASE k = e
    <3>1. s[j][2] \in m .. n BY <1>5, <2>1
    <3>2. t[j][2] = s[j][2] /\ t[k][2] = n + 1 BY <1>1, <1>3, <2>1, <2>3
    <3> QED BY <3>1, <3>2
  <2> QED BY <1>6, <2>2, <2>3
<1> QED BY <1>7, <1>8 DEF Lines!InOrder, T

\* The first chunk of a producer before its others.
LEMMA FirstInOrder ==
  ASSUME NEW s \in File, NEW t \in File, NEW p, NEW m \in Nat, NEW n \in Nat, NEW k \in Nat,
         Inserted(t, s, 1, <<p, k>>), Lines!InOrder(p, t, m, n)
  PROVE  k = m /\ m <= n /\ Lines!InOrder(p, s, m + 1, n)
<1> DEFINE S == Lines!PlacesOf(p, s)
           T == Lines!PlacesOf(p, t)
<1>0. <<p, k>> # Lines!NewLine BY DEF Lines!NewLine
<1>1. \A j \in S : j \in 1 .. Len(s) /\ j \in Int BY ItemsAre DEF Lines!PlacesOf
<1>2. \A j \in S : j + 1 \in T /\ t[j + 1] = s[j] BY <1>1, PlacesInserted
<1>3. \A j \in T : j \in 1 .. Len(t) /\ j \in Int BY ItemsAre DEF Lines!PlacesOf
<1>4. \A j \in T : j > 1 => j - 1 \in S /\ t[j] = s[j - 1] BY <1>3, PlacesInserted
<1>5. 1 \in T /\ t[1] = <<p, k>>
  <2>1. 1 \in T <=> <<p, k>> # Lines!NewLine /\ <<p, k>>[1] = p
    <3> DEFINE x == <<p, k>>
    <3> HIDE DEF x
    <3>1. Inserted(t, s, 1, x) BY DEF x
    <3>2. 1 \in T <=> x # Lines!NewLine /\ x[1] = p BY <3>1, PlacesInserted
    <3> QED BY <3>2 DEF x
  <2> QED BY <1>0, <2>1 DEF Inserted
<1>6. {t[j][2] : j \in T} = m .. n /\ \A i, j \in T : i < j => t[i][2] < t[j][2]
  BY DEF Lines!InOrder
<1> HIDE DEF S, T
<1>7. \A j \in T : j = 1 \/ j > 1 BY <1>3
<1>8. \A j \in T : t[j][2] \in m .. n BY <1>6
<1>9. k \in m .. n BY <1>5, <1>8
<1>10. ASSUME NEW j \in S PROVE s[j][2] \in m .. n /\ k < s[j][2]
  <2>1. j + 1 > 1 BY <1>1
  <2> QED BY <1>2, <1>5, <1>6, <1>8, <2>1
<1>11. k = m
  <2>1. PICK j \in T : t[j][2] = m BY <1>6, <1>9
  <2>2. CASE j = 1 BY <1>5, <2>1, <2>2
  <2>3. CASE j > 1 BY <1>4, <1>9, <1>10, <2>1, <2>3
  <2> QED BY <1>7, <2>2, <2>3
<1>12. {s[j][2] : j \in S} = m + 1 .. n
  <2>1. \A j \in S : s[j][2] \in m + 1 .. n BY <1>10, <1>11
  <2>2. ASSUME NEW i \in m + 1 .. n PROVE \E j \in S : s[j][2] = i
    <3>1. i \in m .. n /\ i # m OBVIOUS
    <3>2. PICK j \in T : t[j][2] = i BY <1>6, <3>1
    <3>3. j > 1 BY <1>5, <1>7, <1>11, <3>1, <3>2
    <3> QED BY <1>4, <3>2, <3>3
  <2> QED BY <2>1, <2>2
<1>13. ASSUME NEW i \in S, NEW j \in S, i < j PROVE s[i][2] < s[j][2]
  <2>1. i + 1 < j + 1 BY <1>1, <1>13
  <2> QED BY <1>2, <1>6, <2>1
<1> QED BY <1>9, <1>11, <1>12, <1>13 DEF Lines!InOrder, S

\* Where a line ends there is none of the next.
LEMMA NewLinesAre ==
  ASSUME NEW file \in File
  PROVE  /\ Lines!NewLines(file) \in SUBSET Int /\ IsFiniteSet(Lines!NewLines(file))
         /\ Lines!Cardinality(Lines!NewLines(file)) \in Nat
         /\ \A k : /\ IsFiniteSet({j \in Lines!NewLines(file) : j < k})
                   /\ Lines!LineAt(file, k) = Cardinality({j \in Lines!NewLines(file) : j < k})
                   /\ Lines!LineAt(file, k) \in Nat
<1> DEFINE S == Lines!NewLines(file)
<1>1. S \in SUBSET (1 .. Len(file)) /\ Len(file) \in Nat BY ItemsAre DEF Lines!NewLines
<1>2. IsFiniteSet(1 .. Len(file)) BY <1>1, FS_Interval
<1>3. IsFiniteSet(S) BY <1>1, <1>2, FS_Subset
<1>4. \A T : Lines!Cardinality(T) = Cardinality(T) BY DEF Lines!Cardinality, Cardinality
<1>5. ASSUME NEW k
      PROVE  /\ IsFiniteSet({j \in S : j < k})
             /\ Lines!LineAt(file, k) = Cardinality({j \in S : j < k})
             /\ Lines!LineAt(file, k) \in Nat
  <2>1. IsFiniteSet({j \in S : j < k}) BY <1>3, FS_Subset
  <2>2. Cardinality({j \in S : j < k}) \in Nat BY <2>1, FS_CardinalityType
  <2> QED BY <1>4, <2>1, <2>2 DEF Lines!LineAt
<1>6. Lines!Cardinality(S) \in Nat BY <1>3, <1>4, FS_CardinalityType
<1>7. S \in SUBSET Int
  <2>1. 1 .. Len(file) \in SUBSET Int BY <1>1
  <2> QED BY <1>1, <2>1
<1> QED BY <1>3, <1>5, <1>6, <1>7

LEMMA LinesGrow ==
  ASSUME NEW file \in File, NEW j \in Lines!NewLines(file), NEW k \in Int, j < k
  PROVE  Lines!LineAt(file, j) < Lines!LineAt(file, k)
<1> DEFINE S == Lines!NewLines(file)
           J == {i \in S : i < j}
           K == {i \in S : i < k}
<1>1. S \in SUBSET Int /\ IsFiniteSet(J) /\ IsFiniteSet(K) BY NewLinesAre
<1>2. Lines!LineAt(file, j) = Cardinality(J) /\ Lines!LineAt(file, k) = Cardinality(K)
  BY NewLinesAre
<1>3. j \in K /\ j \notin J /\ J \in SUBSET K BY <1>1
<1> HIDE DEF J, K
<1>4. Cardinality(J) <= Cardinality(K) /\ Cardinality(J) # Cardinality(K) BY <1>1, <1>3, FS_Subset
<1>5. Cardinality(J) \in Nat /\ Cardinality(K) \in Nat BY <1>1, FS_CardinalityType
<1> QED BY <1>2, <1>4, <1>5

\* A file with enough newlines has every line up to there.
LEMMA EndIs ==
  ASSUME NEW file \in File, NEW l \in Nat, l < Lines!Cardinality(Lines!NewLines(file))
  PROVE  /\ Lines!EndOf(file, l) \in Lines!NewLines(file)
         /\ Lines!LineAt(file, Lines!EndOf(file, l)) = l
<1> DEFINE S == Lines!NewLines(file)
           n == Cardinality(S)
           at == [k \in S |-> Lines!LineAt(file, k)]
<1>1. S \in SUBSET Int /\ IsFiniteSet(S) BY NewLinesAre
<1>2. n \in Nat BY <1>1, FS_CardinalityType
<1>3. l < n BY DEF Lines!Cardinality, Cardinality
<1>4. ASSUME NEW k \in S PROVE Lines!LineAt(file, k) \in 0 .. n - 1
  <2> DEFINE K == {i \in S : i < k}
  <2>1. Lines!LineAt(file, k) = Cardinality(K) /\ Cardinality(K) \in Nat BY NewLinesAre
  <2>2. k \notin K /\ K \in SUBSET S BY <1>1
  <2> HIDE DEF K
  <2>3. Cardinality(K) <= n /\ Cardinality(K) # n BY <1>1, <2>2, FS_Subset
  <2> QED BY <1>2, <2>1, <2>3
<1> HIDE DEF n, S
<1>5. at \in Injection(S, 0 .. n - 1)
  <2>1. at \in [S -> 0 .. n - 1] BY <1>4
  <2>2. ASSUME NEW j \in S, NEW k \in S, at[j] = at[k] PROVE j = k
    <3>1. ~(j < k) /\ ~(k < j)
      <4>1. at[j] \in Int /\ at[k] \in Int BY <1>2, <2>1
      <4>2. j < k => at[j] < at[k] BY <1>1, LinesGrow DEF S
      <4>3. k < j => at[k] < at[j] BY <1>1, LinesGrow DEF S
      <4> QED BY <2>2, <4>1, <4>2, <4>3
    <3>2. j \in Int /\ k \in Int BY <1>1
    <3> QED BY <3>1, <3>2
  <2> QED BY <2>1, <2>2, Fun_IsInj
<1>6. IsFiniteSet(0 .. n - 1) /\ Cardinality(0 .. n - 1) = n BY <1>2, FS_Interval
<1>7. at \in Surjection(S, 0 .. n - 1) BY <1>5, <1>6, FS_Injection DEF n
<1>8. \E k \in S : Lines!LineAt(file, k) = l
  <2>1. l \in 0 .. n - 1 BY <1>2, <1>3
  <2>2. PICK k \in S : at[k] = l BY <1>7, <2>1 DEF Surjection
  <2> QED BY <2>2
<1> QED BY <1>8 DEF Lines!EndOf, S

\* What append_to_line copies: the file, if need be with more newlines, and the chunk in it.
LEMMA PaddedIs ==
  ASSUME NEW file \in File, NEW l \in Nat
  PROVE  LET whole == Lines!Padded(file, l) IN
         /\ whole \in File /\ Len(whole) >= Len(file)
         /\ \A k \in 1 .. Len(file) : whole[k] = file[k]
         /\ \A k \in Len(file) + 1 .. Len(whole) : whole[k] = Lines!NewLine
         /\ l < Lines!Cardinality(Lines!NewLines(whole))
<1> DEFINE S == Lines!NewLines(file)
           c == Lines!Cardinality(S)
           more == IF c <= l THEN l + 1 - c ELSE 0
           pad == [k \in 1 .. more |-> Lines!NewLine]
           whole == Lines!Padded(file, l)
           W == Lines!NewLines(whole)
<1>1. S \in SUBSET (1 .. Len(file)) /\ Len(file) \in Nat BY ItemsAre DEF Lines!NewLines
<1>2. IsFiniteSet(S) /\ c \in Nat BY NewLinesAre
<1>3. more \in Nat /\ l < c + more BY <1>2
<1> HIDE DEF c, more
<1>4. pad \in File /\ Len(pad) = more BY <1>3 DEF File
<1>5. whole = file \o pad BY DEF Lines!Padded, c, more
<1> HIDE DEF pad, whole
<1>6. /\ whole \in File /\ Len(whole) = Len(file) + more
      /\ \A k \in 1 .. Len(file) + more : whole[k] = IF k <= Len(file) THEN file[k] ELSE pad[k - Len(file)]
  BY <1>4, <1>5, ConcatProperties DEF File
<1>7. Len(whole) >= Len(file) /\ \A k \in 1 .. Len(file) : whole[k] = file[k]
  BY <1>1, <1>3, <1>6
<1>8. ASSUME NEW k \in Len(file) + 1 .. Len(whole) PROVE whole[k] = Lines!NewLine
  <2>1. k \in 1 .. Len(file) + more /\ ~(k <= Len(file)) /\ k - Len(file) \in 1 .. more
    BY <1>1, <1>3, <1>6
  <2> QED BY <1>6, <2>1 DEF pad
<1>9. l < Lines!Cardinality(W)
  <2> DEFINE P == Len(file) + 1 .. Len(file) + more
  <2>1. IsFiniteSet(P) /\ Cardinality(P) = more
    <3> DEFINE from == Len(file) + 1
               upto == Len(file) + more
    <3>1. from \in Int /\ upto \in Int BY <1>1, <1>3
    <3>2. from > upto => more = 0 BY <1>1, <1>3
    <3>3. upto - from + 1 = more BY <1>1, <1>3
    <3> HIDE DEF from, upto
    <3>4. IsFiniteSet(from .. upto)
          /\ Cardinality(from .. upto) = IF from > upto THEN 0 ELSE upto - from + 1
      BY <3>1, FS_Interval
    <3>5. Cardinality(from .. upto) = more BY <3>2, <3>3, <3>4
    <3> QED BY <3>4, <3>5 DEF from, upto
  <2>2. W = S \cup P
    <3>1. DOMAIN whole = 1 .. Len(file) + more /\ DOMAIN file = 1 .. Len(file) BY <1>6, ItemsAre
    <3>2. ASSUME NEW k \in W PROVE k \in S \cup P
      <4>1. k \in 1 .. Len(file) + more /\ whole[k] = Lines!NewLine BY <3>1 DEF Lines!NewLines
      <4>2. CASE k <= Len(file)
        <5>1. k \in 1 .. Len(file) BY <1>1, <4>1, <4>2
        <5> QED BY <1>7, <3>1, <4>1, <5>1 DEF Lines!NewLines
      <4>3. CASE ~(k <= Len(file)) BY <1>1, <1>3, <4>1, <4>3
      <4> QED BY <4>2, <4>3
    <3>3. ASSUME NEW k \in S PROVE k \in W
      <4>1. k \in 1 .. Len(file) /\ file[k] = Lines!NewLine BY <3>1 DEF Lines!NewLines
      <4>2. k \in 1 .. Len(file) + more BY <1>1, <1>3, <4>1
      <4> QED BY <1>7, <3>1, <4>1, <4>2 DEF Lines!NewLines
    <3>4. ASSUME NEW k \in P PROVE k \in W
      <4>1. k \in 1 .. Len(file) + more BY <1>1, <1>3
      <4> QED BY <1>6, <1>8, <3>1, <4>1 DEF Lines!NewLines
    <3> QED BY <3>2, <3>3, <3>4
  <2>3. S \cap P = {} BY <1>1, <1>3
  <2> HIDE DEF P, W, S
  <2>4. Cardinality(S \cap P) = 0 BY <2>3, FS_EmptySet
  <2>5. Cardinality(W) = Cardinality(S) + more
    <3>1. Cardinality(S) \in Nat BY <1>2, FS_CardinalityType
    <3>2. Cardinality(S \cup P) = Cardinality(S) + Cardinality(P) - Cardinality(S \cap P)
      BY <1>2, <2>1, FS_Union
    <3> QED BY <1>3, <2>1, <2>2, <2>4, <3>1, <3>2
  <2>6. Lines!Cardinality(W) = Cardinality(W) /\ c = Cardinality(S)
    BY DEF c, Lines!Cardinality, Cardinality
  <2> QED BY <1>3, <2>5, <2>6
<1> HIDE DEF W
<1>10. /\ whole \in File /\ Len(whole) >= Len(file)
       /\ \A k \in 1 .. Len(file) : whole[k] = file[k]
       /\ \A k \in Len(file) + 1 .. Len(whole) : whole[k] = Lines!NewLine
       /\ l < Lines!Cardinality(W)
  BY <1>6, <1>7, <1>8, <1>9
<1> QED BY ONLY <1>10, Zenon DEF whole, W

LEMMA WithChunkIs ==
  ASSUME LineOf \in [Producers -> Nat], NEW file \in File, NEW x \in Chunk, x[2] # 0
  PROVE  LET l == LineOf[x[1]]
             whole == Lines!Padded(file, l)
             e == Lines!EndOf(whole, l)
         IN  /\ whole \in File /\ e \in Lines!NewLines(whole) /\ Lines!LineAt(whole, e) = l
             /\ Lines!WithChunk(file, x) \in File
             /\ Inserted(Lines!WithChunk(file, x), whole, e, x)
             /\ Len(Lines!WithChunk(file, x)) > Len(file)
<1> DEFINE l == LineOf[x[1]]
           whole == Lines!Padded(file, l)
           e == Lines!EndOf(whole, l)
           t == Lines!WithChunk(file, x)
           A == SubSeq(whole, 1, e - 1)
           B == SubSeq(whole, e, Len(whole))
<1>1. l \in Nat BY DEF Chunk
<1> HIDE DEF l
<1>2. whole \in File /\ Len(whole) >= Len(file) /\ l < Lines!Cardinality(Lines!NewLines(whole))
  BY <1>1, PaddedIs
<1>3. Len(file) \in Nat /\ Len(whole) \in Nat BY <1>2, ItemsAre
<1>4. t = A \o <<x>> \o B BY DEF Lines!WithChunk, Lines!IsWhole, Lines!InsertAt, l
<1> HIDE DEF whole, t
<1>5. e \in Lines!NewLines(whole) /\ Lines!LineAt(whole, e) = l BY <1>1, <1>2, EndIs
<1> HIDE DEF e
<1>6. e \in 1 .. Len(whole) BY <1>2, <1>5, ItemsAre DEF Lines!NewLines
<1>7. \A k \in 1 .. Len(whole) : whole[k] \in Chunk \cup {Lines!NewLine} BY <1>2, ItemsAre
<1>8. A \in File /\ Len(A) = e - 1 /\ \A k \in 1 .. e - 1 : A[k] = whole[k]
  <2>1. \A k \in 1 .. e - 1 : whole[k] \in Chunk \cup {Lines!NewLine} BY <1>3, <1>6, <1>7
  <2> HIDE DEF A
  <2>2. /\ A \in File /\ Len(A) = IF 1 <= e - 1 THEN e - 1 - 1 + 1 ELSE 0
        /\ \A k \in 1 .. e - 1 - 1 + 1 : A[k] = whole[1 + k - 1]
    BY <1>6, <2>1, SubSeqProperties DEF File, A
  <2>3. \A k \in 1 .. e - 1 : k \in 1 .. e - 1 - 1 + 1 /\ 1 + k - 1 = k BY <1>6
  <2>4. Len(A) = e - 1 BY <1>6, <2>2
  <2> QED BY <2>2, <2>3, <2>4
<1>9. /\ B \in File /\ Len(B) = Len(whole) - e + 1
      /\ \A k \in 1 .. Len(whole) - e + 1 : B[k] = whole[e + k - 1]
  <2>1. \A k \in e .. Len(whole) : whole[k] \in Chunk \cup {Lines!NewLine} BY <1>3, <1>6, <1>7
  <2> HIDE DEF B
  <2> QED BY <1>3, <1>6, <2>1, SubSeqProperties DEF File, B
<1>10. <<x>> \in File /\ Len(<<x>>) = 1 /\ <<x>>[1] = x BY DEF File
<1> HIDE DEF A, B
<1> DEFINE C == A \o <<x>>
<1>11. /\ C \in File /\ Len(C) = e
       /\ \A k \in 1 .. e : C[k] = IF k <= e - 1 THEN A[k] ELSE <<x>>[k - (e - 1)]
  <2>1. /\ C \in File /\ Len(C) = Len(A) + 1
        /\ \A k \in 1 .. Len(A) + 1 : C[k] = IF k <= Len(A) THEN A[k] ELSE <<x>>[k - Len(A)]
    BY <1>8, <1>10, ConcatProperties DEF File
  <2>2. Len(A) = e - 1 /\ Len(A) + 1 = e BY <1>6, <1>8
  <2> QED BY <2>1, <2>2
<1> HIDE DEF C
<1>12. /\ t \in File /\ Len(t) = Len(whole) + 1
       /\ \A k \in 1 .. Len(whole) + 1 : t[k] = IF k <= e THEN C[k] ELSE B[k - e]
  <2>1. t = C \o B BY <1>4 DEF C
  <2>2. /\ t \in File /\ Len(t) = Len(C) + Len(B)
        /\ \A k \in 1 .. Len(C) + Len(B) : t[k] = IF k <= Len(C) THEN C[k] ELSE B[k - Len(C)]
    BY <1>9, <1>11, <2>1, ConcatProperties DEF File
  <2>3. Len(C) + Len(B) = Len(whole) + 1 BY <1>3, <1>6, <1>9, <1>11
  <2> QED BY <1>11, <2>2, <2>3
<1>13. Inserted(t, whole, e, x)
  <2>1. t[e] = x
    <3>1. e \in 1 .. Len(whole) + 1 /\ e <= e /\ ~(e <= e - 1) /\ e - (e - 1) = 1 /\ e \in 1 .. e
      BY <1>3, <1>6
    <3> QED BY <1>10, <1>11, <1>12, <3>1
  <2>2. ASSUME NEW k \in 1 .. Len(whole), k < e PROVE t[k] = whole[k]
    <3>1. k \in 1 .. Len(whole) + 1 /\ k <= e /\ k <= e - 1 /\ k \in 1 .. e /\ k \in 1 .. e - 1
      BY <1>3, <1>6, <2>2
    <3> QED BY <1>8, <1>11, <1>12, <3>1
  <2>3. ASSUME NEW k \in 1 .. Len(whole), k >= e PROVE t[k + 1] = whole[k]
    <3> DEFINE j == k + 1
               i == j - e
    <3>1. j \in 1 .. Len(whole) + 1 /\ ~(j <= e) BY <1>3, <1>6, <2>3
    <3>2. i \in 1 .. Len(whole) - e + 1 /\ e + i - 1 = k BY <1>3, <1>6, <2>3
    <3> HIDE DEF j
    <3>3. t[j] = B[i] BY <1>12, <3>1
    <3> HIDE DEF i
    <3>4. B[i] = whole[k] BY <1>9, <3>2
    <3> QED BY <3>3, <3>4 DEF j
  <2>4. e \in 1 .. Len(whole) + 1 BY <1>3, <1>6
  <2> QED BY <1>12, <2>1, <2>2, <2>3, <2>4 DEF Inserted
<1>14. Len(t) > Len(file) BY <1>2, <1>3, <1>12
<1> QED BY <1>2, <1>5, <1>12, <1>13, <1>14 DEF l, whole, e, t

\* What is behind an insertion moves by a place, and stays in its line.
LEMMA LinesInserted ==
  ASSUME NEW s \in File, NEW t \in File, NEW e \in Int, NEW x \in Chunk, Inserted(t, s, e, x),
         NEW k \in Int
  PROVE  /\ k <= e => Lines!LineAt(t, k) = Lines!LineAt(s, k)
         /\ k >= e => Lines!LineAt(t, k + 1) = Lines!LineAt(s, k)
<1> DEFINE S == Lines!NewLines(s)
           T == Lines!NewLines(t)
<1>0. x # Lines!NewLine BY NoNewLine
<1>1. /\ Len(s) \in Nat /\ DOMAIN s = 1 .. Len(s)
      /\ DOMAIN t = 1 .. Len(s) + 1 /\ e \in 1 .. Len(s) + 1 /\ t[e] = x
  BY ItemsAre DEF Inserted
<1>2. ASSUME NEW j \in S
      PROVE  /\ j \in Int
             /\ j < e => j \in T
             /\ j >= e => j + 1 \in T
  <2>1. j \in 1 .. Len(s) /\ s[j] = Lines!NewLine BY <1>1 DEF Lines!NewLines
  <2>2. j \in Int /\ j \in 1 .. Len(s) + 1 /\ j + 1 \in 1 .. Len(s) + 1 BY <1>1, <2>1
  <2> QED BY <1>1, <2>1, <2>2 DEF Lines!NewLines, Inserted
<1>3. ASSUME NEW j \in T
      PROVE  /\ j \in Int /\ j # e
             /\ j < e => j \in S
             /\ j > e => j - 1 \in S
  <2>1. j \in 1 .. Len(s) + 1 /\ t[j] = Lines!NewLine BY <1>1 DEF Lines!NewLines
  <2>2. j \in Int /\ j # e BY <1>0, <1>1, <2>1
  <2>3. CASE j < e
    <3>1. j \in 1 .. Len(s) BY <1>1, <2>1, <2>3
    <3> QED BY <1>1, <2>1, <2>2, <2>3, <3>1 DEF Lines!NewLines, Inserted
  <2>4. CASE j > e
    <3> DEFINE i == j - 1
    <3>1. i \in 1 .. Len(s) /\ i >= e /\ i + 1 = j BY <1>1, <2>1, <2>4
    <3> HIDE DEF i
    <3>2. s[i] = Lines!NewLine BY <2>1, <3>1 DEF Inserted
    <3>3. i \in S BY <1>1, <3>1, <3>2 DEF Lines!NewLines
    <3> QED BY <2>2, <2>4, <3>3 DEF i
  <2> QED BY <2>2, <2>3, <2>4
<1>4. ASSUME NEW i \in Int
      PROVE  /\ Lines!LineAt(s, i) = Cardinality({j \in S : j < i})
             /\ Lines!LineAt(t, i) = Cardinality({j \in T : j < i})
             /\ IsFiniteSet({j \in S : j < i})
  BY NewLinesAre
<1> HIDE DEF S, T
<1>5. ASSUME k <= e PROVE Lines!LineAt(t, k) = Lines!LineAt(s, k)
  <2>1. {j \in S : j < k} = {j \in T : j < k} BY <1>2, <1>3, <1>5
  <2> QED BY <1>4, <2>1
<1>6. ASSUME k >= e PROVE Lines!LineAt(t, k + 1) = Lines!LineAt(s, k)
  <2> DEFINE A == {j \in S : j < k}
             B == {j \in T : j < k + 1}
             f == [j \in A |-> IF j < e THEN j ELSE j + 1]
  <2>1. ASSUME NEW j \in A PROVE f[j] \in B /\ (j < e => f[j] = j) /\ (j >= e => f[j] = j + 1)
    BY <1>2, <1>6
  <2>2. ASSUME NEW i \in A, NEW j \in A, f[i] = f[j] PROVE i = j
    BY <1>2, <2>1, <2>2
  <2>3. ASSUME NEW j \in B PROVE \E i \in A : f[i] = j
    <3>1. CASE j < e BY <1>2, <1>3, <1>6, <3>1
    <3>2. CASE j > e
      <4>1. j - 1 \in A /\ j - 1 >= e BY <1>3, <3>2
      <4>2. f[j - 1] = j BY <1>3, <2>1, <4>1
      <4> QED BY <4>1, <4>2
    <3> QED BY <1>3, <3>1, <3>2
  <2>4. f \in [A -> B] BY <2>1
  <2>5. f \in Bijection(A, B) BY <2>2, <2>3, <2>4, Fun_IsBij
  <2>6. ExistsBijection(A, B) BY <2>5 DEF ExistsBijection
  <2>7. IsFiniteSet(A) /\ Lines!LineAt(s, k) = Cardinality(A) BY <1>4
  <2>8. k + 1 \in Int OBVIOUS
  <2>9. Lines!LineAt(t, k + 1) = Cardinality(B) BY <1>4, <2>8
  <2> HIDE DEF A, B
  <2> QED BY <2>6, <2>7, <2>9, FS_Bijection
<1> QED BY <1>5, <1>6

\* More newlines at the end change nothing before them.
LEMMA Lengthened ==
  ASSUME NEW s \in File, NEW t \in File, Len(t) >= Len(s), \A k \in 1 .. Len(s) : t[k] = s[k],
         \A k \in Len(s) + 1 .. Len(t) : t[k] = Lines!NewLine, InLine(s)
  PROVE  /\ InLine(t)
         /\ \A p, m, n : Lines!InOrder(p, s, m, n) => Lines!InOrder(p, t, m, n)
<1>1. /\ Len(s) \in Nat /\ DOMAIN s = 1 .. Len(s)
      /\ Len(t) \in Nat /\ DOMAIN t = 1 .. Len(t)
  BY ItemsAre
<1>2. \A k \in 1 .. Len(s) : k \in 1 .. Len(t) BY <1>1
<1>3. \A k \in 1 .. Len(t) : k \in 1 .. Len(s) \/ t[k] = Lines!NewLine BY <1>1
<1>4. ASSUME NEW k \in 1 .. Len(s) PROVE Lines!LineAt(t, k) = Lines!LineAt(s, k)
  <2>1. ASSUME NEW j \in Lines!NewLines(s) PROVE j \in Lines!NewLines(t)
    BY <1>1, <1>2 DEF Lines!NewLines
  <2>2. ASSUME NEW j \in Lines!NewLines(t), j < k PROVE j \in Lines!NewLines(s)
    <3>1. j \in 1 .. Len(t) /\ t[j] = Lines!NewLine BY <1>1 DEF Lines!NewLines
    <3>2. j \in 1 .. Len(s) BY <1>1, <2>2, <3>1
    <3> QED BY <1>1, <3>1, <3>2 DEF Lines!NewLines
  <2>3. {j \in Lines!NewLines(t) : j < k} = {j \in Lines!NewLines(s) : j < k} BY <2>1, <2>2
  <2> QED BY <2>3, NewLinesAre
<1>5. InLine(t)
  <2> SUFFICES ASSUME NEW k \in DOMAIN t, t[k] # Lines!NewLine
               PROVE  t[k][1] \in Producers /\ Lines!LineAt(t, k) = LineOf[t[k][1]]
    BY DEF InLine
  <2>1. k \in 1 .. Len(s) /\ t[k] = s[k] BY <1>1, <1>3
  <2> QED BY <1>1, <1>4, <2>1 DEF InLine
<1>6. ASSUME NEW p
      PROVE  Lines!PlacesOf(p, t) = Lines!PlacesOf(p, s)
             /\ \A k \in Lines!PlacesOf(p, s) : t[k] = s[k]
  BY <1>1, <1>2, <1>3 DEF Lines!PlacesOf
<1>7. ASSUME NEW p, NEW m, NEW n, Lines!InOrder(p, s, m, n) PROVE Lines!InOrder(p, t, m, n)
  <2>1. {t[k][2] : k \in Lines!PlacesOf(p, t)} = {s[k][2] : k \in Lines!PlacesOf(p, s)}
    BY <1>6
  <2> QED BY <1>6, <1>7, <2>1 DEF Lines!InOrder
<1> QED BY <1>5, <1>7

\* A chunk put at the end of its line is behind the others of its producer.
LEMMA EndIsLast ==
  ASSUME NEW s \in File, InLine(s), NEW p, NEW e \in Lines!NewLines(s),
         Lines!LineAt(s, e) = LineOf[p], NEW k \in Lines!PlacesOf(p, s)
  PROVE  k < e
<1>1. k \in DOMAIN s /\ e \in DOMAIN s /\ s[k] # Lines!NewLine /\ s[e] = Lines!NewLine /\ s[k][1] = p
  BY DEF Lines!PlacesOf, Lines!NewLines
<1>2. k \in Int /\ e \in Int /\ k # e BY <1>1, ItemsAre
<1>3. Lines!LineAt(s, k) = LineOf[p] BY <1>1 DEF InLine
<1>4. Lines!LineAt(s, k) \in Nat BY NewLinesAre
<1>5. ~(e < k) BY <1>2, <1>3, <1>4, LinesGrow
<1> QED BY <1>2, <1>5

LEMMA ChunkInLine ==
  ASSUME LineOf \in [Producers -> Nat], NEW s \in File, NEW t \in File, NEW e \in Int,
         NEW x \in Chunk, Inserted(t, s, e, x), InLine(s), Lines!LineAt(s, e) = LineOf[x[1]]
  PROVE  InLine(t)
<1> SUFFICES ASSUME NEW k \in DOMAIN t, t[k] # Lines!NewLine
             PROVE  t[k][1] \in Producers /\ Lines!LineAt(t, k) = LineOf[t[k][1]]
  BY DEF InLine
<1>1. /\ Len(s) \in Nat /\ DOMAIN s = 1 .. Len(s) /\ k \in 1 .. Len(s) + 1
      /\ e \in 1 .. Len(s) + 1 /\ t[e] = x
  BY ItemsAre DEF Inserted
<1>2. CASE k = e BY <1>1, <1>2, LinesInserted DEF Chunk
<1>3. CASE k < e
  <2>1. k \in 1 .. Len(s) /\ t[k] = s[k] BY <1>1, <1>3 DEF Inserted
  <2>2. Lines!LineAt(t, k) = Lines!LineAt(s, k) BY <1>1, <1>3, LinesInserted
  <2> QED BY <1>1, <2>1, <2>2 DEF InLine
<1>4. CASE k > e
  <2> DEFINE j == k - 1
  <2>1. j \in 1 .. Len(s) /\ j \in Int /\ j >= e /\ j + 1 = k BY <1>1, <1>4
  <2> HIDE DEF j
  <2>2. t[k] = s[j] BY <2>1 DEF Inserted
  <2>3. Lines!LineAt(t, j + 1) = Lines!LineAt(s, j) BY <2>1, LinesInserted
  <2> QED BY <1>1, <2>1, <2>2, <2>3 DEF InLine
<1> QED BY <1>1, <1>2, <1>3, <1>4

\* So the copy is the output with the chunk behind the others of its producer, in its line.
LEMMA ChunkAdded ==
  ASSUME LineOf \in [Producers -> Nat], NEW file \in File, NEW x \in Chunk, x[2] # 0, InLine(file)
  PROVE  LET t == Lines!WithChunk(file, x) IN
         /\ InLine(t)
         /\ \A p, m, n : x[1] # p /\ Lines!InOrder(p, file, m, n) => Lines!InOrder(p, t, m, n)
         /\ \A n \in Nat : x[2] = n + 1 /\ Lines!InOrder(x[1], file, 1, n)
              => Lines!InOrder(x[1], t, 1, n + 1)
<1> DEFINE l == LineOf[x[1]]
           s == Lines!Padded(file, l)
           e == Lines!EndOf(s, l)
           t == Lines!WithChunk(file, x)
<1>1. /\ s \in File /\ e \in Lines!NewLines(s) /\ Lines!LineAt(s, e) = l
      /\ t \in File /\ Inserted(t, s, e, x)
  BY WithChunkIs
<1>2. l \in Nat BY DEF Chunk
<1>3. /\ Len(s) >= Len(file)
      /\ \A k \in 1 .. Len(file) : s[k] = file[k]
      /\ \A k \in Len(file) + 1 .. Len(s) : s[k] = Lines!NewLine
  BY <1>2, PaddedIs
<1> HIDE DEF s, e, t
<1>4. InLine(s) /\ \A p, m, n : Lines!InOrder(p, file, m, n) => Lines!InOrder(p, s, m, n)
  BY <1>1, <1>3, Lengthened
<1>5. e \in Int BY <1>1, NewLinesAre
<1>6. InLine(t) BY <1>1, <1>4, <1>5, ChunkInLine
<1>7. ASSUME NEW p, NEW m, NEW n, x[1] # p, Lines!InOrder(p, file, m, n)
      PROVE  Lines!InOrder(p, t, m, n)
  BY <1>1, <1>4, <1>5, <1>7, OthersInOrder
<1>8. ASSUME NEW n \in Nat, x[2] = n + 1, Lines!InOrder(x[1], file, 1, n)
      PROVE  Lines!InOrder(x[1], t, 1, n + 1)
  <2>1. x = <<x[1], n + 1>> BY <1>8 DEF Chunk
  <2>2. \A k \in Lines!PlacesOf(x[1], s) : k < e BY <1>1, <1>4, EndIsLast
  <2>3. Lines!InOrder(x[1], s, 1, n) BY <1>4, <1>8
  <2> DEFINE p == x[1]
  <2>4. Inserted(t, s, e, <<p, n + 1>>) BY <1>1, <2>1
  <2>5. \A k \in Lines!PlacesOf(p, s) : k < e BY <2>2
  <2>6. Lines!InOrder(p, s, 1, n) BY <2>3
  <2> HIDE DEF p
  <2>7. 1 \in Nat /\ 1 <= n + 1 OBVIOUS
  <2>8. Lines!InOrder(p, t, 1, n + 1) BY <1>1, <1>5, <2>4, <2>5, <2>6, <2>7, NextInOrder
  <2> QED BY <2>8 DEF p
<1> QED BY <1>6, <1>7, <1>8 DEF t

HoldersByRecord ==
  \A p : Lines!Holders(p) = {c \in Consumers : record[c] # <<>> /\ record[c][1][1] = p}

LEMMA HoldersAre == LinesTypes => HoldersByRecord
<1> SUFFICES ASSUME LinesTypes, NEW p
             PROVE  Lines!Holders(p) = {c \in Consumers : record[c] # <<>> /\ record[c][1][1] = p}
  BY DEF HoldersByRecord
<1> SUFFICES ASSUME NEW c \in Consumers
             PROVE  Lines!PlacesOf(p, record[c]) # {} <=> record[c] # <<>> /\ record[c][1][1] = p
  BY DEF Lines!Holders
<1>1. CASE record[c] = <<>>
  <2>1. DOMAIN record[c] = {} BY <1>1
  <2> QED BY <1>1, <2>1 DEF Lines!PlacesOf
<1>2. CASE record[c] # <<>>
  <2>1. PICK x \in Chunk : record[c] = <<x>> BY <1>2 DEF LinesTypes
  <2>2. DOMAIN record[c] = {1} /\ record[c][1] = x BY <2>1
  <2> QED BY <1>2, <2>2, NoNewLine DEF Lines!PlacesOf
<1> QED BY <1>1, <1>2

LEMMA EmptyInOrder == ASSUME NEW p, NEW n \in Nat PROVE Lines!InOrder(p, <<>>, n + 1, n)
<1>1. Lines!PlacesOf(p, <<>>) = {} BY DEF Lines!PlacesOf
<1>2. n + 1 .. n = {} OBVIOUS
<1> QED BY <1>1, <1>2 DEF Lines!InOrder

LEMMA LinesInit == Lines!Init => LinesInv
<1> SUFFICES ASSUME Lines!Init PROVE LinesInv OBVIOUS
<1> USE DEF Lines!Init
<1>1. sent_f \in [Producers -> Nat] /\ \A p \in Producers : sent_f[p] = 0 OBVIOUS
<1>2. LinesTypes
  <2>1. <<>> \in File /\ <<>> \in Seq(Chunk) BY DEF File
  <2> QED BY <1>1, <2>1 DEF LinesTypes, Lines!Procs
<1>3. Turns BY DEF Turns, Lines!Procs
<1>7. Handed
  <2>1. \A c \in Consumers : record[c] = <<>> OBVIOUS
  <2>2. ASSUME NEW p \in Producers PROVE \E t \in 0 .. sent_f[p] : Taken(p, t)
    <3>1. Lines!InOrder(p, <<>>, 0 + 1, 0) BY EmptyInOrder
    <3>2. Taken(p, 0) BY <1>1, <2>1, <3>1 DEF Taken
    <3> QED BY <1>1, <3>2
  <2> QED BY <2>1, <2>2 DEF Handed
<1>4. OneHolds /\ Copied BY DEF OneHolds, Copied, Lines!Procs
<1>5. InLine(output) BY DEF InLine
<1>6. ASSUME NEW p \in Producers PROVE \E w, t \in 0 .. sent_f[p] : Split(p, w, t)
  <2>1. Lines!Holders(p) = {} BY <1>2, HoldersAre DEF HoldersByRecord
  <2>2. Lines!InOrder(p, <<>>, 0 + 1, 0) BY EmptyInOrder
  <2>3. Lines!InOrder(p, output, 1, 0) /\ Lines!InOrder(p, fifo, 0 + 1, 0) BY <2>2
  <2>4. Split(p, 0, 0) BY <1>1, <2>1, <2>3 DEF Split
  <2> QED BY <1>1, <2>4
<1> QED BY <1>2, <1>3, <1>4, <1>5, <1>6, <1>7 DEF LinesInv

\* Who puts a record down holds none.
LEMMA HandedKept ==
  ASSUME LinesInv, UNCHANGED <<sent_f, fifo, torn>>,
         \A c \in Consumers : record'[c] \in {record[c], <<>>}
  PROVE  (~torn => Handed)'
<1> SUFFICES ASSUME ~torn PROVE Handed' OBVIOUS
<1>1. Handed BY DEF LinesInv
<1>2. \A p, t : Taken(p, t) => Taken(p, t)' BY DEF Taken
<1> QED BY <1>1, <1>2 DEF Handed

\* a record that is held is a chunk
LEMMA HeldIsChunk ==
  ASSUME LinesTypes, NEW c \in Consumers, record[c] # <<>>
  PROVE  record[c][1] \in Chunk /\ record[c] = <<record[c][1]>>
<1>1. PICK x \in Chunk : record[c] = <<x>> BY DEF LinesTypes
<1> QED BY <1>1

\* and whole, before there are parts
LEMMA HeldIsWhole ==
  ASSUME LinesInv, ~torn, NEW c \in Consumers, record[c] # <<>>
  PROVE  record[c][1][2] # 0
<1>1. record[c][1] \in Chunk BY HeldIsChunk DEF LinesInv
<1> DEFINE p == record[c][1][1]
<1>2. p \in Producers BY <1>1 DEF Chunk
<1>3. PICK t \in 0 .. sent_f[p] : Taken(p, t) BY <1>2 DEF LinesInv, Handed
<1>4. record[c][1][2] \in 1 .. t BY <1>3 DEF Taken
<1> QED BY <1>4

LEMMA OpensStep == ASSUME LinesInv, NEW p \in Lines!Procs, Lines!Opens(p) PROVE LinesInv'
<1> USE DEF LinesInv
<1>1. UNCHANGED <<fits, sent_f, fifo, output, record, tmp, torn, spoiled>> BY DEF Lines!Opens
<1> DEFINE Phase == {"off", "opening", "truncate", "running", "midway", "copy", "write", "done", "killed"}
<1>2. /\ pc_f' \in [Lines!Procs -> Phase]
      /\ \A c \in Consumers : pc_f'[c] \in {"copy", "write"} \/ pc_f[c] \in {"copy", "write"}
           => pc_f'[c] = pc_f[c]
  <2>0. pc_f \in [Lines!Procs -> Phase] /\ pc_f[p] = "off" BY DEF LinesTypes, Lines!Opens
  <2>1. CASE pc_f' = [pc_f EXCEPT ![p] = "opening"] BY <2>0, <2>1
  <2>2. ASSUME NEW waiting, waiting = {q \in Lines!OtherEnd(p) : pc_f[q] = "opening"},
               pc_f' = [q \in Lines!Procs |->
                          CASE q \notin {p} \cup waiting -> pc_f[q]
                            [] q \in {p} \cup waiting /\ q \in Producers -> "running"
                            [] OTHER -> "truncate"]
        PROVE  /\ pc_f' \in [Lines!Procs -> Phase]
               /\ \A c \in Consumers : pc_f'[c] \in {"copy", "write"} \/ pc_f[c] \in {"copy", "write"}
                    => pc_f'[c] = pc_f[c]
    <3>1. ASSUME NEW q \in Lines!Procs
          PROVE  /\ pc_f'[q] \in {pc_f[q], "running", "truncate"}
                 /\ q \notin {p} \cup waiting => pc_f'[q] = pc_f[q]
      BY <2>2
    <3>2. \A q \in Lines!Procs : pc_f[q] \in {"copy", "write"} => q \notin {p} \cup waiting
      BY <2>0, <2>2
    <3>3. \A c \in Consumers : c \in Lines!Procs BY DEF Lines!Procs
    <3>4. pc_f' \in [Lines!Procs -> Phase]
      <4>1. \A q \in Lines!Procs : pc_f'[q] \in Phase BY <2>0, <3>1
      <4>2. pc_f' = [q \in Lines!Procs |-> pc_f'[q]] BY <2>2
      <4> QED BY <4>1, <4>2
    <3>5. ASSUME NEW c \in Consumers, pc_f'[c] \in {"copy", "write"} \/ pc_f[c] \in {"copy", "write"}
          PROVE  pc_f'[c] = pc_f[c]
      BY <3>1, <3>2, <3>3, <3>5
    <3> QED BY <3>4, <3>5
  <2> QED BY <2>1, <2>2, <2>0 DEF Lines!Opens
<1>3. LinesTypes' BY <1>1, <1>2 DEF LinesTypes
<1>4. Turns' BY <1>1, <1>2 DEF Turns
<1>5. (~torn /\ ~spoiled => OneHolds /\ Copied /\ InLine(output))'
  <2>1. OneHolds => OneHolds' BY <1>1 DEF OneHolds
  <2>2. Copied => Copied' BY <1>1, <1>2 DEF Copied
  <2> QED BY <1>1, <2>1, <2>2 DEF InLine
<1>6. \A q, w, t : Split(q, w, t)' <=> Split(q, w, t) BY <1>1 DEF Split, Lines!Holders
<1>7. (~torn => Handed)' BY <1>1, HandedKept
<1> QED BY <1>1, <1>3, <1>4, <1>5, <1>6, <1>7

LEMMA TruncatesStep == ASSUME LinesInv, NEW c \in Consumers, Lines!Truncates(c) PROVE LinesInv'
<1> USE DEF LinesInv
<1>1. /\ pc_f[c] = "truncate" /\ pc_f' = [pc_f EXCEPT ![c] = "running"] /\ output' = <<>>
      /\ UNCHANGED <<fits, sent_f, fifo, record, tmp, torn>>
      /\ spoiled' = (spoiled \/ output # <<>> \/ \E d \in Consumers : record[d] # <<>>)
  BY DEF Lines!Truncates
<1>2. c \in Lines!Procs /\ Consumers \subseteq Lines!Procs BY DEF Lines!Procs
<1>3. LinesTypes'
  <2>1. <<>> \in File BY DEF File
  <2> QED BY <1>1, <1>2, <2>1 DEF LinesTypes
<1>4. \A d \in Consumers : pc_f'[d] \in {"copy", "write"} <=> pc_f[d] \in {"copy", "write"}
  BY <1>1, <1>2 DEF LinesTypes
<1>5. Turns' BY <1>1, <1>4 DEF Turns
<1>6. ASSUME ~spoiled' PROVE ~spoiled /\ output' = output /\ \A d \in Consumers : record[d] = <<>>
  BY <1>1, <1>6
<1>7. ASSUME ~spoiled', ~torn PROVE (OneHolds /\ Copied /\ InLine(output))'
  <2>1. OneHolds' BY <1>1, <1>6, <1>7 DEF OneHolds
  <2>2. Copied' BY <1>1, <1>4, <1>6, <1>7, <1>5 DEF Copied, Turns
  <2> QED BY <1>6, <1>7, <2>1, <2>2 DEF InLine
<1>8. ASSUME ~spoiled' PROVE \A q, w, t : Split(q, w, t)' <=> Split(q, w, t)
  BY <1>1, <1>6, <1>8 DEF Split, Lines!Holders
<1>9. (~torn => Handed)' BY <1>1, HandedKept
<1> QED BY <1>1, <1>3, <1>5, <1>6, <1>7, <1>8, <1>9

\* An append and a Head are insertions.
LEMMA AppendInserts ==
  ASSUME NEW s \in Seq(Chunk), NEW x \in Chunk
  PROVE  /\ Append(s, x) \in Seq(Chunk) /\ Len(s) + 1 \in Int
         /\ Inserted(Append(s, x), s, Len(s) + 1, x)
<1>1. Len(s) \in Nat BY LenProperties
<1>2. /\ Append(s, x) \in Seq(Chunk) /\ Len(Append(s, x)) = Len(s) + 1
      /\ \A i \in 1 .. Len(s) : Append(s, x)[i] = s[i]
      /\ Append(s, x)[Len(s) + 1] = x
  BY AppendProperties
<1> QED BY <1>1, <1>2 DEF Inserted

LEMMA HeadWasInserted ==
  ASSUME NEW s \in Seq(Chunk), s # <<>>
  PROVE  Head(s) \in Chunk /\ Tail(s) \in Seq(Chunk) /\ Inserted(s, Tail(s), 1, Head(s))
<1>1. /\ Head(s) \in Chunk /\ Tail(s) \in Seq(Chunk) /\ Len(Tail(s)) = Len(s) - 1
      /\ \A i \in 1 .. Len(Tail(s)) : Tail(s)[i] = s[i + 1]
  BY HeadTailProperties
<1>2. Len(s) \in Nat \ {0} BY EmptySeq
<1>3. s[1] = Head(s) BY <1>2
<1>4. Len(s) = Len(Tail(s)) + 1 /\ 1 \in 1 .. Len(s) BY <1>1, <1>2
<1>5. \A k \in 1 .. Len(Tail(s)) : ~(k < 1) BY <1>1, <1>2
<1> QED BY <1>1, <1>3, <1>4, <1>5 DEF Inserted

LEMMA SendsAChunk ==
  ASSUME LinesInv, NEW p \in Producers, sent_f' = [sent_f EXCEPT ![p] = @ + 1],
         fifo' = Append(fifo, <<p, sent_f'[p]>>),
         UNCHANGED <<fits, pc_f, output, record, tmp, torn, spoiled>>
  PROVE  LinesInv'
<1> USE DEF LinesInv
<1> DEFINE n == sent_f[p]
           x == <<p, n + 1>>
<1>1. n \in Nat /\ sent_f'[p] = n + 1 /\ \A q \in Producers \ {p} : sent_f'[q] = sent_f[q]
  BY DEF LinesTypes
<1>2. x \in Chunk /\ fifo' = Append(fifo, x) BY <1>1 DEF Chunk
<1>3. fifo \in Seq(Chunk) BY DEF LinesTypes
<1>4. /\ fifo' \in Seq(Chunk) /\ Len(fifo) + 1 \in Int
      /\ Inserted(fifo', fifo, Len(fifo) + 1, x)
  BY <1>2, <1>3, AppendInserts
<1>5. fifo \in File /\ fifo' \in File BY <1>3, <1>4, ChunksAreItems
<1>6. LinesTypes' BY <1>1, <1>4 DEF LinesTypes
<1>7. Turns' /\ (~torn /\ ~spoiled => OneHolds /\ Copied /\ InLine(output))'
  BY DEF Turns, OneHolds, Copied, InLine
<1>8. ASSUME NEW q \in Producers, NEW t \in 0 .. sent_f[q], Lines!InOrder(q, fifo, t + 1, sent_f[q])
      PROVE  Lines!InOrder(q, fifo', t + 1, sent_f'[q]) /\ t \in 0 .. sent_f'[q]
             /\ \A w \in 0 .. sent_f[q] : w \in 0 .. sent_f'[q]
  <2>1. sent_f[q] \in Nat /\ sent_f'[q] \in {sent_f[q], sent_f[q] + 1} BY <1>1 DEF LinesTypes
  <2>2. \A w \in 0 .. sent_f[q] : w \in 0 .. sent_f'[q] BY <2>1
  <2>3. Lines!InOrder(q, fifo', t + 1, sent_f'[q])
    <3>1. CASE q = p
      <4> DEFINE e == Len(fifo) + 1
                 m == t + 1
      <4>1. m \in Nat /\ m <= n + 1 BY <1>1, <3>1
      <4>2. \A k \in Lines!PlacesOf(p, fifo) : k < e
        <5>1. DOMAIN fifo = 1 .. Len(fifo) /\ Len(fifo) \in Nat BY <1>5, ItemsAre
        <5> QED BY <5>1 DEF Lines!PlacesOf
      <4>3. Lines!InOrder(p, fifo, m, n) BY <1>8, <3>1
      <4>4. e \in Int /\ Inserted(fifo', fifo, e, x) BY <1>4
      <4> HIDE DEF e, m, n
      <4>5. Lines!InOrder(p, fifo', m, n + 1) BY <1>1, <1>5, <4>1, <4>2, <4>3, <4>4, NextInOrder
      <4> QED BY <1>1, <3>1, <4>5 DEF m
    <3>2. CASE q # p
      <4>1. x[1] # q BY <3>2
      <4> HIDE DEF x
      <4>2. Lines!InOrder(q, fifo', t + 1, sent_f[q]) BY <1>4, <1>5, <1>8, <4>1, OthersInOrder
      <4> QED BY <1>1, <3>2, <4>2
    <3> QED BY <3>1, <3>2
  <2> QED BY <2>2, <2>3
<1>9. ASSUME ~torn, ~spoiled, NEW q \in Producers PROVE \E w, t \in 0 .. sent_f'[q] : Split(q, w, t)'
  <2>1. PICK w \in 0 .. sent_f[q], t \in 0 .. sent_f[q] : Split(q, w, t) BY <1>9
  <2>2. Lines!InOrder(q, fifo, t + 1, sent_f[q]) BY <2>1 DEF Split
  <2>3. /\ Lines!InOrder(q, fifo', t + 1, sent_f'[q])
        /\ t \in 0 .. sent_f'[q] /\ w \in 0 .. sent_f'[q]
    BY <1>8, <2>1, <2>2
  <2>4. Split(q, w, t)' BY <2>1, <2>3 DEF Split, Lines!Holders
  <2> QED BY <2>3, <2>4
<1>10. ASSUME ~torn PROVE Handed'
  <2>1. ASSUME NEW q \in Producers PROVE \E t \in 0 .. sent_f'[q] : Taken(q, t)'
    <3>1. PICK t \in 0 .. sent_f[q] : Taken(q, t) BY <1>10 DEF Handed
    <3>2. Lines!InOrder(q, fifo', t + 1, sent_f'[q]) /\ t \in 0 .. sent_f'[q]
      BY <1>8, <3>1 DEF Taken
    <3>3. Taken(q, t)' BY <3>1, <3>2 DEF Taken
    <3> QED BY <3>2, <3>3
  <2> QED BY <1>10, <2>1 DEF Handed
<1> QED BY <1>6, <1>7, <1>9, <1>10

\* Of parts only the types are kept.
LEMMA TornStep ==
  ASSUME LinesInv, torn', LinesTypes', \A c \in Consumers : record'[c] = record[c],
         \A c \in Consumers : pc_f'[c] \in {"copy", "write"} <=> pc_f[c] \in {"copy", "write"}
  PROVE  LinesInv'
BY DEF LinesInv, Turns

LEMMA SendsAPart ==
  ASSUME LinesInv, NEW p \in Producers, ~fits, torn',
         sent_f' \in {sent_f, [sent_f EXCEPT ![p] = @ + 1]},
         fifo' = Append(fifo, Lines!Part(p)), pc_f' \in {[pc_f EXCEPT ![p] = ph] : ph \in {"midway", "running"}},
         UNCHANGED <<fits, output, record, tmp, spoiled>>
  PROVE  LinesInv'
<1>1. p \in Lines!Procs /\ Consumers \subseteq Lines!Procs /\ p \notin Consumers
  BY ProgramsAssumption DEF Lines!Procs
<1>2. LinesTypes BY DEF LinesInv
<1>3. \A c \in Consumers : pc_f'[c] = pc_f[c] BY <1>1, <1>2 DEF LinesTypes
<1>4. Lines!Part(p) \in Chunk BY DEF Lines!Part, Chunk
<1>5. fifo' \in Seq(Chunk) BY <1>2, <1>4, AppendInserts DEF LinesTypes
<1>6. sent_f' \in [Producers -> Nat] BY <1>2 DEF LinesTypes
<1>7. pc_f' \in [Lines!Procs ->
                   {"off", "opening", "truncate", "running", "midway", "copy", "write", "done", "killed"}]
  BY <1>1, <1>2 DEF LinesTypes
<1>8. LinesTypes' BY <1>2, <1>5, <1>6, <1>7 DEF LinesTypes
<1> QED BY <1>3, <1>8, TornStep

LEMMA LinesSendsStep == ASSUME LinesInv, NEW p \in Producers, Lines!Sends(p) PROVE LinesInv'
<1>1. CASE Lines!Puts(p)
  <2>1. UNCHANGED <<fits, output, record, tmp, spoiled>> BY DEF Lines!Sends
  <2>2. CASE /\ sent_f' = [sent_f EXCEPT ![p] = @ + 1]
             /\ fifo' = Append(fifo, <<p, sent_f'[p]>>) /\ UNCHANGED <<pc_f, torn>>
    BY <2>1, <2>2, SendsAChunk
  <2>3. CASE /\ ~fits /\ fifo' = Append(fifo, Lines!Part(p)) /\ torn' = TRUE
             /\ sent_f' \in {sent_f, [sent_f EXCEPT ![p] = @ + 1]}
             /\ pc_f' \in {[pc_f EXCEPT ![p] = ph] : ph \in {"midway", "running"}}
    BY <2>1, <2>3, SendsAPart
  <2> QED BY <1>1, <2>2, <2>3 DEF Lines!Puts
<1>2. CASE /\ pc_f' = [pc_f EXCEPT ![p] = "done"] \/ pc_f' = [pc_f EXCEPT ![p] = "killed"]
           /\ UNCHANGED <<sent_f, fifo, torn>>
  <2> USE DEF LinesInv
  <2>1. UNCHANGED <<fits, sent_f, fifo, output, record, tmp, torn, spoiled>> BY <1>2 DEF Lines!Sends
  <2>2. p \in Lines!Procs /\ Consumers \subseteq Lines!Procs /\ p \notin Consumers
    BY ProgramsAssumption DEF Lines!Procs
  <2>3. \A c \in Consumers : pc_f'[c] = pc_f[c] BY <1>2, <2>2 DEF LinesTypes
  <2>4. LinesTypes'
    <3>1. LinesTypes OBVIOUS
    <3>2. pc_f' \in [Lines!Procs ->
                      {"off", "opening", "truncate", "running", "midway", "copy", "write", "done", "killed"}]
      BY ONLY <1>2, <2>2, <3>1 DEF LinesTypes
    <3> QED BY ONLY <1>2, <2>1, <3>1, <3>2 DEF LinesTypes
  <2>5. Turns' /\ (~torn /\ ~spoiled => OneHolds /\ Copied /\ InLine(output))'
    BY <2>1, <2>3 DEF Turns, OneHolds, Copied, InLine
  <2>6. \A q, w, t : Split(q, w, t)' <=> Split(q, w, t) BY <2>1 DEF Split, Lines!Holders
  <2>7. (~torn => Handed)' BY <2>1, HandedKept
  <2> QED BY <2>1, <2>4, <2>5, <2>6, <2>7
<1> QED BY <1>1, <1>2 DEF Lines!Sends

LEMMA ReceivesARecord ==
  ASSUME LinesInv, ~torn, NEW c \in Consumers, pc_f[c] = "running", fifo # <<>>,
         record' = [record EXCEPT ![c] = <<Head(fifo)>>], fifo' = Tail(fifo),
         spoiled' = (spoiled \/ \E d \in Consumers \ {c} : record[d] # <<>>),
         pc_f' = [pc_f EXCEPT ![c] = "copy"], UNCHANGED <<fits, sent_f, output, tmp, torn>>
  PROVE  LinesInv'
<1> USE DEF LinesInv
<1>1. fifo \in Seq(Chunk) /\ fifo \in File BY ChunksAreItems DEF LinesTypes
<1> DEFINE x == Head(fifo)
<1>2. x \in Chunk /\ fifo' \in Seq(Chunk) /\ Inserted(fifo, fifo', 1, x)
  BY <1>1, HeadWasInserted
<1>3. fifo' \in File BY <1>2, ChunksAreItems
<1> HIDE DEF x
<1>4. c \in Lines!Procs /\ Consumers \subseteq Lines!Procs BY DEF Lines!Procs
<1>5. LinesTypes'
  <2>1. record' = [record EXCEPT ![c] = <<x>>] BY DEF x
  <2> QED BY <1>2, <1>4, <2>1 DEF LinesTypes
<1>6. /\ record'[c] = <<x>> /\ pc_f'[c] = "copy"
      /\ \A d \in Consumers \ {c} : record'[d] = record[d] /\ pc_f'[d] = pc_f[d]
  BY <1>4 DEF LinesTypes, x
<1>7. Turns' BY <1>6 DEF Turns
<1>8. ASSUME ~spoiled' PROVE ~spoiled /\ \A d \in Consumers : record[d] = <<>>
  BY <1>8 DEF Turns
<1>9. ASSUME ~spoiled' PROVE (OneHolds /\ Copied /\ InLine(output))'
  <2>1. OneHolds' BY <1>6, <1>8, <1>9 DEF OneHolds
  <2>2. Copied'
    <3>1. \A d \in Consumers : pc_f'[d] # "write"
      <4>1. \A d \in Consumers : pc_f[d] # "write" BY <1>8, <1>9 DEF Turns
      <4> QED BY <1>6, <4>1
    <3> QED BY <3>1 DEF Copied
  <2> QED BY <1>8, <1>9, <2>1, <2>2 DEF InLine
<1>10. ASSUME ~spoiled', NEW q \in Producers PROVE \E w, t \in 0 .. sent_f'[q] : Split(q, w, t)'
  <2>1. PICK w \in 0 .. sent_f[q], t \in 0 .. sent_f[q] : Split(q, w, t) BY <1>8, <1>10
  <2>2. Lines!Holders(q) = {} BY <1>8, <1>10, HoldersAre DEF HoldersByRecord
  <2>3. t = w /\ Lines!InOrder(q, fifo, t + 1, sent_f[q]) /\ Lines!InOrder(q, output, 1, w)
    BY <2>1, <2>2 DEF Split
  <2>4. sent_f[q] \in Nat BY DEF LinesTypes
  <2>5. Lines!Holders(q)' = {d \in Consumers : record'[d] # <<>> /\ record'[d][1][1] = q}
    <3>1. (LinesTypes => HoldersByRecord)' BY HoldersAre, PTL
    <3> QED BY <1>5, <3>1 DEF HoldersByRecord
  <2>6. CASE x[1] # q
    <3>1. Lines!InOrder(q, fifo', t + 1, sent_f[q]) BY <1>1, <1>2, <1>3, <2>3, <2>6, OthersInOrder
    <3>2. Lines!Holders(q)' = {}
      <4>1. ASSUME NEW d \in Consumers PROVE ~(record'[d] # <<>> /\ record'[d][1][1] = q)
        BY <1>6, <1>8, <1>10, <2>6
      <4> QED BY <2>5, <4>1
    <3> QED BY <2>1, <2>3, <3>1, <3>2 DEF Split
  <2>7. CASE x[1] = q
    <3>1. PICK k \in Nat : x = <<q, k>> BY <1>2, <2>7 DEF Chunk
    <3> DEFINE m == t + 1
               n == sent_f[q]
    <3>2. m \in Nat /\ n \in Nat /\ t \in Nat BY <2>1, <2>4
    <3>3. Inserted(fifo, fifo', 1, <<q, k>>) BY <1>2, <3>1
    <3>4. Lines!InOrder(q, fifo, m, n) BY <2>3
    <3> HIDE DEF m, n
    <3>5. k = m /\ m <= n /\ Lines!InOrder(q, fifo', m + 1, n)
      BY <1>1, <1>3, <3>2, <3>3, <3>4, FirstInOrder
    <3>6. k \in 0 .. sent_f'[q] /\ k = w + 1 /\ w \in 0 .. sent_f'[q] BY <2>1, <2>3, <3>2, <3>5 DEF m, n
    <3>7. Lines!Holders(q)' = {c} /\ record'[c] = <<<<q, k>>>>
      <4>1. record'[c] # <<>> /\ record'[c][1][1] = q BY <1>6, <3>1
      <4>2. \A d \in Consumers \ {c} : record'[d] = <<>> BY <1>6, <1>8, <1>10
      <4> QED BY <1>6, <2>5, <3>1, <4>1, <4>2
    <3>8. k # w BY <3>2, <3>6, <2>1
    <3>9. Split(q, w, k)'
      <4>1. Lines!InOrder(q, fifo', k + 1, sent_f'[q]) BY <3>5 DEF n
      <4>2. Lines!InOrder(q, output', 1, w) BY <2>3
      <4> QED BY <3>6, <3>7, <3>8, <4>1, <4>2 DEF Split
    <3> QED BY <3>6, <3>9
  <2> QED BY <2>6, <2>7
<1>11. ASSUME NEW q \in Producers PROVE \E t \in 0 .. sent_f'[q] : Taken(q, t)'
  <2>1. PICK t \in 0 .. sent_f[q] : Taken(q, t) BY DEF Handed
  <2>2. sent_f[q] \in Nat BY DEF LinesTypes
  <2>3. Lines!InOrder(q, fifo, t + 1, sent_f[q]) BY <2>1 DEF Taken
  <2>4. \A d \in Consumers \ {c} : record'[d] # <<>> /\ record'[d][1][1] = q => record'[d][1][2] \in 1 .. t
    BY <1>6, <2>1 DEF Taken
  <2>5. CASE x[1] # q
    <3>1. Lines!InOrder(q, fifo', t + 1, sent_f[q]) BY <1>1, <1>2, <1>3, <2>3, <2>5, OthersInOrder
    <3>2. Taken(q, t)' BY <1>6, <2>4, <2>5, <3>1 DEF Taken
    <3> QED BY <3>2
  <2>6. CASE x[1] = q
    <3>1. PICK k \in Nat : x = <<q, k>> BY <1>2, <2>6 DEF Chunk
    <3> DEFINE m == t + 1
               n == sent_f[q]
    <3>2. m \in Nat /\ n \in Nat /\ t \in Nat BY <2>1, <2>2
    <3>3. Inserted(fifo, fifo', 1, <<q, k>>) BY <1>2, <3>1
    <3>4. Lines!InOrder(q, fifo, m, n) BY <2>3
    <3> HIDE DEF m, n
    <3>5. k = m /\ m <= n /\ Lines!InOrder(q, fifo', m + 1, n)
      BY <1>1, <1>3, <3>2, <3>3, <3>4, FirstInOrder
    <3>6. k = t + 1 /\ k \in 0 .. sent_f'[q] BY <3>2, <3>5 DEF m, n
    <3>7. Lines!InOrder(q, fifo', k + 1, sent_f'[q]) BY <3>5 DEF n
    <3>8. record'[c][1][2] \in 1 .. k BY <1>6, <3>1, <3>2, <3>6
    <3>9. \A i \in 1 .. t : i \in 1 .. k BY <3>2, <3>6
    <3>10. Taken(q, k)' BY <2>4, <3>7, <3>8, <3>9 DEF Taken
    <3> QED BY <3>6, <3>10
  <2> QED BY <2>5, <2>6
<1>12. \A d, f \in Consumers : record'[d] # <<>> /\ record'[d] = record'[f] => d = f
  <2>1. ASSUME NEW d \in Consumers \ {c}, record[d] = <<x>> PROVE FALSE
    <3> DEFINE q == x[1]
    <3>1. q \in Producers BY <1>2 DEF Chunk
    <3>2. PICK t \in 0 .. sent_f[q] : Taken(q, t) BY <3>1 DEF Handed
    <3>3. x[2] \in 1 .. t
      <4>1. record[d] # <<>> /\ record[d][1] = x BY <2>1
      <4> QED BY <3>2, <4>1 DEF Taken
    <3>4. x[2] \in t + 1 .. sent_f[q]
      <4>1. 1 \in Lines!PlacesOf(q, fifo) /\ fifo[1] = x
        <5>1. 1 \in DOMAIN fifo /\ fifo[1] = x BY <1>1, <1>2, ItemsAre DEF Inserted
        <5> QED BY <1>2, <5>1, NoNewLine DEF Lines!PlacesOf
      <4>2. {fifo[k][2] : k \in Lines!PlacesOf(q, fifo)} = t + 1 .. sent_f[q]
        BY <3>2 DEF Taken, Lines!InOrder
      <4> QED BY <4>1, <4>2
    <3> QED BY <3>2, <3>3, <3>4
  <2>2. ASSUME NEW d \in Consumers, NEW f \in Consumers, record'[d] # <<>>, record'[d] = record'[f]
        PROVE  d = f
    <3>1. CASE d = c /\ f # c BY <1>6, <2>1, <2>2, <3>1
    <3>2. CASE f = c /\ d # c BY <1>6, <2>1, <2>2, <3>2
    <3>3. CASE d # c /\ f # c BY <1>6, <2>2, <3>3 DEF Handed
    <3> QED BY <3>1, <3>2, <3>3
  <2> QED BY <2>2
<1>13. Handed' BY <1>11, <1>12 DEF Handed
<1> QED BY <1>5, <1>7, <1>9, <1>10, <1>13

\* What is left of the FIFO by a read of parts.
LEMMA ReadsAre ==
  ASSUME LinesTypes, fifo # <<>>, torn, NEW read \in Lines!Reads
  PROVE  read[1] \in Chunk /\ read[2] \in Seq(Chunk)
<1>1. fifo \in Seq(Chunk) /\ Head(fifo) \in Chunk BY HeadWasInserted DEF LinesTypes
<1>2. Len(fifo) \in Nat /\ DOMAIN fifo = 1 .. Len(fifo)
      /\ \A k \in 1 .. Len(fifo) : fifo[k] \in Chunk
  BY <1>1
<1>3. \A x \in Chunk : Lines!Part(x[1]) \in Chunk BY DEF Lines!Part, Chunk
<1>4. ASSUME NEW k \in DOMAIN fifo PROVE Lines!Behind(k) \in Seq(Chunk)
  <2> DEFINE m == k + 1
             n == Len(fifo)
  <2>1. m \in 1 .. Len(fifo) + 1 /\ n \in Int /\ \A i \in m .. n : fifo[i] \in Chunk BY <1>2
  <2>2. Lines!Behind(k) = SubSeq(fifo, m, n) BY DEF Lines!Behind
  <2>3. m \in Int /\ n \in Int BY <2>1, <1>2
  <2> HIDE DEF m, n
  <2>4. SubSeq(fifo, m, n) \in Seq(Chunk) BY <2>1, <2>3, SubSeqProperties
  <2> QED BY <2>2, <2>4
<1>5. ASSUME NEW k \in DOMAIN fifo PROVE <<Lines!Part(fifo[k][1])>> \o Lines!Behind(k) \in Seq(Chunk)
  <2> DEFINE s == <<Lines!Part(fifo[k][1])>>
             t == Lines!Behind(k)
  <2>1. s \in Seq(Chunk) BY <1>2, <1>3
  <2>2. t \in Seq(Chunk) BY <1>4
  <2> HIDE DEF s, t
  <2>3. s \o t \in Seq(Chunk) BY <2>1, <2>2, ConcatProperties
  <2> QED BY <2>3 DEF s, t
<1>6. read \in {Lines!Part(Head(fifo)[1])} \X
               ({Lines!Behind(k) : k \in DOMAIN fifo} \cup
                {<<Lines!Part(fifo[k][1])>> \o Lines!Behind(k) :
                   k \in {k \in DOMAIN fifo : Lines!IsWhole(fifo[k])}})
  BY DEF Lines!Reads
<1> QED BY <1>1, <1>3, <1>4, <1>5, <1>6

LEMMA ReceivesStep == ASSUME LinesInv, NEW c \in Consumers, Lines!Receives(c) PROVE LinesInv'
<1> USE DEF LinesInv
<1>0. /\ pc_f[c] = "running" /\ UNCHANGED <<fits, sent_f, output, tmp, torn>>
      /\ c \in Lines!Procs /\ Consumers \subseteq Lines!Procs
  BY DEF Lines!Receives, Lines!Procs
<1>1. ASSUME fifo # <<>>, NEW read \in Lines!Reads, record' = [record EXCEPT ![c] = <<read[1]>>],
             fifo' = read[2], pc_f' = [pc_f EXCEPT ![c] = "copy"],
             spoiled' = (spoiled \/ \E d \in Consumers \ {c} : record[d] # <<>>)
      PROVE  LinesInv'
  <2>1. CASE ~torn
    <3>1. read[1] = Head(fifo) /\ read[2] = Tail(fifo) BY <1>1, <2>1 DEF Lines!Reads
    <3> QED BY <1>0, <1>1, <2>1, <3>1, ReceivesARecord
  <2>2. CASE torn
    <3> DEFINE x == read[1]
    <3>1. x \in Chunk /\ fifo' \in Seq(Chunk) BY <1>1, <2>2, ReadsAre
    <3>2. record' = [record EXCEPT ![c] = <<x>>] BY <1>1
    <3> HIDE DEF x
    <3>3. LinesTypes' BY <1>0, <1>1, <3>1, <3>2 DEF LinesTypes
    <3>4. /\ record'[c] = <<x>> /\ pc_f'[c] = "copy"
          /\ \A d \in Consumers \ {c} : record'[d] = record[d] /\ pc_f'[d] = pc_f[d]
      BY <1>0, <1>1, <3>2 DEF LinesTypes
    <3>5. Turns' BY <3>4 DEF Turns
    <3> QED BY <1>0, <2>2, <3>3, <3>5
  <2> QED BY <2>1, <2>2
<1>2. ASSUME pc_f' = [pc_f EXCEPT ![c] = "done"], UNCHANGED <<record, spoiled>>,
             (fifo # <<>> /\ torn /\ \E read \in Lines!Reads : fifo' = read[2]) \/ UNCHANGED fifo
      PROVE  LinesInv'
  <2>1. fifo' \in Seq(Chunk) BY <1>2, ReadsAre DEF LinesTypes
  <2>2. LinesTypes' BY <1>0, <1>2, <2>1 DEF LinesTypes
  <2>3. \A d \in Consumers : /\ pc_f'[d] \in {"copy", "write"} <=> pc_f[d] \in {"copy", "write"}
                             /\ pc_f'[d] = "write" => pc_f[d] = "write"
    BY <1>0, <1>2 DEF LinesTypes
  <2>4. CASE torn BY <1>0, <1>2, <2>2, <2>3, <2>4, TornStep
  <2>5. CASE UNCHANGED fifo
    <3>1. Turns' /\ (~torn /\ ~spoiled => OneHolds /\ Copied /\ InLine(output))'
      BY <1>0, <1>2, <2>3 DEF Turns, OneHolds, Copied, InLine
    <3>2. \A q, w, t : Split(q, w, t)' <=> Split(q, w, t) BY <1>0, <1>2, <2>5 DEF Split, Lines!Holders
    <3>3. (~torn => Handed)' BY <1>0, <1>2, <2>5, HandedKept
    <3> QED BY <1>0, <1>2, <2>2, <2>5, <3>1, <3>2, <3>3
  <2> QED BY <1>2, <2>4, <2>5
<1> QED BY <1>1, <1>2 DEF Lines!Receives

LEMMA CopiesStep == ASSUME LinesInv, NEW c \in Consumers, Lines!Copies(c) PROVE LinesInv'
<1> USE DEF LinesInv
<1>1. c \in Lines!Procs /\ Consumers \subseteq Lines!Procs BY DEF Lines!Procs
<1>2. pc_f[c] = "copy" /\ record[c] # <<>> /\ UNCHANGED <<fits, sent_f, fifo, output, torn>>
  BY DEF Lines!Copies, Turns
<1>3. CASE /\ tmp' = [tmp EXCEPT ![c] = Lines!WithChunk(output, record[c][1])]
           /\ pc_f' = [pc_f EXCEPT ![c] = "write"] /\ UNCHANGED <<record, spoiled>>
  <2> DEFINE new == Lines!WithChunk(output, record[c][1])
  <2>1. new \in File
    <3>1. LineOf \in [Producers -> Nat] BY ProgramsAssumption
    <3>2. output \in File BY DEF LinesTypes
    <3>3. CASE record[c][1][2] # 0 BY <1>2, <3>1, <3>2, <3>3, HeldIsChunk, WithChunkIs
    <3>4. CASE record[c][1][2] = 0 BY <3>2, <3>4 DEF Lines!WithChunk, Lines!IsWhole
    <3> QED BY <3>3, <3>4
  <2> HIDE DEF new
  <2>2. tmp' = [tmp EXCEPT ![c] = new] BY <1>3 DEF new
  <2>3. LinesTypes' BY <1>1, <1>2, <1>3, <2>1, <2>2 DEF LinesTypes
  <2>4. \A d \in Consumers : /\ pc_f'[d] \in {"copy", "write"} <=> pc_f[d] \in {"copy", "write"}
                             /\ d # c => pc_f'[d] = pc_f[d] /\ tmp'[d] = tmp[d]
    BY <1>1, <1>2, <1>3 DEF LinesTypes
  <2>5. tmp'[c] = new BY <2>2 DEF LinesTypes
  <2>6. Turns' BY <1>3, <2>4 DEF Turns
  <2>7. (~torn /\ ~spoiled => OneHolds /\ InLine(output))' BY <1>2, <1>3 DEF OneHolds, InLine
  <2>8. ASSUME ~torn, ~spoiled PROVE Copied'
    <3> SUFFICES ASSUME NEW d \in Consumers, pc_f'[d] = "write"
                 PROVE  tmp'[d] = Lines!WithChunk(output, record[d][1])
      BY <1>2, <1>3 DEF Copied
    <3>1. CASE d = c BY <2>5, <3>1 DEF new
    <3>2. CASE d # c BY <2>4, <2>8, <3>2 DEF Copied
    <3> QED BY <3>1, <3>2
  <2>9. \A q, w, t : Split(q, w, t)' <=> Split(q, w, t) BY <1>2, <1>3 DEF Split, Lines!Holders
  <2>10. (~torn => Handed)' BY <1>2, <1>3, HandedKept
  <2> QED BY <1>2, <1>3, <2>3, <2>6, <2>7, <2>8, <2>9, <2>10
<1>4. CASE /\ pc_f' = [pc_f EXCEPT ![c] = "done"] /\ record' = [record EXCEPT ![c] = <<>>]
           /\ spoiled' = TRUE /\ UNCHANGED tmp
  <2>1. LinesTypes' BY <1>1, <1>2, <1>4 DEF LinesTypes
  <2>2. Turns' BY <1>1, <1>2, <1>4 DEF Turns, LinesTypes
  <2>3. \A d \in Consumers : record'[d] \in {record[d], <<>>} BY <1>4 DEF LinesTypes
  <2>4. (~torn => Handed)' BY <1>2, <2>3, HandedKept
  <2> QED BY <1>4, <2>1, <2>2, <2>4
<1> QED BY <1>3, <1>4 DEF Lines!Copies

LEMMA WritesStep == ASSUME LinesInv, NEW c \in Consumers, Lines!Writes(c) PROVE LinesInv'
<1> USE DEF LinesInv
<1>1. c \in Lines!Procs /\ Consumers \subseteq Lines!Procs BY DEF Lines!Procs
<1>2. /\ pc_f[c] = "write" /\ pc_f' = [pc_f EXCEPT ![c] = "running"]
      /\ output' = tmp[c] \o SubSeq(output, Len(tmp[c]) + 1, Len(output))
      /\ record' = [record EXCEPT ![c] = <<>>] /\ tmp' = [tmp EXCEPT ![c] = <<>>]
      /\ UNCHANGED <<fits, sent_f, fifo, torn, spoiled>>
  BY DEF Lines!Writes
<1>3. record[c] # <<>> BY <1>2 DEF Turns
<1> DEFINE x == record[c][1]
           tail == SubSeq(output, Len(tmp[c]) + 1, Len(output))
<1>4. x \in Chunk /\ record[c] = <<x>> BY <1>3, HeldIsChunk
<1> HIDE DEF x
<1>5. tmp[c] \in File /\ output \in File /\ Len(tmp[c]) \in Nat /\ Len(output) \in Nat
  <2>1. tmp[c] \in File /\ output \in File BY DEF LinesTypes
  <2> QED BY <2>1, ItemsAre
<1>6. output' \in File
  <2>1. \A i \in Len(tmp[c]) + 1 .. Len(output) : output[i] \in Chunk \cup {Lines!NewLine}
    <3>1. \A i \in Len(tmp[c]) + 1 .. Len(output) : i \in 1 .. Len(output) BY <1>5
    <3> QED BY <1>5, <3>1, ItemsAre
  <2>2. tail \in File BY <1>5, <2>1, SubSeqProperties DEF File
  <2> HIDE DEF tail
  <2>3. tmp[c] \o tail \in File BY <1>5, <2>2, ConcatProperties DEF File
  <2> QED BY <1>2, <2>3 DEF tail
<1>7. LinesTypes'
  <2>1. <<>> \in File BY DEF File
  <2> QED BY <1>1, <1>2, <1>6, <2>1 DEF LinesTypes
<1>8. /\ pc_f'[c] = "running" /\ record'[c] = <<>>
      /\ \A d \in Consumers \ {c} : pc_f'[d] = pc_f[d] /\ record'[d] = record[d]
  BY <1>1, <1>2 DEF LinesTypes
<1>9. Turns' BY <1>8 DEF Turns
<1>15. (~torn => Handed)'
  <2>1. \A d \in Consumers : record'[d] \in {record[d], <<>>} BY <1>8
  <2> QED BY <1>2, <2>1, HandedKept
<1>16. ~torn => x[2] # 0 BY <1>3, HeldIsWhole DEF x
<1>10. ASSUME ~torn, ~spoiled
       PROVE  /\ \A d \in Consumers \ {c} : record[d] = <<>>
              /\ output' = Lines!WithChunk(output, x)
  <2>1. \A d \in Consumers \ {c} : record[d] = <<>> BY <1>3, <1>10 DEF OneHolds
  <2>2. tmp[c] = Lines!WithChunk(output, x) BY <1>2, <1>10 DEF Copied, x
  <2>3. LineOf \in [Producers -> Nat] BY ProgramsAssumption
  <2>4. Len(tmp[c]) > Len(output) BY <1>4, <1>5, <1>10, <1>16, <2>2, <2>3, WithChunkIs
  <2>5. tail = <<>>
    <3> DEFINE m == Len(tmp[c]) + 1
               n == Len(output)
    <3>1. m \in Int /\ n \in Int /\ n < m BY <1>5, <2>4
    <3> HIDE DEF m, n
    <3>2. SubSeq(output, m, n) = <<>> BY <3>1, SubSeqEmpty
    <3> QED BY <3>2 DEF m, n
  <2>6. tmp[c] \o <<>> = tmp[c] BY <1>5, ConcatEmptySeq DEF File
  <2> QED BY <1>2, <2>1, <2>2, <2>5, <2>6
<1>11. ASSUME ~torn, ~spoiled
       PROVE  /\ InLine(output')
              /\ \A p, m, n : x[1] # p /\ Lines!InOrder(p, output, m, n)
                   => Lines!InOrder(p, output', m, n)
              /\ \A n \in Nat : x[2] = n + 1 /\ Lines!InOrder(x[1], output, 1, n)
                   => Lines!InOrder(x[1], output', 1, n + 1)
  <2>1. LineOf \in [Producers -> Nat] BY ProgramsAssumption
  <2>2. InLine(output) BY <1>11
  <2> QED BY <1>4, <1>5, <1>10, <1>11, <1>16, <2>1, <2>2, ChunkAdded
<1>12. \A d \in Consumers : ~torn /\ ~spoiled => record'[d] = <<>> BY <1>8, <1>10
<1>13. ASSUME ~torn, ~spoiled PROVE (OneHolds /\ Copied /\ InLine(output))'
  <2>1. OneHolds' BY <1>12, <1>13 DEF OneHolds
  <2>2. Copied' BY <1>9, <1>12, <1>13 DEF Copied, Turns
  <2>3. InLine(output)' BY <1>11, <1>13 DEF InLine
  <2> QED BY <2>1, <2>2, <2>3
<1>14. ASSUME ~torn, ~spoiled, NEW q \in Producers PROVE \E w, t \in 0 .. sent_f'[q] : Split(q, w, t)'
  <2>1. PICK w \in 0 .. sent_f[q], t \in 0 .. sent_f[q] : Split(q, w, t) BY <1>14
  <2>2. Lines!Holders(q)' = {}
    <3>1. (LinesTypes => HoldersByRecord)' BY HoldersAre, PTL
    <3> QED BY <1>7, <1>12, <1>14, <3>1 DEF HoldersByRecord
  <2>3. Lines!Holders(q) = IF x[1] = q THEN {c} ELSE {}
    <3>1. Lines!Holders(q) = {d \in Consumers : record[d] # <<>> /\ record[d][1][1] = q}
      BY HoldersAre DEF HoldersByRecord
    <3>2. ASSUME NEW d \in Consumers, record[d] # <<>> PROVE d = c BY <1>10, <1>14, <3>2
    <3> QED BY <1>3, <3>1, <3>2 DEF x
  <2>4. CASE x[1] # q
    <3>1. t = w /\ Lines!InOrder(q, output, 1, w) /\ Lines!InOrder(q, fifo, t + 1, sent_f[q])
      BY <2>1, <2>3, <2>4 DEF Split
    <3>2. Lines!InOrder(q, output', 1, w) BY <1>11, <1>14, <2>4, <3>1
    <3> QED BY <1>2, <2>1, <2>2, <3>1, <3>2 DEF Split
  <2>5. CASE x[1] = q
    <3>1. /\ t = w + 1 /\ record[c] = <<<<q, t>>>> /\ Lines!InOrder(q, output, 1, w)
          /\ Lines!InOrder(q, fifo, t + 1, sent_f[q])
      <4>1. /\ t = w + 1
            /\ \E d \in Consumers : Lines!Holders(q) = {d} /\ record[d] = <<<<q, t>>>>
        BY <2>1, <2>3, <2>5 DEF Split
      <4>2. PICK d \in Consumers : Lines!Holders(q) = {d} /\ record[d] = <<<<q, t>>>> BY <4>1
      <4>3. d = c BY <2>3, <2>5, <4>2
      <4> QED BY <2>1, <4>1, <4>2, <4>3 DEF Split
    <3>2. w \in Nat /\ x[2] = w + 1 BY <1>4, <2>1, <3>1 DEF x, LinesTypes
    <3>3. Lines!InOrder(x[1], output', 1, w + 1) BY <1>11, <1>14, <2>5, <3>1, <3>2
    <3>4. Lines!InOrder(q, output', 1, t) BY <2>5, <3>1, <3>3
    <3>5. Split(q, t, t)' BY <1>2, <2>1, <2>2, <3>1, <3>4 DEF Split
    <3> QED BY <1>2, <2>1, <3>5
  <2> QED BY <2>4, <2>5
<1> QED BY <1>2, <1>7, <1>9, <1>13, <1>14, <1>15

LEMMA LinesNext == LinesInv /\ [Next]_vars => LinesInv'
<1> SUFFICES ASSUME LinesInv, [Next]_vars PROVE LinesInv' OBVIOUS
<1>1. CASE UNCHANGED linesVars
  <2> USE DEF LinesInv
  <2>1. UNCHANGED <<fits, pc_f, sent_f, fifo, output, record, tmp, torn, spoiled>> BY <1>1 DEF linesVars
  <2>2. LinesTypes' /\ Turns' BY <2>1 DEF LinesTypes, Turns
  <2>3. (~torn /\ ~spoiled => OneHolds /\ Copied /\ InLine(output))'
    BY <2>1 DEF OneHolds, Copied, InLine
  <2>4. \A q, w, t : Split(q, w, t)' <=> Split(q, w, t) BY <2>1 DEF Split, Lines!Holders
  <2>5. (~torn => Handed)' BY <2>1, HandedKept
  <2> QED BY <2>1, <2>2, <2>3, <2>4, <2>5
<1>2. CASE Lines!Next
  BY <1>2, OpensStep, LinesSendsStep, TruncatesStep, ReceivesStep, CopiesStep, WritesStep
     DEF Lines!Next, Lines!Consumes
<1>3. UNCHANGED linesVars \/ Lines!Next BY DEF Next, vars, Only, SignalStep, SearchStep
<1> QED BY <1>1, <1>2, <1>3

\* As long as no record goes in parts, and none does up to PIPE_BUF, every chunk is handed to one
\* consumer, in order; and as long as consumers do not get in each other's way, none is lost,
\* doubled, moved before an earlier one or written in another's line either; however many
\* producers and consumers there are and whatever lines the producers have.
THEOREM LinesStayWhole == Spec => []LinesAreWhole
<1>1. Init => LinesInv BY LinesInit DEF Init
<1>2. LinesInv => LinesAreWhole
  <2> SUFFICES ASSUME LinesInv PROVE Lines!LinesAreWhole BY DEF LinesAreWhole
  <2>1. fits => ~torn BY DEF LinesInv, LinesTypes
  <2>2. ASSUME ~torn, NEW p \in Producers, NEW t \in 0 .. sent_f[p], Taken(p, t)
        PROVE  Lines!HandedOn(p, t)
    <3>1. Lines!Holders(p) = {c \in Consumers : record[c] # <<>> /\ record[c][1][1] = p}
      BY HoldersAre DEF LinesInv, HoldersByRecord
    <3>2. \A c, d \in Consumers : record[c] # <<>> /\ record[c] = record[d] => c = d
      BY <2>2 DEF LinesInv, Handed
    <3> QED BY <2>2, <3>1, <3>2 DEF Taken, Lines!HandedOn
  <2>3. ~torn => \A p \in Producers : \E t \in 0 .. sent_f[p] : Lines!HandedOn(p, t)
    BY <2>2 DEF LinesInv, Handed
  <2>4. ~torn /\ ~spoiled => InLine(output) /\ \A p \in Producers : \E w, t \in 0 .. sent_f[p] : Split(p, w, t)
    BY DEF LinesInv
  <2> QED BY <2>1, <2>3, <2>4 DEF Lines!LinesAreWhole, Split, InLine
<1> QED BY <1>1, <1>2, LinesNext, PTL DEF Spec

-----------------------------------------------------------------------------
(* The calculator.  As long as there is no error, every worker that has    *)
(* ended well, or been waited for, has emptied or written its own file,    *)
(* whatever an interrupted run had left in it.                             *)

CalcTypes ==
  /\ pc_c \in {"idle", "fork", "wait", "reduce", "unlink"}
  /\ args \in (Nat \ {0}) \X Nat /\ (pc_c # "idle" => args \in Runs)
  /\ wid \in 0 .. args[1]
  /\ worker \in [Calc!Wids -> {"none", "computes", "opened", "good", "bad"}]
  /\ file_c = [w \in Calc!Wids |-> file_c[w]]
  /\ err \in BOOLEAN /\ printed \in BOOLEAN
  /\ sums \in Seq(SUBSET (Nat \X Nat))

\* the file of a worker that ended well in this run
Fresh(w) == file_c[w] \in {Calc!Emptied, <<"sum", Calc!CellsOf(w)>>}

\* what reduce has added up are the sums of the first n workers
Added(n) == Len(sums) = n /\ \A k \in 1 .. n : sums[k] = Calc!CellsOf(k - 1)

CalcPhases ==
  /\ pc_c \in {"idle", "reduce", "unlink"} => \A w \in Calc!Wids : worker[w] = "none"
  /\ pc_c = "fork" => ~err
  /\ pc_c = "wait" /\ ~err => wid = args[1]
  /\ pc_c \in {"fork", "wait"} =>
       /\ sums = <<>>
       /\ \A w \in Calc!Wids :
            /\ w >= wid => worker[w] = "none"
            /\ worker[w] = "opened" => file_c[w] = Calc!Emptied
            /\ worker[w] = "good" => Fresh(w)
            /\ ~err /\ w < wid /\ worker[w] = "none" => Fresh(w)
  /\ pc_c = "reduce" => ~err /\ Added(wid) /\ \A w \in 0 .. args[1] - 1 : Fresh(w)
  /\ pc_c = "unlink" => \A w \in 0 .. wid - 1 : file_c[w] = Calc!NoFile
  /\ printed => pc_c \in {"unlink", "idle"} /\ Added(args[1])

CalcInv == CalcTypes /\ CalcPhases

LEMMA WidsOfRun == CalcTypes /\ pc_c # "idle" => 0 .. args[1] - 1 \subseteq Calc!Wids
BY DEF CalcTypes, Calc!Wids

\* the workers of any run are numbered from 0
LEMMA WidsAreNat == Calc!Wids \subseteq Nat
BY ProgramsAssumption DEF Calc!Wids

LEMMA CalcInit == Calc!Init => CalcInv
<1> SUFFICES ASSUME Calc!Init PROVE CalcInv
  OBVIOUS
<1>0. args = <<1, 0>> /\ sums = <<>> /\ wid = 0 /\ pc_c = "idle" BY DEF Calc!Init
<1>a. sums \in Seq(SUBSET (Nat \X Nat)) BY <1>0, EmptySeq
<1>b. args \in (Nat \ {0}) \X Nat /\ wid \in 0 .. args[1] BY <1>0
<1>1. CalcTypes BY <1>0, <1>a, <1>b DEF Calc!Init, CalcTypes
<1>2. CalcPhases BY DEF Calc!Init, CalcPhases
<1> QED BY <1>1, <1>2 DEF CalcInv

LEMMA CalcStartsStep == ASSUME CalcInv, Calc!Starts PROVE CalcInv'
<1>1. /\ pc_c = "idle" /\ pc_c' = "fork" /\ args' \in Runs /\ wid' = 0 /\ err' = FALSE
      /\ sums' = <<>> /\ printed' = FALSE /\ UNCHANGED <<worker, file_c>>
  BY DEF Calc!Starts
<1>a. sums' \in Seq(SUBSET (Nat \X Nat)) BY <1>1, EmptySeq
<1>b. args' \in (Nat \ {0}) \X Nat /\ wid' \in 0 .. args'[1] BY <1>1, ProgramsAssumption
<1>2. CalcTypes' BY <1>1, <1>a, <1>b DEF CalcInv, CalcTypes
<1>3. CalcPhases' BY <1>1, WidsAreNat DEF CalcInv, CalcTypes, CalcPhases, Fresh, Calc!CellsOf
<1> QED BY <1>2, <1>3 DEF CalcInv

LEMMA ForksStep == ASSUME CalcInv, Calc!Forks PROVE CalcInv'
<1>1. pc_c = "fork" /\ UNCHANGED <<args, file_c, sums, printed>> BY DEF Calc!Forks
<1>0. ASSUME NEW w PROVE Fresh(w)' <=> Fresh(w) BY <1>1 DEF Fresh, Calc!CellsOf, Calc!NProc, Calc!NCells
<1>2. CASE wid < args[1] /\ wid' = wid + 1 /\ worker' = [worker EXCEPT ![wid] = "computes"]
           /\ UNCHANGED <<pc_c, err>>
  <2>1. wid \in Calc!Wids BY <1>1, <1>2, WidsOfRun DEF CalcInv, CalcTypes
  <2>2. CalcTypes' BY <1>1, <1>2, <2>1 DEF CalcInv, CalcTypes
  <2>3. CalcPhases' BY <1>0, <1>1, <1>2, <2>1, WidsAreNat DEF CalcInv, CalcTypes, CalcPhases
  <2> QED BY <2>2, <2>3 DEF CalcInv
<1>3. CASE wid = args[1] /\ pc_c' = "wait" /\ UNCHANGED <<wid, worker, err>>
  <2>2. CalcTypes' BY <1>1, <1>3 DEF CalcInv, CalcTypes
  <2>3. CalcPhases' BY <1>0, <1>1, <1>3 DEF CalcInv, CalcTypes, CalcPhases
  <2> QED BY <2>2, <2>3 DEF CalcInv
<1>4. CASE wid < args[1] /\ pc_c' = "wait" /\ err' = TRUE /\ UNCHANGED <<wid, worker>>
  <2>2. CalcTypes' BY <1>1, <1>4 DEF CalcInv, CalcTypes
  <2>3. CalcPhases' BY <1>0, <1>1, <1>4 DEF CalcInv, CalcTypes, CalcPhases
  <2> QED BY <2>2, <2>3 DEF CalcInv
<1> QED BY <1>2, <1>3, <1>4 DEF Calc!Forks, Calc!NProc

LEMMA CalcWorkerStep ==
  ASSUME CalcInv, NEW w \in Calc!Wids, Calc!worker_task(w)
  PROVE  CalcInv'
<1>1. UNCHANGED <<args, pc_c, wid, err, sums, printed>> BY DEF Calc!worker_task
<1>2. /\ pc_c \in {"fork", "wait"} /\ worker[w] # "none"
  BY DEF Calc!worker_task, CalcInv, CalcTypes, CalcPhases
<1>3. /\ \A v \in Calc!Wids : v # w => file_c'[v] = file_c[v] /\ worker'[v] = worker[v]
      /\ file_c' = [v \in Calc!Wids |-> file_c'[v]]
      /\ worker' \in [Calc!Wids -> {"none", "computes", "opened", "good", "bad"}]
      /\ worker'[w] # "none"
      /\ worker'[w] = "opened" => file_c'[w] = Calc!Emptied
      /\ worker'[w] = "good" => file_c'[w] \in {Calc!Emptied, <<"sum", Calc!CellsOf(w)>>}
  <2> DEFINE put(x) == [file_c EXCEPT ![w] = x]
  <2>1. ASSUME NEW x
        PROVE  /\ put(x)[w] = x /\ \A v \in Calc!Wids : v # w => put(x)[v] = file_c[v]
               /\ put(x) = [v \in Calc!Wids |-> put(x)[v]]
    BY DEF CalcInv, CalcTypes
  <2>2. CASE /\ worker[w] = "computes" /\ worker' = [worker EXCEPT ![w] = "opened"]
             /\ file_c' = put(Calc!Emptied)
    BY <2>1, <2>2 DEF CalcInv, CalcTypes
  <2>3. CASE /\ worker[w] = "opened" /\ worker' = [worker EXCEPT ![w] = "good"]
             /\ file_c' = file_c \/ file_c' = put(<<"sum", Calc!CellsOf(w)>>)
    <3>1. file_c[w] = Calc!Emptied BY <1>2, <2>3 DEF CalcInv, CalcPhases
    <3> QED BY <2>1, <2>3, <3>1 DEF CalcInv, CalcTypes
  <2>4. CASE /\ worker[w] \in {"computes", "opened"} /\ worker' = [worker EXCEPT ![w] = "bad"]
             /\ UNCHANGED file_c
    BY <2>4 DEF CalcInv, CalcTypes
  <2> QED BY <2>2, <2>3, <2>4 DEF Calc!worker_task
<1>4. ASSUME NEW v PROVE Calc!CellsOf(v)' = Calc!CellsOf(v)
  BY <1>1 DEF Calc!CellsOf, Calc!NProc, Calc!NCells
<1>5. CalcTypes' BY <1>1, <1>3 DEF CalcInv, CalcTypes
<1>6. ASSUME NEW v \in Calc!Wids
      PROVE  /\ v >= wid' => worker'[v] = "none"
             /\ worker'[v] = "opened" => file_c'[v] = Calc!Emptied
             /\ worker'[v] = "good" => Fresh(v)'
             /\ ~err' /\ v < wid' /\ worker'[v] = "none" => Fresh(v)'
  <2>1. CASE v = w BY <1>1, <1>2, <1>3, <1>4, <2>1 DEF CalcInv, CalcPhases, Fresh
  <2>2. CASE v # w BY <1>1, <1>2, <1>3, <1>4, <2>2 DEF CalcInv, CalcPhases, Fresh
  <2> QED BY <2>1, <2>2
<1>7. CalcPhases' BY <1>1, <1>2, <1>6 DEF CalcInv, CalcPhases
<1> QED BY <1>5, <1>7 DEF CalcInv

LEMMA WaitsStep == ASSUME CalcInv, Calc!Waits PROVE CalcInv'
<1>1. pc_c = "wait" /\ UNCHANGED <<args, file_c, sums, printed>> BY DEF Calc!Waits
<1>0. ASSUME NEW w PROVE Fresh(w)' <=> Fresh(w) BY <1>1 DEF Fresh, Calc!CellsOf, Calc!NProc, Calc!NCells
<1>2. ASSUME NEW w \in Calc!Wids, Calc!wait(w), UNCHANGED <<pc_c, wid>> PROVE CalcInv'
  <2>1. worker' = [worker EXCEPT ![w] = "none"] /\ worker[w] \in {"good", "bad"}
        /\ err' = (err \/ worker[w] = "bad")
    BY <1>2 DEF Calc!wait
  <2>2. CalcTypes' BY <1>1, <1>2, <2>1 DEF CalcInv, CalcTypes
  <2>3. CalcPhases' BY <1>0, <1>1, <1>2, <2>1 DEF CalcInv, CalcTypes, CalcPhases
  <2> QED BY <2>2, <2>3 DEF CalcInv
<1>3. CASE /\ Calc!Children = {} /\ wid' = 0 /\ err' = (err \/ num_completed # args[1])
           /\ pc_c' = (IF err' THEN "unlink" ELSE "reduce") /\ UNCHANGED worker
  <2>1. \A w \in Calc!Wids : worker[w] = "none" BY <1>3 DEF Calc!Children
  <2>2. CalcTypes' BY <1>1, <1>3 DEF CalcInv, CalcTypes
  <2>3. ~err' => \A w \in 0 .. args[1] - 1 : Fresh(w)
    BY <1>1, <1>3, <2>1, WidsOfRun DEF CalcInv, CalcTypes, CalcPhases
  <2>4. Added(0)' BY <1>1 DEF CalcInv, CalcPhases, Added
  <2>5. ~printed BY <1>1 DEF CalcInv, CalcPhases
  <2>6. CalcPhases' BY <1>0, <1>1, <1>3, <2>1, <2>3, <2>4, <2>5 DEF CalcTypes, CalcInv, CalcPhases
  <2> QED BY <2>2, <2>6 DEF CalcInv
<1> QED BY <1>2, <1>3 DEF Calc!Waits, Calc!NProc

LEMMA ReducesStep == ASSUME CalcInv, Calc!Reduces PROVE CalcInv'
<1>1. pc_c = "reduce" /\ UNCHANGED <<args, worker, file_c>> /\ ~err /\ ~printed /\ Added(wid)
  BY DEF Calc!Reduces, CalcInv, CalcPhases
<1>0. ASSUME NEW w PROVE Calc!CellsOf(w)' = Calc!CellsOf(w)
  BY <1>1 DEF Calc!CellsOf, Calc!NProc, Calc!NCells
<1>2. \A w \in Calc!Wids : worker[w] = "none" BY <1>1 DEF CalcInv, CalcPhases
<1>3. CASE wid < args[1] /\ file_c[wid] \in {Calc!NoFile, Calc!Emptied}
  <2>1. UNCHANGED <<printed, sums>> /\ err' = TRUE /\ pc_c' = "unlink" /\ wid' = 0
    BY <1>3 DEF Calc!Reduces, Calc!NProc
  <2>2. CalcTypes' BY <1>1, <2>1 DEF CalcInv, CalcTypes
  <2>3. CalcPhases' BY <1>1, <1>2, <2>1 DEF CalcPhases
  <2> QED BY <2>2, <2>3 DEF CalcInv
<1>4. CASE wid < args[1] /\ file_c[wid] \notin {Calc!NoFile, Calc!Emptied}
  <2>1. UNCHANGED <<printed, err, pc_c>> /\ wid' = wid + 1 /\ sums' = Append(sums, file_c[wid][2])
    BY <1>4 DEF Calc!Reduces, Calc!NProc
  <2>2. file_c[wid] = <<"sum", Calc!CellsOf(wid)>>
    <3>1. wid \in 0 .. args[1] - 1 BY <1>4 DEF CalcInv, CalcTypes
    <3>2. Fresh(wid) BY <1>1, <3>1 DEF CalcInv, CalcPhases
    <3> QED BY <1>4, <3>2 DEF Fresh
  <2>3. Calc!CellsOf(wid) \in SUBSET (Nat \X Nat)
    <3>1. args[2] \in Nat BY DEF CalcInv, CalcTypes
    <3>2. \A i \in 0 .. args[2] - 1 : <<args[2], i>> \in Nat \X Nat BY <3>1
    <3> QED BY <3>2 DEF Calc!CellsOf, Calc!NCells
  <2>4. sums' = Append(sums, Calc!CellsOf(wid)) BY <2>1, <2>2
  <2>5. sums' \in Seq(SUBSET (Nat \X Nat)) /\ Len(sums') = wid + 1 /\ sums'[wid + 1] = Calc!CellsOf(wid)
        /\ \A k \in 1 .. wid : sums'[k] = sums[k]
    BY <1>1, <2>3, <2>4, AppendProperties, LenProperties DEF Added, CalcInv, CalcTypes
  <2>6. Added(wid)'
    <3>1. wid \in Nat BY DEF CalcInv, CalcTypes
    <3> QED BY <1>0, <1>1, <2>1, <2>5, <3>1 DEF Added
  <2>7. CalcTypes' BY <1>1, <1>4, <2>1, <2>5 DEF CalcInv, CalcTypes
  <2>8. \A w \in 0 .. args'[1] - 1 : Fresh(w)' BY <1>0, <1>1 DEF CalcInv, CalcPhases, Fresh
  <2>9. CalcPhases' BY <1>1, <1>2, <2>1, <2>6, <2>8 DEF CalcPhases
  <2> QED BY <2>7, <2>9 DEF CalcInv
<1>5. CASE ~(wid < args[1])
  <2>1. UNCHANGED <<err, sums>> /\ printed' = TRUE /\ pc_c' = "unlink" /\ wid' = 0
    BY <1>5 DEF Calc!Reduces, Calc!NProc
  <2>2. wid = args[1] BY <1>5 DEF CalcInv, CalcTypes
  <2>3. CalcTypes' BY <1>1, <2>1 DEF CalcInv, CalcTypes
  <2>4. Added(args[1])' BY <1>0, <1>1, <2>1, <2>2 DEF Added
  <2>5. CalcPhases' BY <1>1, <1>2, <2>1, <2>4 DEF CalcPhases
  <2> QED BY <2>3, <2>5 DEF CalcInv
<1> QED BY <1>3, <1>4, <1>5

LEMMA UnlinksStep == ASSUME CalcInv, Calc!Unlinks PROVE CalcInv'
<1>1. pc_c = "unlink" /\ UNCHANGED <<args, worker, err, sums, printed>> BY DEF Calc!Unlinks
<1>0. Added(args[1])' <=> Added(args[1])
  BY <1>1 DEF Added, Calc!CellsOf, Calc!NProc, Calc!NCells
<1>2. \A w \in Calc!Wids : worker[w] = "none" BY <1>1 DEF CalcInv, CalcPhases
<1>3. CASE wid < args[1] /\ file_c' = [file_c EXCEPT ![wid] = Calc!NoFile] /\ wid' = wid + 1
           /\ UNCHANGED pc_c
  <2>1. wid \in Calc!Wids BY <1>1, <1>3, WidsOfRun DEF CalcInv, CalcTypes
  <2>2. file_c' = [w \in Calc!Wids |-> file_c'[w]] /\ file_c'[wid] = Calc!NoFile
        /\ \A w \in Calc!Wids : w # wid => file_c'[w] = file_c[w]
    BY <1>3, <2>1 DEF CalcInv, CalcTypes
  <2>3. CalcTypes' BY <1>1, <1>3, <2>2 DEF CalcInv, CalcTypes
  <2>4. ASSUME NEW w \in 0 .. wid' - 1 PROVE file_c'[w] = Calc!NoFile
    <3>0. wid \in Nat /\ args[1] \in Nat BY DEF CalcInv, CalcTypes
    <3>1. CASE w = wid BY <2>2, <3>1
    <3>2. CASE w # wid
      <4>1. w \in 0 .. wid - 1 /\ w \in 0 .. args[1] - 1 BY <1>3, <3>0, <3>2
      <4>2. w \in Calc!Wids BY <1>1, <4>1, WidsOfRun DEF CalcInv
      <4>3. file_c[w] = Calc!NoFile BY <1>1, <4>1 DEF CalcInv, CalcPhases
      <4> QED BY <2>2, <3>2, <4>2, <4>3
    <3> QED BY <3>1, <3>2
  <2>5. CalcPhases' BY <1>0, <1>1, <1>2, <1>3, <2>4 DEF CalcInv, CalcPhases
  <2> QED BY <2>3, <2>5 DEF CalcInv
<1>4. CASE pc_c' = "idle" /\ UNCHANGED <<file_c, wid>>
  <2>1. CalcTypes' BY <1>1, <1>4 DEF CalcInv, CalcTypes
  <2>2. CalcPhases' BY <1>0, <1>1, <1>2, <1>4 DEF CalcInv, CalcPhases
  <2> QED BY <2>1, <2>2 DEF CalcInv
<1> QED BY <1>3, <1>4 DEF Calc!Unlinks, Calc!NProc

LEMMA InterruptedStep == ASSUME CalcInv, Calc!Interrupted PROVE CalcInv'
<1>1. /\ pc_c' = "idle" /\ worker' = [w \in Calc!Wids |-> "none"]
      /\ UNCHANGED <<args, wid, file_c, err, sums, printed>>
  BY DEF Calc!Interrupted
<1>0. Added(args[1])' <=> Added(args[1])
  BY <1>1 DEF Added, Calc!CellsOf, Calc!NProc, Calc!NCells
<1>2. CalcTypes' BY <1>1 DEF CalcInv, CalcTypes
<1>3. CalcPhases' BY <1>0, <1>1 DEF CalcInv, CalcPhases
<1> QED BY <1>2, <1>3 DEF CalcInv

LEMMA CalcNext == CalcInv /\ [Next]_vars => CalcInv'
<1> SUFFICES ASSUME CalcInv, [Next]_vars PROVE CalcInv'
  OBVIOUS
<1>1. CASE UNCHANGED calcVars
  <2>1. UNCHANGED <<args, pc_c, wid, worker, file_c, err, sums, printed>> BY <1>1 DEF calcVars
  <2>2. ASSUME NEW w PROVE Calc!CellsOf(w)' = Calc!CellsOf(w)
    BY <2>1 DEF Calc!CellsOf, Calc!NProc, Calc!NCells
  <2>3. CalcTypes' BY <2>1 DEF CalcInv, CalcTypes
  <2>4. CalcPhases' BY <2>1, <2>2 DEF CalcInv, CalcPhases, Added, Fresh
  <2> QED BY <2>3, <2>4 DEF CalcInv
<1>2. CASE Calc!Next
  BY <1>2, CalcStartsStep, ForksStep, WaitsStep, ReducesStep, UnlinksStep, InterruptedStep, CalcWorkerStep
     DEF Calc!Next, Calc!Parent
<1>3. UNCHANGED calcVars \/ Calc!Next
  BY DEF Next, vars, Only, SignalStep, SearchStep
<1> QED BY <1>1, <1>2, <1>3

\* A printed result adds every cell of its own run once, whatever failed and whatever files
\* earlier runs left, for any numbers of workers and cells.
THEOREM PrintedResultIsWhole == Spec => []ResultIsWhole
<1>1. Init => CalcInv BY CalcInit DEF Init
<1>2. CalcInv => ResultIsWhole
  <2> SUFFICES ASSUME CalcInv PROVE ResultIsWhole
    OBVIOUS
  <2> DEFINE n == args[1]
             m == args[2]
  <2>1. n \in Nat \ {0} /\ m \in Nat BY DEF CalcInv, CalcTypes
  <2>2. \A i \in Nat : i % n \in 0 .. n - 1 BY <2>1
  <2>3. \A w : Calc!CellsOf(w) = {<<m, i>> : i \in {j \in 0 .. m - 1 : j % n = w}}
    BY DEF Calc!CellsOf, Calc!NProc, Calc!NCells
  <2> HIDE DEF n, m
  <2>4. ASSUME printed
        PROVE  /\ UNION Calc!ToSet(sums) = {<<m, i>> : i \in 0 .. m - 1}
               /\ \A k, l \in DOMAIN sums : k # l => sums[k] \cap sums[l] = {}
    <3>1. DOMAIN sums = 1 .. n /\ \A k \in 1 .. n : sums[k] = Calc!CellsOf(k - 1)
      BY <2>4, LenProperties DEF CalcInv, CalcTypes, CalcPhases, Added, n
    <3>2. Calc!ToSet(sums) = {sums[k] : k \in 1 .. n} BY <3>1 DEF Calc!ToSet
    <3>3. ASSUME NEW i \in 0 .. m - 1 PROVE \E k \in 1 .. n : <<m, i>> \in sums[k]
      <4>1. (i % n) + 1 \in 1 .. n /\ ((i % n) + 1) - 1 = i % n BY <2>1, <2>2
      <4>2. <<m, i>> \in Calc!CellsOf(i % n) BY <2>3
      <4>3. <<m, i>> \in sums[(i % n) + 1] BY <3>1, <4>1, <4>2
      <4> QED BY <4>1, <4>3
    <3>4. \A k \in 1 .. n : sums[k] \subseteq {<<m, i>> : i \in 0 .. m - 1} BY <2>3, <3>1
    <3>5. UNION Calc!ToSet(sums) = {<<m, i>> : i \in 0 .. m - 1} BY <3>2, <3>3, <3>4
    <3>6. ASSUME NEW k \in 1 .. n, NEW l \in 1 .. n, NEW c \in sums[k] \cap sums[l] PROVE k = l
      <4>1. PICK i \in 0 .. m - 1 : c = <<m, i>> /\ i % n = k - 1 BY <2>3, <3>1
      <4>2. PICK j \in 0 .. m - 1 : c = <<m, j>> /\ j % n = l - 1 BY <2>3, <3>1
      <4>3. i = j BY <4>1, <4>2
      <4> QED BY <2>1, <4>1, <4>2, <4>3
    <3> QED BY <3>1, <3>5, <3>6
  <2>5. pc_c = "unlink" => \A w \in 0 .. wid - 1 : file_c[w] = Calc!NoFile BY DEF CalcInv, CalcPhases
  <2> QED BY <2>4, <2>5 DEF ResultIsWhole, Calc!ResultIsWhole, Calc!NCells, m
<1> QED BY <1>1, <1>2, CalcNext, PTL DEF Spec

-----------------------------------------------------------------------------
(* Image inversion.  In either mode the pixels of the threads part the      *)
(* image, so each is inverted once, in any order of the threads.  What the   *)
(* loader holds is said of each number of words it has read.                 *)

(* Division.                                                               *)

LEMMA Division ==
  ASSUME NEW a \in Nat, NEW n \in Nat \ {0}
  PROVE  a \div n \in Nat /\ a % n \in 0 .. n - 1 /\ a = (a \div n) * n + (a % n)
OBVIOUS

LEMMA Products ==
  ASSUME NEW a \in Nat, NEW b \in Nat, NEW n \in Nat
  PROVE  a * n \in Nat /\ (a <= b => a * n <= b * n) /\ (a + 1) * n = a * n + n
<1>1. a <= b => a * n <= b * n
  <2> SUFFICES ASSUME a <= b PROVE a * n <= b * n OBVIOUS
  <2>1. (b - a) * n >= 0 OBVIOUS
  <2>2. b * n = a * n + (b - a) * n OBVIOUS
  <2> QED BY <2>1, <2>2
<1> QED BY <1>1

LEMMA DigitsUnique ==
  ASSUME NEW n \in Nat \ {0}, NEW a \in Nat, NEW b \in Nat, NEW t \in 0 .. n - 1, NEW u \in 0 .. n - 1,
         a * n + t = b * n + u
  PROVE  a = b /\ t = u
<1>1. \A c, d \in Nat : \A x, y \in 0 .. n - 1 : c * n + x = d * n + y => ~(c < d)
  <2> SUFFICES ASSUME NEW c \in Nat, NEW d \in Nat, NEW x \in 0 .. n - 1, NEW y \in 0 .. n - 1,
                      c * n + x = d * n + y, c < d
               PROVE  FALSE
    OBVIOUS
  <2>1. (c + 1) * n <= d * n /\ (c + 1) * n = c * n + n /\ c * n \in Nat /\ d * n \in Nat BY Products
  <2> QED BY <2>1
<1>2. ~(a < b) /\ ~(b < a) BY <1>1
<1>3. a = b BY <1>2
<1> QED BY <1>3

LEMMA DigitsFit ==
  ASSUME NEW n \in Nat, NEW m \in Nat, NEW y \in 0 .. m - 1, NEW x \in 0 .. n - 1
  PROVE  y * n + x \in 0 .. m * n - 1
<1>1. (y + 1) * n <= m * n /\ (y + 1) * n = y * n + n /\ y * n \in Nat /\ m * n \in Nat BY Products
<1> QED BY <1>1

LEMMA QuotientFits ==
  ASSUME NEW n \in Nat \ {0}, NEW m \in Nat, NEW i \in Nat, i < m * n
  PROVE  i \div n < m
<1> DEFINE q == i \div n
<1>1. q \in Nat /\ i % n \in 0 .. n - 1 /\ i = q * n + (i % n) BY Division
<1> HIDE DEF q
<1>2. ASSUME m <= q PROVE FALSE
  <2>1. m * n <= q * n /\ q * n \in Nat /\ m * n \in Nat BY <1>1, <1>2, Products
  <2> QED BY <1>1, <2>1
<1>3. q < m BY <1>1, <1>2
<1> QED BY <1>3 DEF q

\* every n-th from t on, below size
LEMMA EveryNth ==
  ASSUME NEW n \in Nat \ {0}, NEW size \in Nat, NEW t \in 0 .. n - 1
  PROVE  /\ (size + n - 1 - t) \div n \in Nat
         /\ \A k \in Nat \ {0} : k <= (size + n - 1 - t) \div n <=> t + (k - 1) * n < size
<1> DEFINE a == size + n - 1 - t
           c == a \div n
           r == a % n
<1>1. a \in Nat OBVIOUS
<1>2. c \in Nat /\ r \in 0 .. n - 1 /\ a = c * n + r BY <1>1, Division
<1>3. size - t = c * n + r - n + 1 BY <1>2
<1> HIDE DEF c, r
<1>4. ASSUME NEW k \in Nat \ {0} PROVE k <= c <=> t + (k - 1) * n < size
  <2> DEFINE j == k - 1
  <2>1. j \in Nat /\ k = j + 1 OBVIOUS
  <2>2. (j + 1) * n = j * n + n /\ j * n \in Nat /\ c * n \in Nat BY <1>2, <2>1, Products
  <2>3. k * n = j * n + n BY <2>1, <2>2
  <2> HIDE DEF j
  <2>4. ASSUME k <= c PROVE t + j * n < size
    <3>1. k * n <= c * n BY <1>2, <2>4, Products
    <3> QED BY <1>2, <1>3, <2>2, <2>3, <3>1
  <2>5. ASSUME ~(k <= c) PROVE ~(t + j * n < size)
    <3>1. c + 1 <= k BY <1>2, <2>5
    <3>2. (c + 1) * n <= k * n /\ (c + 1) * n = c * n + n BY <1>2, <3>1, Products
    <3> QED BY <1>2, <1>3, <2>2, <2>3, <3>2
  <2> QED BY <2>4, <2>5 DEF j
<1> QED BY <1>2, <1>4 DEF c

(* The pixels of the threads.                                              *)

Shape ==
  img.w \in Nat /\ img.h \in Nat /\ nthr \in Nat \ {0} /\ order \in {"numbers", "block"}

\* every pixel is some thread's, once
Parted ==
  LET Numbers(t) == 1 .. Image!Count(t)
      Ids == 0 .. nthr - 1
  IN  /\ \A t \in Ids : Image!Count(t) \in Nat
      /\ \A t \in Ids : \A k \in Numbers(t) : Image!Pixel(t, k) \in 0 .. img.w * img.h - 1
      /\ \A t, u \in Ids : \A k \in Numbers(t), l \in Numbers(u) :
           Image!Pixel(t, k) = Image!Pixel(u, l) => t = u /\ k = l
      /\ \A i \in 0 .. img.w * img.h - 1 : \E t \in Ids : \E k \in Numbers(t) : Image!Pixel(t, k) = i

LEMMA NumbersPart == ASSUME Shape, order = "numbers" PROVE Parted
<1> DEFINE n == nthr
           size == img.w * img.h
           Ids == 0 .. n - 1
<1>1. n \in Nat \ {0} /\ size \in Nat BY Products DEF Shape
<1>2. ASSUME NEW t
      PROVE  Image!Count(t) = (size + n - 1 - t) \div n
             /\ \A k : Image!Pixel(t, k) = t + (k - 1) * n
  BY DEF Image!Count, Image!Pixel
<1> HIDE DEF n, size
<1>3. ASSUME NEW t \in Ids
      PROVE  /\ Image!Count(t) \in Nat
             /\ \A k \in Nat \ {0} : k <= Image!Count(t) <=> Image!Pixel(t, k) < size
  <2>1. /\ (size + n - 1 - t) \div n \in Nat
        /\ \A k \in Nat \ {0} : k <= (size + n - 1 - t) \div n <=> t + (k - 1) * n < size
    BY <1>1, EveryNth
  <2> QED BY <1>2, <2>1
<1>4. ASSUME NEW t \in Ids, NEW k \in 1 .. Image!Count(t)
      PROVE  k \in Nat \ {0} /\ k <= Image!Count(t) /\ k - 1 \in Nat /\ (k - 1) * n \in Nat
             /\ Image!Pixel(t, k) = (k - 1) * n + t
  <2>1. k \in Nat \ {0} /\ k <= Image!Count(t) /\ k - 1 \in Nat BY <1>3
  <2>2. (k - 1) * n \in Nat BY <1>1, <2>1, Products
  <2>3. Image!Pixel(t, k) = t + (k - 1) * n BY <1>2
  <2>4. t \in Int BY <1>1
  <2> QED BY <2>1, <2>2, <2>3, <2>4
<1>5. ASSUME NEW t \in Ids, NEW k \in 1 .. Image!Count(t) PROVE Image!Pixel(t, k) \in 0 .. size - 1
  <2>1. t \in Nat BY <1>1
  <2>2. Image!Pixel(t, k) < size BY <1>3, <1>4
  <2> QED BY <1>1, <1>4, <2>1, <2>2
<1>6. ASSUME NEW t \in Ids, NEW u \in Ids, NEW k \in 1 .. Image!Count(t), NEW l \in 1 .. Image!Count(u),
             Image!Pixel(t, k) = Image!Pixel(u, l)
      PROVE  t = u /\ k = l
  <2> DEFINE a == k - 1
             c == l - 1
  <2>1. a \in Nat /\ c \in Nat /\ k = a + 1 /\ l = c + 1 BY <1>4
  <2>2. a * n + t = c * n + u BY <1>4, <1>6
  <2> HIDE DEF a, c
  <2>3. a = c /\ t = u BY <1>1, <2>1, <2>2, DigitsUnique
  <2> QED BY <2>1, <2>3
<1>7. ASSUME NEW i \in 0 .. size - 1
      PROVE  \E t \in Ids : \E k \in 1 .. Image!Count(t) : Image!Pixel(t, k) = i
  <2> DEFINE q == i \div n
             t == i % n
             k == q + 1
  <2>1. i \in Nat /\ i < size BY <1>1
  <2>2. q \in Nat /\ t \in Ids /\ i = q * n + t BY <1>1, <2>1, Division
  <2> HIDE DEF q, t
  <2>3. k \in Nat \ {0} /\ k - 1 = q BY <2>2
  <2> HIDE DEF k
  <2>4. q * n \in Nat /\ t \in Int BY <1>1, <2>2, Products
  <2>5. Image!Pixel(t, k) = i
    <3>1. Image!Pixel(t, k) = t + (k - 1) * n BY <1>2
    <3>2. Image!Pixel(t, k) = t + q * n BY <2>3, <3>1
    <3> QED BY <2>2, <2>4, <3>2
  <2>6. k <= Image!Count(t) BY <1>3, <2>1, <2>2, <2>3, <2>5
  <2>7. k \in 1 .. Image!Count(t) BY <1>3, <2>2, <2>3, <2>6
  <2> QED BY <2>2, <2>5, <2>7
<1> HIDE DEF Ids
<1>8. /\ \A t \in Ids : Image!Count(t) \in Nat
      /\ \A t \in Ids : \A k \in 1 .. Image!Count(t) : Image!Pixel(t, k) \in 0 .. size - 1
      /\ \A t, u \in Ids : \A k \in 1 .. Image!Count(t), l \in 1 .. Image!Count(u) :
           Image!Pixel(t, k) = Image!Pixel(u, l) => t = u /\ k = l
      /\ \A i \in 0 .. size - 1 : \E t \in Ids : \E k \in 1 .. Image!Count(t) : Image!Pixel(t, k) = i
  BY ONLY <1>3, <1>5, <1>6, <1>7, Zenon
<1> QED BY ONLY <1>8, Zenon DEF Parted, Ids, size, n

\* The columns of a block, and the pixels in them.
LEMMA BlockColumns ==
  ASSUME NEW w \in Nat, NEW n \in Nat \ {0}
  PROVE  LET b == Image!BlockWidth(w, n) IN b \in Nat /\ w <= n * b
<1> DEFINE a == w + n - 1
           b == a \div n
<1>1. a \in Nat OBVIOUS
<1>2. b \in Nat /\ a % n \in 0 .. n - 1 /\ a = b * n + (a % n) BY <1>1, Division
<1>3. b = Image!BlockWidth(w, n) BY DEF Image!BlockWidth
<1>4. w <= b * n
  <2>1. w = b * n + (a % n) - n + 1 BY <1>2
  <2> HIDE DEF a, b
  <2>2. b * n \in Nat BY <1>2, Products
  <2> QED BY <1>2, <2>1, <2>2
<1> HIDE DEF b
<1>5. b * n = n * b BY <1>2
<1> QED BY <1>2, <1>3, <1>4, <1>5

LEMMA ColumnsAre ==
  ASSUME Shape, NEW t \in Nat
  PROVE  LET b == Image!BlockWidth(img.w, nthr) IN
         /\ Image!Columns(t) \in Nat
         /\ \A c \in Nat : c < Image!Columns(t) <=> c < b /\ t * b + c < img.w
<1> DEFINE b == Image!BlockWidth(img.w, nthr)
           w == img.w
<1>1. b \in Nat /\ w \in Nat BY BlockColumns DEF Shape
<1>2. Image!Columns(t) = IF (t + 1) * b <= w THEN b ELSE IF t * b <= w THEN w - t * b ELSE 0
  BY DEF Image!Columns
<1> HIDE DEF b, w
<1>3. t * b \in Nat /\ (t + 1) * b = t * b + b BY <1>1, Products
<1>4. Image!Columns(t) \in Nat BY <1>1, <1>2, <1>3
<1>5. ASSUME NEW c \in Nat PROVE c < Image!Columns(t) <=> c < b /\ t * b + c < w
  BY <1>1, <1>2, <1>3
<1> QED BY <1>4, <1>5 DEF b, w

LEMMA BlocksPart == ASSUME Shape, order = "block" PROVE Parted
<1> DEFINE n == nthr
           w == img.w
           h == img.h
           b == Image!BlockWidth(w, n)
           cols(t) == Image!Columns(t)
           Ids == 0 .. n - 1
<1>1. n \in Nat \ {0} /\ w \in Nat /\ h \in Nat BY DEF Shape
<1>2. b \in Nat /\ w <= n * b BY <1>1, BlockColumns
<1>3. ASSUME NEW t \in Ids
      PROVE  /\ t \in Nat /\ cols(t) \in Nat
             /\ \A c \in Nat : c < cols(t) <=> c < b /\ t * b + c < w
  <2>1. t \in Nat BY <1>1
  <2> QED BY <2>1, ColumnsAre
<1>4. ASSUME NEW t
      PROVE  /\ Image!Count(t) = cols(t) * h
             /\ \A k : Image!Pixel(t, k) = ((k - 1) % h) * w + (t * b + (k - 1) \div h)
  <2>1. order # "numbers" BY "block" # "numbers"
  <2> QED BY <2>1 DEF Image!Count, Image!Pixel
<1> HIDE DEF n, w, h, b, cols
\* the column and the row of a pixel of a thread
<1>5. ASSUME NEW t \in Ids, NEW k \in 1 .. Image!Count(t)
      PROVE  \E c \in Nat, y \in 0 .. h - 1 :
               /\ h \in Nat \ {0} /\ c < b /\ t * b + c \in 0 .. w - 1
               /\ k - 1 = c * h + y /\ Image!Pixel(t, k) = y * w + (t * b + c)
  <2> DEFINE c == (k - 1) \div h
             y == (k - 1) % h
  <2>1. cols(t) * h \in Nat BY <1>1, <1>3, Products
  <2>2. k - 1 \in Nat /\ k - 1 < cols(t) * h /\ k \in Int BY <1>4, <2>1
  <2>3. h # 0
    <3> SUFFICES ASSUME h = 0 PROVE FALSE OBVIOUS
    <3>1. cols(t) * 0 = 0 BY <1>3
    <3> QED BY <2>2, <3>1
  <2>4. c \in Nat /\ y \in 0 .. h - 1 /\ k - 1 = c * h + y BY <1>1, <2>2, <2>3, Division
  <2>5. c < cols(t) BY <1>1, <1>3, <2>2, <2>3, QuotientFits
  <2>6. Image!Pixel(t, k) = y * w + (t * b + c) BY <1>4
  <2> HIDE DEF c, y
  <2>7. t * b \in Nat BY <1>2, <1>3, Products
  <2>8. c < b /\ t * b + c < w BY <1>3, <2>4, <2>5
  <2>9. t * b + c \in 0 .. w - 1 BY <1>1, <2>4, <2>7, <2>8
  <2> QED BY <1>1, <2>3, <2>4, <2>6, <2>8, <2>9
<1>6. ASSUME NEW t \in Ids PROVE Image!Count(t) \in Nat BY <1>1, <1>3, <1>4, Products
<1>7. w * h = h * w BY <1>1
<1>8. ASSUME NEW t \in Ids, NEW k \in 1 .. Image!Count(t) PROVE Image!Pixel(t, k) \in 0 .. w * h - 1
  <2>1. PICK c \in Nat, y \in 0 .. h - 1 :
          t * b + c \in 0 .. w - 1 /\ Image!Pixel(t, k) = y * w + (t * b + c)
    BY <1>5
  <2> DEFINE x == t * b + c
  <2>2. x \in 0 .. w - 1 /\ Image!Pixel(t, k) = y * w + x BY <2>1
  <2> HIDE DEF x
  <2>3. y * w + x \in 0 .. h * w - 1 BY <1>1, <2>2, DigitsFit
  <2> QED BY <1>7, <2>2, <2>3
<1>9. ASSUME NEW t \in Ids, NEW u \in Ids, NEW k \in 1 .. Image!Count(t), NEW l \in 1 .. Image!Count(u),
             Image!Pixel(t, k) = Image!Pixel(u, l)
      PROVE  t = u /\ k = l
  <2>1. PICK c \in Nat, y \in 0 .. h - 1 :
          /\ h \in Nat \ {0} /\ c < b /\ t * b + c \in 0 .. w - 1
          /\ k - 1 = c * h + y /\ Image!Pixel(t, k) = y * w + (t * b + c)
    BY <1>5
  <2>2. PICK d \in Nat, z \in 0 .. h - 1 :
          /\ h \in Nat \ {0} /\ d < b /\ u * b + d \in 0 .. w - 1
          /\ l - 1 = d * h + z /\ Image!Pixel(u, l) = z * w + (u * b + d)
    BY <1>5
  <2>3. y = z /\ t * b + c = u * b + d
    <3> DEFINE x == t * b + c
               v == u * b + d
    <3>1. x \in 0 .. w - 1 /\ v \in 0 .. w - 1 /\ y * w + x = z * w + v BY <1>9, <2>1, <2>2
    <3> HIDE DEF x, v
    <3>2. w \in Nat \ {0} /\ y \in Nat /\ z \in Nat BY <1>1, <3>1
    <3>3. y = z /\ x = v BY <3>1, <3>2, DigitsUnique
    <3> QED BY <3>3 DEF x, v
  <2>4. t = u /\ c = d
    <3>1. b \in Nat \ {0} /\ c \in 0 .. b - 1 /\ d \in 0 .. b - 1 BY <1>2, <2>1, <2>2
    <3>2. t \in Nat /\ u \in Nat BY <1>3
    <3> QED BY <2>3, <3>1, <3>2, DigitsUnique
  <2>5. k - 1 = l - 1 BY <2>1, <2>2, <2>3, <2>4
  <2>6. k \in Int /\ l \in Int OBVIOUS
  <2> QED BY <2>4, <2>5, <2>6
<1>10. ASSUME NEW i \in 0 .. w * h - 1
       PROVE  \E t \in Ids : \E k \in 1 .. Image!Count(t) : Image!Pixel(t, k) = i
  <2>0. w * h \in Nat BY <1>1, Products
  <2>1. i \in Nat /\ i < h * w BY <1>7, <2>0
  <2>2. w # 0
    <3> SUFFICES ASSUME w = 0 PROVE FALSE OBVIOUS
    <3>1. h * 0 = 0 BY <1>1
    <3> QED BY <2>1, <3>1
  <2> DEFINE y == i \div w
             x == i % w
  <2>3. y \in Nat /\ x \in 0 .. w - 1 /\ i = y * w + x BY <1>1, <2>1, <2>2, Division
  <2>4. y < h BY <1>1, <2>1, <2>2, QuotientFits
  <2> HIDE DEF y, x
  <2>5. b # 0
    <3> SUFFICES ASSUME b = 0 PROVE FALSE OBVIOUS
    <3>1. n * 0 = 0 BY <1>1
    <3> QED BY <1>1, <1>2, <2>2, <3>1
  <2> DEFINE t == x \div b
             c == x % b
  <2>6. x \in Nat /\ x < n * b
    <3>1. n * b \in Nat BY <1>1, <1>2, Products
    <3> QED BY <1>1, <1>2, <2>3, <3>1
  <2>7. t \in Nat /\ c \in 0 .. b - 1 /\ x = t * b + c BY <1>2, <2>5, <2>6, Division
  <2>8. t < n BY <1>1, <1>2, <2>5, <2>6, QuotientFits
  <2> HIDE DEF t, c
  <2>9. t \in Ids /\ c \in Nat /\ c < cols(t)
    <3>1. t \in Ids /\ c \in Nat BY <1>1, <1>2, <2>7, <2>8
    <3>2. c < b /\ t * b + c < w BY <1>1, <1>2, <2>3, <2>7
    <3> QED BY <1>3, <3>1, <3>2
  <2> DEFINE k == c * h + y + 1
  <2>10. h \in Nat \ {0} /\ y \in 0 .. h - 1 BY <1>1, <2>3, <2>4
  <2>11. c * h \in Nat BY <1>1, <2>9, Products
  <2>12. k \in Nat /\ k - 1 = c * h + y BY <2>3, <2>11
  <2>13. k \in 1 .. Image!Count(t)
    <3>1. c \in 0 .. cols(t) - 1 BY <1>3, <2>9
    <3>2. c * h + y \in 0 .. cols(t) * h - 1 BY <1>1, <1>3, <2>9, <2>10, <3>1, DigitsFit
    <3>3. cols(t) * h \in Nat BY <1>1, <1>3, <2>9, Products
    <3> HIDE DEF k
    <3> QED BY <1>4, <2>12, <3>2, <3>3
  <2> HIDE DEF k
  <2>14. (k - 1) \div h = c /\ (k - 1) % h = y
    <3> DEFINE q == (k - 1) \div h
               r == (k - 1) % h
    <3>1. k - 1 \in Nat BY <2>3, <2>11, <2>12
    <3>2. q \in Nat /\ r \in 0 .. h - 1 /\ k - 1 = q * h + r BY <2>10, <3>1, Division
    <3> HIDE DEF q, r
    <3>3. c * h + y = q * h + r BY <2>12, <3>2
    <3>4. c = q /\ y = r BY <2>9, <2>10, <3>2, <3>3, DigitsUnique
    <3> QED BY <3>4 DEF q, r
  <2>15. Image!Pixel(t, k) = i
    <3>1. Image!Pixel(t, k) = ((k - 1) % h) * w + (t * b + (k - 1) \div h) BY <1>4
    <3>2. Image!Pixel(t, k) = y * w + (t * b + c) BY <2>14, <3>1
    <3> QED BY <2>3, <2>7, <3>2
  <2> QED BY <2>9, <2>13, <2>15
<1> HIDE DEF Ids
<1>11. /\ \A t \in Ids : Image!Count(t) \in Nat
       /\ \A t \in Ids : \A k \in 1 .. Image!Count(t) : Image!Pixel(t, k) \in 0 .. w * h - 1
       /\ \A t, u \in Ids : \A k \in 1 .. Image!Count(t), l \in 1 .. Image!Count(u) :
            Image!Pixel(t, k) = Image!Pixel(u, l) => t = u /\ k = l
       /\ \A i \in 0 .. w * h - 1 : \E t \in Ids : \E k \in 1 .. Image!Count(t) : Image!Pixel(t, k) = i
  BY ONLY <1>6, <1>8, <1>9, <1>10, Zenon
<1> QED BY ONLY <1>11, Zenon DEF Parted, Ids, w, h, n

LEMMA PixelsPart == Shape => Parted
BY NumbersPart, BlocksPart DEF Shape

(* The loader.                                                              *)

\* induction: a set of numbers has a least one
LEMMA Least ==
  ASSUME NEW S \in SUBSET Nat, S # {}
  PROVE  \E m \in S : \A k \in S : m <= k
<1> DEFINE R == {p \in Nat \X Nat : p[1] < p[2]}
<1>1. IsWellFoundedOn(R, Nat) BY NatLessThanWellFounded DEF OpToRel
<1>2. PICK m \in S : \A k \in S : ~(<<k, m>> \in R) BY <1>1, WFMin, Zenon
<1>3. ASSUME NEW k \in S PROVE m <= k
  <2>1. k \in Nat /\ m \in Nat OBVIOUS
  <2>2. ~(<<k, m>> \in R) BY <1>2
  <2>3. k < m => <<k, m>> \in R BY <2>1
  <2> QED BY <2>1, <2>2, <2>3
<1> QED BY <1>3

WordType == {"P2", "number", "junk"} \X Nat
FileType == [words : Seq(WordType), closed : BOOLEAN]

\* white space follows the k-th word
Spaced(f, k) == k < Len(f.words) \/ f.closed

LEMMA AfterIs ==
  ASSUME NEW f \in FileType
  PROVE  /\ Image!After(f)[0] = Image!Start
         /\ \A k \in 1 .. Len(f.words) :
              Image!After(f)[k] = Image!Word(Image!After(f)[k - 1], f.words[k], Spaced(f, k))
<1> DEFINE n == Len(f.words)
           Next1(k, ld) == Image!Word(ld, f.words[k], k < n \/ f.closed)
           Good(m, g) == g = [k \in 0 .. m |-> IF k = 0 THEN Image!Start ELSE Next1(k, g[k - 1])]
           Bad == {m \in 0 .. n : \A g : ~Good(m, g)}
<1>1. n \in Nat BY DEF FileType
<1>2. Image!After(f) = CHOOSE g : Good(n, g) BY DEF Image!After
<1> HIDE DEF n, Next1
<1>3. Bad = {}
  <2> SUFFICES ASSUME Bad # {} PROVE FALSE OBVIOUS
  <2>1. Bad \in SUBSET Nat BY <1>1
  <2>2. PICK m \in Bad : \A k \in Bad : m <= k BY <2>1, Least
  <2>3. m \in 0 .. n /\ \A g : ~Good(m, g) OBVIOUS
  <2>4. CASE m = 0
    <3> DEFINE g == [k \in 0 .. 0 |-> Image!Start]
    <3>1. g = [k \in 0 .. 0 |-> IF k = 0 THEN Image!Start ELSE Next1(k, g[k - 1])] OBVIOUS
    <3>2. Good(0, g) BY <3>1
    <3> QED BY <2>3, <2>4, <3>2
  <2>5. CASE m # 0
    <3>1. m - 1 \in 0 .. n /\ ~(m <= m - 1) BY <1>1, <2>3, <2>5
    <3>2. PICK g : Good(m - 1, g) BY <2>2, <3>1
    <3> DEFINE h == [k \in 0 .. m |-> IF k = m THEN Next1(m, g[m - 1]) ELSE g[k]]
    <3>3. ASSUME NEW k \in 0 .. m PROVE h[k] = IF k = 0 THEN Image!Start ELSE Next1(k, h[k - 1])
      <4>1. \A j \in 0 .. m - 1 : g[j] = IF j = 0 THEN Image!Start ELSE Next1(j, g[j - 1])
        <5> HIDE DEF h
        <5> QED BY <3>2
      <4>2. CASE k = 0 BY <1>1, <2>3, <2>5, <4>1, <4>2
      <4>3. CASE k = m
        <5>1. h[k - 1] = g[m - 1] BY <1>1, <2>3, <2>5, <4>3
        <5>2. h[k] = Next1(m, g[m - 1]) BY <4>3
        <5> QED BY <2>5, <4>3, <5>1, <5>2
      <4>4. CASE k # 0 /\ k # m
        <5>1. k \in 0 .. m - 1 /\ k - 1 \in 0 .. m /\ k - 1 # m BY <1>1, <2>3, <4>4
        <5>2. h[k] = g[k] /\ h[k - 1] = g[k - 1] BY <4>4, <5>1
        <5>3. g[k] = Next1(k, g[k - 1]) BY <4>1, <4>4, <5>1
        <5> QED BY <4>4, <5>2, <5>3
      <4> QED BY <4>2, <4>3, <4>4
    <3>4. h = [k \in 0 .. m |-> h[k]] OBVIOUS
    <3> HIDE DEF h
    <3>5. Good(m, h) BY <3>3, <3>4
    <3> QED BY <2>3, <3>5
  <2> QED BY <2>4, <2>5
<1>4. \E g : Good(n, g)
  <2>1. n \in 0 .. n /\ ~(n \in Bad) BY <1>1, <1>3
  <2> HIDE DEF Good
  <2> QED BY <2>1
<1> DEFINE a == Image!After(f)
<1>5. Good(n, a)
  <2> HIDE DEF Good
  <2> QED BY <1>2, <1>4
<1> HIDE DEF a
<1>6. a[0] = Image!Start BY <1>1, <1>5
<1>7. \A k \in 1 .. n : a[k] = Next1(k, a[k - 1])
  <2> SUFFICES ASSUME NEW k \in 1 .. n PROVE a[k] = Next1(k, a[k - 1]) OBVIOUS
  <2>1. k \in 0 .. n /\ k # 0 BY <1>1
  <2> QED BY <1>5, <2>1
<1> QED BY <1>6, <1>7 DEF a, n, Next1, Spaced

LoaderType ==
  [state : {"P2", "WIDTH", "HEIGHT", "MAX", "PIXEL", "ERR"}, w : Nat, h : Nat, max : Nat,
   data : Seq(0 .. 255), n : Nat]

\* what a word does: it is an error, or the one the state wants
WordTakes(ld, new, v, closed) ==
  CASE ld.state = "P2" -> new.state = "WIDTH" /\ new.n = ld.n
    [] ld.state = "WIDTH" -> new.state = "HEIGHT" /\ new.w = v /\ new.n = ld.n
    [] ld.state = "HEIGHT" ->
         /\ new.w = ld.w /\ new.h = v /\ new.n = ld.n
         /\ new.state = IF closed THEN "MAX" ELSE "HEIGHT"
         /\ closed => new.data = [i \in 1 .. ld.w * v |-> 0]
    [] ld.state = "MAX" ->
         /\ new.state = "PIXEL" /\ new.max = v
         /\ new.w = ld.w /\ new.h = ld.h /\ new.data = ld.data /\ new.n = ld.n
    [] ld.state = "PIXEL" ->
         /\ ld.n < ld.w * ld.h
         /\ new.state = "PIXEL" /\ new.max = ld.max /\ new.w = ld.w /\ new.h = ld.h
         /\ new.data = [ld.data EXCEPT ![ld.n + 1] = v % 256]
         /\ new.n = ld.n + (IF closed THEN 1 ELSE 0)
    [] OTHER -> FALSE

LEMMA WordIs ==
  ASSUME NEW ld \in LoaderType, NEW word \in WordType, NEW closed \in BOOLEAN
  PROVE  LET new == Image!Word(ld, word, closed) IN
         new \in LoaderType /\ (new.state = "ERR" \/ WordTakes(ld, new, word[2], closed))
<1> DEFINE D == Seq(0 .. 255)
           States == {"P2", "WIDTH", "HEIGHT", "MAX", "PIXEL", "ERR"}
           Type == [state : States, w : Nat, h : Nat, max : Nat, data : D, n : Nat]
           v == word[2]
           zeros == [i \in 1 .. ld.w * v |-> 0]
           pixels == [ld.data EXCEPT ![ld.n + 1] = v % 256]
           more == IF closed THEN 1 ELSE 0
           new == Image!Word(ld, word, closed)
<1>1. ld \in Type /\ LoaderType = Type BY DEF LoaderType
<1>2. v \in Nat /\ more \in Nat BY DEF WordType
<1>3. <<>> \in D /\ zeros \in D /\ pixels \in D
  <2>1. D = UNION {[1 .. m -> 0 .. 255] : m \in Nat} BY SeqDef
  <2>2. <<>> \in D OBVIOUS
  <2>3. zeros \in D
    <3>1. ld.w * v \in Nat BY <1>1, <1>2, Products
    <3>2. zeros \in [1 .. ld.w * v -> 0 .. 255] OBVIOUS
    <3> QED BY <2>1, <3>1, <3>2
  <2>4. pixels \in D
    <3>1. ld.data \in D BY <1>1
    <3>2. PICK m \in Nat : ld.data \in [1 .. m -> 0 .. 255] BY <2>1, <3>1
    <3>3. v % 256 \in 0 .. 255
      <4> HIDE DEF v
      <4> QED BY <1>2
    <3>4. pixels \in [1 .. m -> 0 .. 255] BY <3>2, <3>3
    <3> QED BY <2>1, <3>4
  <2> QED BY <2>2, <2>3, <2>4
<1> HIDE DEF D, v, zeros, more
<1>4. CASE new = [ld EXCEPT !.state = "ERR"]
  <2> HIDE DEF new
  <2>1. new \in Type /\ new.state = "ERR" BY <1>1, <1>4
  <2> QED BY <1>1, <2>1 DEF new
<1>5. CASE ld.state = "P2" /\ new = [ld EXCEPT !.state = "WIDTH"]
  <2> HIDE DEF new
  <2>1. new \in Type /\ new.state = "WIDTH" /\ new.n = ld.n BY <1>1, <1>5
  <2> QED BY <1>1, <1>5, <2>1 DEF new, WordTakes
<1>6. CASE ld.state = "WIDTH" /\ new = [ld EXCEPT !.state = "HEIGHT", !.w = v]
  <2> HIDE DEF new
  <2>1. new \in Type BY <1>1, <1>2, <1>6
  <2>2. new.state = "HEIGHT" /\ new.w = v /\ new.n = ld.n BY <1>1, <1>6
  <2> QED BY <1>1, <1>6, <2>1, <2>2 DEF new, WordTakes, v
<1>7. CASE ld.state = "HEIGHT" /\ new = [ld EXCEPT !.h = v, !.state = IF closed THEN "MAX" ELSE "HEIGHT",
                                                 !.data = IF closed THEN zeros ELSE <<>>]
  <2> HIDE DEF new
  <2>1. new \in Type BY <1>1, <1>2, <1>3, <1>7
  <2>2. /\ new.w = ld.w /\ new.h = v /\ new.n = ld.n
        /\ new.state = IF closed THEN "MAX" ELSE "HEIGHT"
        /\ closed => new.data = zeros
    BY <1>1, <1>7
  <2> QED BY <1>1, <1>7, <2>1, <2>2 DEF new, WordTakes, v, zeros
<1>8. CASE ld.state = "MAX"
           /\ new = [ld EXCEPT !.max = v, !.state = IF closed /\ v > 255 THEN "ERR" ELSE "PIXEL"]
  <2> HIDE DEF new
  <2>1. new \in Type BY <1>1, <1>2, <1>8
  <2>2. /\ new.state \in {"ERR", "PIXEL"} /\ new.max = v
        /\ new.w = ld.w /\ new.h = ld.h /\ new.data = ld.data /\ new.n = ld.n
    BY <1>1, <1>8
  <2> QED BY <1>1, <1>8, <2>1, <2>2 DEF new, WordTakes, v
<1>9. CASE /\ ld.state = "PIXEL" /\ ld.n < ld.w * ld.h
           /\ new = [ld EXCEPT !.data[ld.n + 1] = v % 256, !.n = @ + more]
  <2> HIDE DEF new
  <2>1. /\ new.state = "PIXEL" /\ new.max = ld.max /\ new.w = ld.w /\ new.h = ld.h
        /\ new.data = pixels /\ new.n = ld.n + more
    BY <1>1, <1>9
  <2>2. new = [ld EXCEPT !.data = pixels, !.n = ld.n + more] BY <1>9, Zenon
  <2>3. new \in Type
    <3> DEFINE sum == ld.n + more
    <3>1. sum \in Nat BY <1>1, <1>2
    <3> HIDE DEF pixels, sum
    <3>2. [ld EXCEPT !.data = pixels, !.n = sum] \in Type BY <1>1, <1>3, <3>1
    <3> QED BY <2>2, <3>2 DEF sum
  <2> QED BY <1>1, <1>9, <2>1, <2>3 DEF new, WordTakes, v, more
<1>10. \/ new = [ld EXCEPT !.state = "ERR"]
       \/ ld.state = "P2" /\ new = [ld EXCEPT !.state = "WIDTH"]
       \/ ld.state = "WIDTH" /\ new = [ld EXCEPT !.state = "HEIGHT", !.w = v]
       \/ ld.state = "HEIGHT" /\ new = [ld EXCEPT !.h = v, !.state = IF closed THEN "MAX" ELSE "HEIGHT",
                                                  !.data = IF closed THEN zeros ELSE <<>>]
       \/ ld.state = "MAX"
          /\ new = [ld EXCEPT !.max = v, !.state = IF closed /\ v > 255 THEN "ERR" ELSE "PIXEL"]
       \/ /\ ld.state = "PIXEL" /\ ld.n < ld.w * ld.h
          /\ new = [ld EXCEPT !.data[ld.n + 1] = v % 256, !.n = @ + more]
  BY DEF Image!Word, v, zeros, more
<1> QED BY <1>4, <1>5, <1>6, <1>7, <1>8, <1>9, <1>10

\* the loader after k words
AfterWords(f, k, ld) ==
  LET size == f.words[2][2] * f.words[3][2] IN
  /\ k = 0 => ld.state = "P2" /\ ld.n = 0
  /\ k = 1 => ld.state = "WIDTH" /\ ld.n = 0
  /\ k = 2 => ld.state = "HEIGHT" /\ ld.n = 0
  /\ k \in 2 .. 3 => ld.w = f.words[2][2]
  /\ k = 3 =>
       /\ ld.h = f.words[3][2] /\ ld.n = 0
       /\ ld.state = IF Spaced(f, 3) THEN "MAX" ELSE "HEIGHT"
       /\ Spaced(f, 3) => ld.data = [i \in 1 .. size |-> 0]
  /\ k > 3 =>
       /\ ld.state = "PIXEL" /\ ld.w = f.words[2][2] /\ ld.h = f.words[3][2] /\ ld.max = f.words[4][2]
       /\ ld.n = IF k = 4 \/ Spaced(f, k) THEN k - 4 ELSE k - 5
       /\ k - 4 <= size /\ ld.data \in [1 .. size -> 0 .. 255]
       /\ \A i \in 1 .. size : ld.data[i] = IF i <= k - 4 THEN f.words[i + 4][2] % 256 ELSE 0

LEMMA AfterStep ==
  ASSUME NEW f \in FileType, NEW k \in 1 .. Len(f.words), NEW ld \in LoaderType, NEW new \in LoaderType,
         AfterWords(f, k - 1, ld), WordTakes(ld, new, f.words[k][2], Spaced(f, k))
  PROVE  AfterWords(f, k, new)
<1> DEFINE n == Len(f.words)
           W(i) == f.words[i][2]
           size == W(2) * W(3)
<1>1. n \in Nat /\ \A i \in 1 .. n : W(i) \in Nat
  <2>1. f.words \in Seq(WordType) /\ n \in Nat BY DEF FileType
  <2>2. \A i \in 1 .. n : f.words[i] \in WordType BY <2>1
  <2> QED BY <2>1, <2>2 DEF WordType
<1>2. \A i \in 1 .. n - 1 : Spaced(f, i) BY <1>1 DEF Spaced
<1>3. k \in 1 .. n OBVIOUS
<1>4. ld.n \in Nat /\ ld.w \in Nat /\ ld.h \in Nat BY DEF LoaderType
<1> HIDE DEF n
<1>5. CASE k = 1 BY <1>1, <1>5 DEF AfterWords, WordTakes
<1>6. CASE k = 2 BY <1>1, <1>6 DEF AfterWords, WordTakes
<1>7. CASE k = 3
  <2>1. ld.state = "HEIGHT" /\ ld.n = 0 /\ ld.w = W(2) BY <1>7 DEF AfterWords
  <2>2. /\ new.w = W(2) /\ new.h = W(3) /\ new.n = 0
        /\ new.state = IF Spaced(f, 3) THEN "MAX" ELSE "HEIGHT"
        /\ Spaced(f, 3) => new.data = [i \in 1 .. W(2) * W(3) |-> 0]
    BY <1>7, <2>1 DEF WordTakes
  <2>3. k # 0 /\ k # 1 /\ k # 2 /\ ~(k > 3) BY <1>7
  <2> QED BY <1>7, <2>2, <2>3 DEF AfterWords
<1>8. CASE k = 4
  <2>1. Spaced(f, 3) BY <1>1, <1>2, <1>3, <1>8
  <2>2. ld.state = "MAX" /\ ld.n = 0 /\ ld.h = W(3) /\ ld.w = W(2) /\ ld.data = [i \in 1 .. size |-> 0]
    BY <1>8, <2>1 DEF AfterWords
  <2>3. /\ new.state = "PIXEL" /\ new.max = W(4) /\ new.w = W(2) /\ new.h = W(3)
        /\ new.data = [i \in 1 .. size |-> 0] /\ new.n = 0
    BY <1>8, <2>2 DEF WordTakes
  <2>4. size \in Nat BY <1>1, <1>3, <1>8, Products
  <2> HIDE DEF size
  <2>5. /\ new.data \in [1 .. size -> 0 .. 255] /\ 0 <= size
        /\ \A i \in 1 .. size : new.data[i] = 0 /\ ~(i <= 0)
    BY <2>3, <2>4
  <2>6. k > 3 /\ ~(k \in 2 .. 3) /\ k - 4 = 0 BY <1>8
  <2> QED BY <1>8, <2>3, <2>5, <2>6 DEF AfterWords, size
<1>9. CASE k > 4
  <2>1. k - 1 > 3 /\ k - 1 \in 1 .. n - 1 /\ ~(k - 1 \in 2 .. 3) BY <1>1, <1>3, <1>9
  <2>2. Spaced(f, k - 1) BY <1>2, <2>1
  <2>3. /\ ld.state = "PIXEL" /\ ld.w = W(2) /\ ld.h = W(3) /\ ld.max = W(4)
        /\ ld.n = k - 5 /\ ld.data \in [1 .. size -> 0 .. 255]
        /\ \A i \in 1 .. size : ld.data[i] = IF i <= k - 5 THEN W(i + 4) % 256 ELSE 0
    BY <1>1, <1>3, <2>1, <2>2 DEF AfterWords
  <2>4. /\ k - 5 < size
        /\ new.state = "PIXEL" /\ new.w = W(2) /\ new.h = W(3) /\ new.max = W(4)
        /\ new.data = [ld.data EXCEPT ![k - 5 + 1] = W(k) % 256]
        /\ new.n = k - 5 + (IF Spaced(f, k) THEN 1 ELSE 0)
    BY <2>3 DEF WordTakes
  <2>5. size \in Nat BY <1>1, <1>3, <1>9, Products
  <2> HIDE DEF size
  <2>6. k - 5 + 1 = k - 4 /\ k - 4 \in 1 .. size BY <1>1, <1>3, <1>9, <2>4, <2>5
  <2>7. new.data = [ld.data EXCEPT ![k - 4] = W(k) % 256] BY <2>4, <2>6
  <2>8. W(k) % 256 \in 0 .. 255
    <3> DEFINE v == W(k)
    <3>1. v \in Nat BY <1>1, <1>3
    <3> HIDE DEF v
    <3>2. v % 256 \in 0 .. 255 BY <3>1
    <3> QED BY <3>2 DEF v
  <2>9. new.data \in [1 .. size -> 0 .. 255] BY <2>3, <2>7, <2>8
  <2>10. ASSUME NEW i \in 1 .. size
         PROVE  new.data[i] = IF i <= k - 4 THEN W(i + 4) % 256 ELSE 0
    <3>1. CASE i = k - 4
      <4>1. i + 4 = k BY <1>1, <1>3, <3>1
      <4> QED BY <2>3, <2>5, <2>7, <3>1, <4>1
    <3>2. CASE i # k - 4
      <4>1. new.data[i] = ld.data[i] BY <2>3, <2>7, <3>2
      <4>2. i <= k - 4 <=> i <= k - 5 BY <1>1, <1>3, <2>5, <3>2
      <4> QED BY <2>3, <4>1, <4>2
    <3> QED BY <3>1, <3>2
  <2>11. new.n = IF k = 4 \/ Spaced(f, k) THEN k - 4 ELSE k - 5 BY <1>1, <1>3, <1>9, <2>4
  <2>12. k - 4 <= size /\ k > 3 /\ ~(k \in 2 .. 3) /\ k # 0 /\ k # 1 /\ k # 2 /\ k # 3
    BY <1>1, <1>3, <1>9, <2>5, <2>6
  <2> HIDE DEF size
  <2> QED BY <2>4, <2>9, <2>10, <2>11, <2>12 DEF AfterWords, size
<1> QED BY <1>1, <1>3, <1>5, <1>6, <1>7, <1>8, <1>9

LEMMA LoaderAfter ==
  ASSUME NEW f \in FileType, NEW k \in 0 .. Len(f.words)
  PROVE  LET ld == Image!After(f)[k] IN
         ld \in LoaderType /\ (ld.state = "ERR" \/ AfterWords(f, k, ld))
<1> DEFINE n == Len(f.words)
           a == Image!After(f)
           Good(m) == a[m] \in LoaderType /\ (a[m].state = "ERR" \/ AfterWords(f, m, a[m]))
           Bad == {m \in 0 .. n : ~Good(m)}
<1>1. n \in Nat /\ \A i \in 1 .. n : f.words[i] \in WordType
  <2>1. f.words \in Seq(WordType) /\ n \in Nat BY DEF FileType
  <2> QED BY <2>1
<1>2. a[0] = Image!Start /\ \A m \in 1 .. n : a[m] = Image!Word(a[m - 1], f.words[m], Spaced(f, m))
  BY AfterIs
<1> HIDE DEF n, a
<1>3. Good(0)
  <2>1. a[0] \in LoaderType /\ a[0].state = "P2" /\ a[0].n = 0 BY <1>2 DEF Image!Start, LoaderType
  <2> QED BY <2>1 DEF AfterWords
<1>4. ASSUME NEW m \in 1 .. n, Good(m - 1) PROVE Good(m)
  <2> DEFINE ld == a[m - 1]
             new == a[m]
  <2>1. ld \in LoaderType /\ (ld.state = "ERR" \/ AfterWords(f, m - 1, ld)) BY <1>4
  <2>2. new = Image!Word(ld, f.words[m], Spaced(f, m)) BY <1>2
  <2>3. f.words[m] \in WordType /\ Spaced(f, m) \in BOOLEAN BY <1>1 DEF Spaced, FileType
  <2>4. new \in LoaderType /\ (new.state = "ERR" \/ WordTakes(ld, new, f.words[m][2], Spaced(f, m)))
    <3> HIDE DEF ld, new
    <3> QED BY <2>1, <2>2, <2>3, WordIs
  <2>5. CASE new.state = "ERR" BY <2>4, <2>5
  <2>6. CASE WordTakes(ld, new, f.words[m][2], Spaced(f, m))
    <3>1. ld.state # "ERR" BY <2>6 DEF WordTakes
    <3>2. AfterWords(f, m - 1, ld) BY <2>1, <3>1
    <3> HIDE DEF ld, new
    <3>3. m \in 1 .. Len(f.words) BY DEF n
    <3>4. AfterWords(f, m, new) BY <2>1, <2>4, <2>6, <3>2, <3>3, AfterStep
    <3> QED BY <2>4, <3>4 DEF new
  <2> QED BY <2>4, <2>5, <2>6
<1>5. Bad = {}
  <2> HIDE DEF Good
  <2> SUFFICES ASSUME Bad # {} PROVE FALSE OBVIOUS
  <2>1. Bad \in SUBSET Nat BY <1>1
  <2>2. PICK m \in Bad : \A j \in Bad : m <= j BY <2>1, Least
  <2>3. m \in 0 .. n /\ ~Good(m) OBVIOUS
  <2>4. m \in 1 .. n /\ m - 1 \in 0 .. n /\ ~(m <= m - 1) BY <1>1, <1>3, <2>3
  <2>5. Good(m - 1) BY <2>2, <2>4
  <2> QED BY <1>4, <2>3, <2>4, <2>5
<1>6. Good(k)
  <2> HIDE DEF Good
  <2> QED BY <1>5 DEF n
<1> QED BY <1>6 DEF a

LEMMA Bytes == ASSUME NEW x \in 0 .. 255 PROVE x % 256 = x
<1> DEFINE q == x \div 256
           r == x % 256
<1>1. x \in Nat /\ x < 256 OBVIOUS
<1>2. q \in Nat /\ r \in 0 .. 255 /\ x = q * 256 + r BY <1>1
<1> HIDE DEF q, r
<1>3. x = r BY <1>1, <1>2
<1> QED BY <1>3 DEF r

\* A loaded image has the width, height and pixels its file shows, and only the last pixel
\* may be missing: pgm_load.
LEMMA LoadIs ==
  ASSUME NEW f \in FileType, Image!pgm_load(f).ok
  PROVE  LET im == Image!pgm_load(f)
             size == im.w * im.h
         IN  /\ im.w \in Nat /\ im.h \in Nat /\ im.max \in Nat
             /\ Len(f.words) > 3 => im.max = f.words[4][2]
             /\ im.w = f.words[2][2] /\ im.h = f.words[3][2]
             /\ im.data \in [1 .. size -> 0 .. 255]
             /\ \A i \in 1 .. size : im.data[i] = Image!Shown(f, i) /\ (Image!Has(f, i) \/ i = size)
<1> DEFINE k == Len(f.words)
           ld == Image!After(f)[k]
           im == Image!pgm_load(f)
           W(i) == f.words[i][2]
           size == W(2) * W(3)
<1>1. k \in Nat /\ DOMAIN f.words = 1 .. k BY DEF FileType
<1>2. \A i \in 1 .. k : W(i) \in Nat
  <2>1. f.words \in Seq(WordType) BY DEF FileType
  <2>2. \A i \in 1 .. k : f.words[i] \in WordType BY <2>1
  <2> QED BY <2>2 DEF WordType
<1>3. ld \in LoaderType /\ (ld.state = "ERR" \/ AfterWords(f, k, ld)) BY <1>1, LoaderAfter
<1>4. /\ im.ok = (ld.state \in {"MAX", "PIXEL"} /\ ld.w * ld.h \in {ld.n, ld.n + 1})
      /\ im.w = ld.w /\ im.h = ld.h /\ im.max = ld.max /\ im.data = ld.data
  BY DEF Image!pgm_load
<1>5. im.ok OBVIOUS
<1> HIDE DEF ld, im
<1>6. ld.state \in {"MAX", "PIXEL"} /\ ld.w * ld.h \in {ld.n, ld.n + 1} /\ AfterWords(f, k, ld)
  BY <1>3, <1>4, <1>5
<1>7. ld.w \in Nat /\ ld.h \in Nat /\ ld.max \in Nat /\ ld.n \in Nat BY <1>3 DEF LoaderType
<1>8. \A i \in Nat : Image!Has(f, i) <=> i + 4 <= k BY <1>1 DEF Image!Has
<1>9. \A i \in Nat : Image!Shown(f, i) = IF i + 4 <= k THEN W(i + 4) % 256 ELSE 0
  BY <1>8 DEF Image!Shown
<1> HIDE DEF k
<1>10. k > 2 BY <1>1, <1>6 DEF AfterWords
<1>11. size \in Nat BY <1>1, <1>2, <1>10, Products
<1>12. CASE k = 3
  <2>1. /\ ld.w = W(2) /\ ld.h = W(3) /\ ld.n = 0
        /\ ld.state = IF Spaced(f, 3) THEN "MAX" ELSE "HEIGHT"
        /\ Spaced(f, 3) => ld.data = [i \in 1 .. size |-> 0]
    BY <1>6, <1>12 DEF AfterWords
  <2>2. ld.data = [i \in 1 .. size |-> 0] BY <1>6, <2>1
  <2>3. size \in {0, 1} BY <1>6, <2>1
  <2> HIDE DEF size
  <2>4. ld.data \in [1 .. size -> 0 .. 255] BY <2>2
  <2>5. \A i \in 1 .. size : ld.data[i] = Image!Shown(f, i) /\ i = size
    BY <1>9, <1>12, <2>2, <2>3
  <2> QED BY <1>4, <1>7, <1>12, <2>1, <2>4, <2>5 DEF im, size, k
<1>13. CASE k > 3
  <2>1. /\ ld.w = W(2) /\ ld.h = W(3) /\ ld.max = W(4)
        /\ ld.n = IF k = 4 \/ Spaced(f, k) THEN k - 4 ELSE k - 5
        /\ k - 4 <= size /\ ld.data \in [1 .. size -> 0 .. 255]
        /\ \A i \in 1 .. size : ld.data[i] = IF i <= k - 4 THEN W(i + 4) % 256 ELSE 0
    BY <1>6, <1>13 DEF AfterWords
  <2>2. size \in {ld.n, ld.n + 1} BY <1>6, <2>1
  <2> HIDE DEF size
  <2>3. ASSUME NEW i \in 1 .. size PROVE ld.data[i] = Image!Shown(f, i) /\ (Image!Has(f, i) \/ i = size)
    <3>1. i \in Nat /\ (i <= k - 4 <=> i + 4 <= k) BY <1>1, <1>11
    <3>2. i + 4 <= k \/ i = size BY <1>1, <1>11, <2>1, <2>2
    <3> QED BY <1>8, <1>9, <2>1, <3>1, <3>2
  <2> QED BY <1>4, <1>7, <2>1, <2>3 DEF im, size, k
<1>14. k = 3 \/ k > 3 BY <1>1, <1>10
<1> QED BY <1>12, <1>13, <1>14, Zenon

\* A saved image is a file that shows its pixels: pgm_save.
LEMMA SaveIs ==
  ASSUME NEW im, im.w \in Nat, im.h \in Nat, im.max \in Nat,
         NEW size \in Nat, im.data \in [1 .. size -> 0 .. 255]
  PROVE  LET g == Image!pgm_save(im) IN
         /\ g \in FileType /\ Len(g.words) = 4 + size
         /\ g.words[2][2] = im.w /\ g.words[3][2] = im.h /\ g.words[4][2] = im.max
         /\ \A i \in 1 .. size : Image!Has(g, i) /\ Image!Shown(g, i) = im.data[i]
<1> DEFINE w == im.w
           h == im.h
           m == im.max
           d == im.data
           head == <<<<"P2", 0>>, <<"number", w>>, <<"number", h>>, <<"number", m>>>>
           tail == [i \in 1 .. size |-> <<"number", d[i]>>]
           g == Image!pgm_save(im)
<1>0. w \in Nat /\ h \in Nat /\ m \in Nat /\ d \in [1 .. size -> 0 .. 255] OBVIOUS
<1>1. DOMAIN im.data = 1 .. size OBVIOUS
<1>2. g = [words |-> head \o tail, closed |-> TRUE]
  BY <1>1, Zenon DEF Image!pgm_save, Image!NumberWord
<1> HIDE DEF w, h, m, d, g
<1>3. head \in Seq(WordType) /\ Len(head) = 4 BY <1>0 DEF WordType
<1>4. tail \in Seq(WordType) /\ Len(tail) = size
  <2>1. \A i \in 1 .. size : <<"number", d[i]>> \in WordType
    <3>1. \A x \in Nat : <<"number", x>> \in WordType BY DEF WordType
    <3>2. \A i \in 1 .. size : d[i] \in 0 .. 255 BY <1>0
    <3>3. \A x \in 0 .. 255 : x \in Nat OBVIOUS
    <3> QED BY <3>1, <3>2, <3>3
  <2>2. tail \in [1 .. size -> WordType] BY <2>1
  <2> HIDE DEF tail
  <2>3. Seq(WordType) = UNION {[1 .. n -> WordType] : n \in Nat} BY SeqDef
  <2>4. tail \in Seq(WordType) BY <2>2, <2>3
  <2>5. DOMAIN tail = 1 .. size BY <2>2
  <2>6. Len(tail) = size BY <2>4, <2>5, LenProperties
  <2> QED BY <2>4, <2>6
<1>5. /\ head[2] = <<"number", w>> /\ head[3] = <<"number", h>> /\ head[4] = <<"number", m>>
      /\ \A i \in 1 .. size : tail[i] = <<"number", d[i]>>
  OBVIOUS
<1> DEFINE words == head \o tail
<1> HIDE DEF head, tail
<1>6. /\ words \in Seq(WordType) /\ Len(words) = 4 + size
      /\ \A i \in 1 .. 4 + size : words[i] = IF i <= 4 THEN head[i] ELSE tail[i - 4]
  <2>1. /\ words \in Seq(WordType) /\ Len(words) = Len(head) + Len(tail)
        /\ \A i \in 1 .. Len(head) + Len(tail) : words[i] = IF i <= Len(head) THEN head[i] ELSE tail[i - Len(head)]
    BY <1>3, <1>4, ConcatProperties
  <2> HIDE DEF words
  <2> QED BY <1>3, <1>4, <2>1
<1>7. words[2] = <<"number", w>> /\ words[3] = <<"number", h>> /\ words[4] = <<"number", m>>
  <2>1. 2 \in 1 .. 4 + size /\ 3 \in 1 .. 4 + size /\ 4 \in 1 .. 4 + size OBVIOUS
  <2> HIDE DEF words
  <2> QED BY <1>5, <1>6, <2>1
<1>8. ASSUME NEW i \in 1 .. size PROVE i + 4 \in 1 .. 4 + size /\ words[i + 4] = <<"number", d[i]>>
  <2>1. i + 4 \in 1 .. 4 + size /\ ~(i + 4 <= 4) /\ i + 4 - 4 = i OBVIOUS
  <2> HIDE DEF words
  <2>2. words[i + 4] = tail[i] BY <1>6, <2>1
  <2>3. tail[i] = <<"number", d[i]>> BY <1>5
  <2> QED BY <2>1, <2>2, <2>3
<1> HIDE DEF words
<1>9. g.words = words /\ g \in FileType BY <1>2, <1>6 DEF words, FileType
<1>10. DOMAIN words = 1 .. 4 + size BY <1>6
<1> HIDE DEF g
<1>11. ASSUME NEW i \in 1 .. size PROVE Image!Has(g, i) /\ Image!Shown(g, i) = d[i]
  <2>1. Image!Has(g, i) BY <1>8, <1>9, <1>10 DEF Image!Has
  <2>2. d[i] \in 0 .. 255 BY <1>0
  <2>3. d[i] % 256 = d[i] BY <2>2, Bytes
  <2>4. words[i + 4][2] = d[i] BY <1>8
  <2> QED BY <1>9, <2>1, <2>3, <2>4 DEF Image!Shown
<1>12. g.words[2][2] = w /\ g.words[3][2] = h /\ g.words[4][2] = m BY <1>7, <1>9
<1> QED BY <1>6, <1>9, <1>11, <1>12 DEF g, w, h, m, d

(* The invariant.                                                          *)

Input == inputs[Len(inputs)]
SizeOf(f) == Image!pgm_load(f).w * Image!pgm_load(f).h
Inverted(f, i) == (Image!pgm_load(f).max - Image!Shown(f, i)) % 256

ImageTypes ==
  /\ file_i \in FileType /\ inputs \in Seq(FileType) /\ noMemory \in BOOLEAN
  /\ nthr \in 1 .. MaxThreads /\ order \in {"numbers", "block"} /\ created \in 0 .. nthr
  /\ done \in [Image!Threads -> Nat]
  /\ pc_i \in {"idle", "create", "join", "save", "failed"}
  /\ img \in [w : Nat, h : Nat, max : Nat, data : Seq(0 .. 255)]

\* the image in memory has the shape of the input
ImageIsInput ==
  pc_i \in {"create", "join", "save"} =>
    /\ inputs # <<>> /\ Image!pgm_load(Input).ok
    /\ img.w = Image!pgm_load(Input).w /\ img.h = Image!pgm_load(Input).h
    /\ img.max = Image!pgm_load(Input).max
    /\ img.data \in [1 .. img.w * img.h -> 0 .. 255]

\* each thread has inverted its first pixels, and no other
ThreadsProgress ==
  pc_i \in {"create", "join"} =>
    /\ \A t \in 0 .. nthr - 1 :
         /\ done[t] <= Image!Count(t) /\ (t >= created => done[t] = 0)
         /\ \A k \in 1 .. Image!Count(t) :
              img.data[Image!Pixel(t, k) + 1] =
                IF k <= done[t] THEN Inverted(Input, Image!Pixel(t, k) + 1)
                ELSE Image!Shown(Input, Image!Pixel(t, k) + 1)
    /\ pc_i = "join" /\ ~noMemory => created = nthr

AllInverted ==
  pc_i = "save" /\ ~noMemory =>
    \A i \in 1 .. img.w * img.h : img.data[i] = Inverted(Input, i)

\* g is the saved inverse of f
Inverts(g, f) ==
  LET im == Image!pgm_load(f) IN
  /\ im.ok /\ g \in FileType
  /\ Len(g.words) = 4 + SizeOf(f)
  /\ g.words[2][2] = im.w /\ g.words[3][2] = im.h /\ g.words[4][2] = im.max
  /\ \A i \in 1 .. SizeOf(f) : Image!Has(g, i) /\ Image!Shown(g, i) = Inverted(f, i)

RunsInvert ==
  ~noMemory =>
    /\ pc_i = "idle" /\ inputs # <<>> => Inverts(file_i, Input)
    /\ \A j \in 1 .. Len(inputs) - 1 : Inverts(inputs[j + 1], inputs[j])

ImageInv == ImageTypes /\ ImageIsInput /\ ThreadsProgress /\ AllInverted /\ RunsInvert

LEMMA ShapeIs == ImageTypes => Shape BY ProgramsAssumption DEF ImageTypes, Shape

LEMMA ImageParts == ImageTypes => Parted BY ShapeIs, PixelsPart

LEMMA ImageInit == Image!Init => ImageInv
<1> SUFFICES ASSUME Image!Init PROVE ImageInv OBVIOUS
<1>1. file_i \in FileType BY ProgramsAssumption DEF Image!Init, FileType, WordType
<1>2. /\ inputs = <<>> /\ noMemory = FALSE /\ nthr = 1 /\ order = "numbers" /\ created = 0
      /\ done = [t \in Image!Threads |-> 0] /\ pc_i = "idle"
      /\ img = [w |-> 0, h |-> 0, max |-> 0, data |-> <<>>]
  BY DEF Image!Init
<1>3. 1 \in 1 .. MaxThreads /\ 0 \in 0 .. 1 BY ProgramsAssumption
<1>4. img \in [w : Nat, h : Nat, max : Nat, data : Seq(0 .. 255)] BY <1>2
<1>5. ImageTypes
  <2>1. inputs \in Seq(FileType) /\ noMemory \in BOOLEAN
    <3>1. <<>> \in Seq(FileType) BY EmptySeq
    <3> QED BY <1>2, <3>1
  <2>2. done \in [Image!Threads -> Nat] BY <1>2
  <2>3. nthr \in 1 .. MaxThreads /\ order \in {"numbers", "block"} /\ created \in 0 .. nthr
    BY <1>2, <1>3
  <2>4. pc_i \in {"idle", "create", "join", "save", "failed"} BY <1>2
  <2> QED BY <1>1, <1>4, <2>1, <2>2, <2>3, <2>4, Zenon DEF ImageTypes
<1>6. RunsInvert BY <1>2 DEF RunsInvert
<1> QED BY <1>2, <1>5, <1>6 DEF ImageInv, ImageIsInput, ThreadsProgress, AllInverted

\* what is said of the image stays so while its input, its shape and the threads stay
LEMMA SameShape ==
  ASSUME UNCHANGED <<inputs, nthr, order>>, img'.w = img.w, img'.h = img.h
  PROVE  /\ Input' = Input
         /\ \A t : Image!Count(t)' = Image!Count(t)
         /\ \A t, k : Image!Pixel(t, k)' = Image!Pixel(t, k)
BY DEF Input, Image!Count, Image!Pixel, Image!Columns

LEMMA ImageLoads == ASSUME ImageInv, Image!Loads PROVE ImageInv'
<1> DEFINE im == Image!pgm_load(file_i)
           size == im.w * im.h
<1>1. ImageTypes /\ RunsInvert BY DEF ImageInv
<1>2. /\ pc_i = "idle" /\ nthr' \in 1 .. MaxThreads /\ order' \in {"numbers", "block"}
      /\ created' = 0 /\ done' = [t \in Image!Threads |-> 0] /\ file_i' = file_i /\ noMemory' = noMemory
  BY DEF Image!Loads
<1>3. /\ file_i' \in FileType /\ noMemory' \in BOOLEAN /\ created' \in 0 .. nthr'
      /\ done' \in [Image!Threads -> Nat] /\ \A t \in Image!Threads : done'[t] = 0
  BY <1>1, <1>2, ProgramsAssumption DEF ImageTypes
<1>4. file_i \in FileType /\ inputs \in Seq(FileType) BY <1>1 DEF ImageTypes
<1>5. CASE ~im.ok
  <2>1. pc_i' = "failed" /\ img' = img /\ inputs' = inputs BY <1>5 DEF Image!Loads
  <2>2. ImageTypes' BY <1>1, <1>2, <1>3, <2>1 DEF ImageTypes
  <2>3. RunsInvert' BY <1>1, <1>2, <2>1 DEF RunsInvert, Inverts, Inverted, SizeOf
  <2> QED BY <2>1, <2>2, <2>3 DEF ImageInv, ImageIsInput, ThreadsProgress, AllInverted
<1>6. CASE im.ok
  <2>1. /\ pc_i' = "create" /\ inputs' = Append(inputs, file_i)
        /\ img' = [w |-> im.w, h |-> im.h, max |-> im.max, data |-> im.data]
    BY <1>6 DEF Image!Loads
  <2>2. /\ img'.w = im.w /\ img'.h = im.h /\ img'.max = im.max /\ img'.data = im.data BY <2>1
  <2>3. /\ im.w \in Nat /\ im.h \in Nat /\ im.max \in Nat
        /\ im.data \in [1 .. size -> 0 .. 255]
        /\ \A i \in 1 .. size : im.data[i] = Image!Shown(file_i, i)
    BY <1>4, <1>6, LoadIs
  <2>4. Len(inputs) \in Nat BY <1>4
  <2>5. /\ inputs' \in Seq(FileType) /\ Len(inputs') = Len(inputs) + 1 /\ inputs' # <<>>
        /\ \A j \in 1 .. Len(inputs) : inputs'[j] = inputs[j]
        /\ inputs'[Len(inputs) + 1] = file_i
    BY <1>4, <2>1, AppendProperties
  <2>6. Input' = file_i BY <2>5 DEF Input
  <2> HIDE DEF im
  <2>7. ImageTypes'
    <3>1. size \in Nat BY <2>3, Products
    <3>2. im.data \in Seq(0 .. 255)
      <4>1. Seq(0 .. 255) = UNION {[1 .. n -> 0 .. 255] : n \in Nat} BY SeqDef
      <4> HIDE DEF size
      <4> QED BY <2>3, <3>1, <4>1
    <3>3. img' \in [w : Nat, h : Nat, max : Nat, data : Seq(0 .. 255)] BY <2>1, <2>3, <3>2
    <3> QED BY <1>2, <1>3, <2>1, <2>5, <3>3 DEF ImageTypes
  <2>8. ImageIsInput' BY <1>6, <2>2, <2>3, <2>5, <2>6 DEF ImageIsInput, im
  <2>9. ThreadsProgress'
    <3>1. (ImageTypes => Parted)' BY ImageParts, PTL
    <3>2. Parted' BY <2>7, <3>1
    <3>3. ASSUME NEW t \in 0 .. nthr' - 1
          PROVE  /\ t \in Image!Threads /\ Image!Count(t)' \in Nat
                 /\ \A k \in 1 .. Image!Count(t)' : Image!Pixel(t, k)' + 1 \in 1 .. size
      <4>1. t \in Image!Threads BY <1>2, ProgramsAssumption DEF Image!Threads
      <4>2. /\ Image!Count(t)' \in Nat
            /\ \A k \in 1 .. Image!Count(t)' : Image!Pixel(t, k)' \in 0 .. img'.w * img'.h - 1
        BY <3>2 DEF Parted
      <4>3. img'.w * img'.h = size /\ size \in Nat BY <2>2, <2>3, Products
      <4> HIDE DEF size
      <4>4. \A i \in 0 .. size - 1 : i + 1 \in 1 .. size BY <4>3
      <4> QED BY <4>1, <4>2, <4>3, <4>4
    <3>4. ASSUME NEW t \in 0 .. nthr' - 1, NEW k \in 1 .. Image!Count(t)'
          PROVE  /\ ~(k <= done'[t])
                 /\ img'.data[Image!Pixel(t, k)' + 1] = Image!Shown(Input', Image!Pixel(t, k)' + 1)
      <4>1. done'[t] = 0 /\ k \in Nat \ {0} BY <1>3, <3>3
      <4>2. Image!Pixel(t, k)' + 1 \in 1 .. size BY <3>3
      <4> QED BY <2>2, <2>3, <2>6, <4>1, <4>2
    <3>5. \A t \in 0 .. nthr' - 1 : done'[t] = 0 /\ done'[t] <= Image!Count(t)' BY <1>3, <3>3
    <3> QED BY <2>1, <3>4, <3>5 DEF ThreadsProgress, Image!Shown, Image!Has, Inverted
  <2>10. RunsInvert'
    <3> SUFFICES ASSUME ~noMemory, NEW j \in 1 .. Len(inputs') - 1
                 PROVE  Inverts(inputs'[j + 1], inputs'[j])
      BY <1>2, <2>1 DEF RunsInvert, Inverts, Inverted, SizeOf
    <3>1. j \in 1 .. Len(inputs) BY <2>4, <2>5
    <3>2. CASE j = Len(inputs)
      <4>1. inputs # <<>> /\ Inverts(file_i, Input) BY <1>1, <1>2, <1>4, <3>1, <3>2 DEF RunsInvert
      <4>2. inputs'[j + 1] = file_i /\ inputs'[j] = Input BY <2>5, <3>1, <3>2 DEF Input
      <4> QED BY <4>1, <4>2
    <3>3. CASE j # Len(inputs)
      <4>1. j \in 1 .. Len(inputs) - 1 /\ j + 1 \in 1 .. Len(inputs) BY <2>4, <3>1, <3>3
      <4>2. inputs'[j + 1] = inputs[j + 1] /\ inputs'[j] = inputs[j] BY <2>5, <3>1, <4>1
      <4> QED BY <1>1, <4>1, <4>2 DEF RunsInvert
    <3> QED BY <3>2, <3>3
  <2> QED BY <2>1, <2>7, <2>8, <2>9, <2>10 DEF ImageInv, AllInverted
<1> QED BY <1>5, <1>6

LEMMA ImageCreates == ASSUME ImageInv, Image!Creates PROVE ImageInv'
<1>1. ImageTypes /\ ImageIsInput /\ ThreadsProgress /\ RunsInvert BY DEF ImageInv
<1>2. /\ pc_i = "create" /\ UNCHANGED <<file_i, nthr, order, img, done, inputs>>
      /\ \/ created < nthr /\ created' = created + 1 /\ pc_i' = "create" /\ noMemory' = noMemory
         \/ created = nthr /\ created' = created /\ pc_i' = "join" /\ noMemory' = noMemory
         \/ created < nthr /\ created' = created /\ pc_i' = "join" /\ noMemory' = TRUE
  BY DEF Image!Creates
<1>3. /\ Input' = Input
      /\ \A t : Image!Count(t)' = Image!Count(t)
      /\ \A t, k : Image!Pixel(t, k)' = Image!Pixel(t, k)
  BY <1>2, SameShape
<1>4. nthr \in Nat /\ created \in 0 .. nthr /\ created' \in 0 .. nthr /\ noMemory' \in BOOLEAN
  <2>1. MaxThreads \in Nat /\ nthr \in 1 .. MaxThreads /\ created \in 0 .. nthr /\ noMemory \in BOOLEAN
    BY <1>1, ProgramsAssumption DEF ImageTypes
  <2>2. created' \in 0 .. nthr BY <1>2, <2>1
  <2>3. noMemory' \in BOOLEAN BY <1>2, <2>1
  <2> QED BY <2>1, <2>2, <2>3
<1>5. ImageTypes' BY <1>1, <1>2, <1>4 DEF ImageTypes
<1>6. ImageIsInput' BY <1>1, <1>2, <1>3 DEF ImageIsInput
<1>7. ThreadsProgress'
  <2>1. ASSUME NEW t \in 0 .. nthr - 1, t >= created' PROVE t >= created BY <1>2, <1>4, <2>1
  <2>2. pc_i' = "join" /\ ~noMemory' => created' = nthr' BY <1>2
  <2>3. \A t \in 0 .. nthr - 1 :
          /\ done[t] <= Image!Count(t) /\ (t >= created => done[t] = 0)
          /\ \A k \in 1 .. Image!Count(t) :
               img.data[Image!Pixel(t, k) + 1] =
                 IF k <= done[t] THEN Inverted(Input, Image!Pixel(t, k) + 1)
                 ELSE Image!Shown(Input, Image!Pixel(t, k) + 1)
    BY <1>1, <1>2 DEF ThreadsProgress
  <2> QED BY <1>2, <1>3, <2>1, <2>2, <2>3 DEF ThreadsProgress, Image!Shown, Image!Has, Inverted
<1>8. RunsInvert' BY <1>1, <1>2 DEF RunsInvert, Inverts, Inverted, SizeOf
<1> QED BY <1>2, <1>5, <1>6, <1>7, <1>8 DEF ImageInv, AllInverted

LEMMA ImageInverts == ASSUME ImageInv, NEW t \in Image!Threads, Image!invert_task(t) PROVE ImageInv'
<1> DEFINE i == Image!Pixel(t, done[t] + 1)
           Ids == 0 .. nthr - 1
           size == img.w * img.h
           new == (img.max - img.data[i + 1]) % 256
<1>1. ImageTypes /\ ImageIsInput /\ ThreadsProgress /\ RunsInvert BY DEF ImageInv
<1>2. /\ pc_i \in {"create", "join"} /\ t < created /\ done[t] < Image!Count(t)
      /\ img' = [img EXCEPT !.data[i + 1] = new] /\ done' = [done EXCEPT ![t] = @ + 1]
      /\ UNCHANGED <<file_i, nthr, order, pc_i, created, noMemory, inputs>>
  BY DEF Image!invert_task
<1>3. /\ img'.w = img.w /\ img'.h = img.h /\ img'.max = img.max
      /\ img'.data = [img.data EXCEPT ![i + 1] = new]
      /\ img \in [w : Nat, h : Nat, max : Nat, data : Seq(0 .. 255)]
      /\ img.w \in Nat /\ img.h \in Nat /\ img.max \in Nat
  <2>1. img \in [w : Nat, h : Nat, max : Nat, data : Seq(0 .. 255)] BY <1>1 DEF ImageTypes
  <2> QED BY <1>2, <2>1
<1>4. /\ Input' = Input
      /\ \A u : Image!Count(u)' = Image!Count(u)
      /\ \A u, k : Image!Pixel(u, k)' = Image!Pixel(u, k)
  BY <1>2, <1>3, SameShape
<1>5. t \in Ids /\ done \in [Image!Threads -> Nat] /\ Ids \subseteq Image!Threads
  <2>1. /\ MaxThreads \in Nat /\ nthr \in 1 .. MaxThreads /\ created \in 0 .. nthr
        /\ done \in [Image!Threads -> Nat]
    BY <1>1, ProgramsAssumption DEF ImageTypes
  <2> QED BY <1>2, <2>1 DEF Image!Threads
<1>6. img.data \in [1 .. size -> 0 .. 255] /\ img.max = Image!pgm_load(Input).max
  BY <1>1, <1>2 DEF ImageIsInput
<1>7. /\ \A u \in Ids : Image!Count(u) \in Nat
      /\ \A u \in Ids : \A k \in 1 .. Image!Count(u) : Image!Pixel(u, k) \in 0 .. size - 1
      /\ \A u, v \in Ids : \A k \in 1 .. Image!Count(u), l \in 1 .. Image!Count(v) :
           Image!Pixel(u, k) = Image!Pixel(v, l) => u = v /\ k = l
  BY <1>1, ImageParts, Zenon DEF Parted
<1>8. \A u \in Ids :
        /\ done[u] <= Image!Count(u) /\ (u >= created => done[u] = 0)
        /\ \A k \in 1 .. Image!Count(u) :
             img.data[Image!Pixel(u, k) + 1] =
               IF k <= done[u] THEN Inverted(Input, Image!Pixel(u, k) + 1)
               ELSE Image!Shown(Input, Image!Pixel(u, k) + 1)
  BY <1>1, <1>2 DEF ThreadsProgress
<1> HIDE DEF Ids, size
<1>9. done[t] \in Nat /\ done[t] + 1 \in 1 .. Image!Count(t) /\ ~(done[t] + 1 <= done[t])
  BY <1>2, <1>5, <1>7
<1>10. i \in 0 .. size - 1 BY <1>5, <1>7, <1>9
<1>11. size \in Nat BY <1>3, Products DEF size
<1>12. i + 1 \in 1 .. size /\ i \in Nat BY <1>10, <1>11
<1>13. img.data[i + 1] = Image!Shown(Input, i + 1) BY <1>5, <1>8, <1>9
<1>14. new = Inverted(Input, i + 1) BY <1>6, <1>13 DEF Inverted
<1>15. new \in 0 .. 255
  <2> DEFINE a == img.data[i + 1]
  <2>1. a \in 0 .. 255 BY <1>6, <1>12
  <2> HIDE DEF a
  <2>2. \A x \in Int : x % 256 \in 0 .. 255 OBVIOUS
  <2>3. img.max - a \in Int BY <1>3, <2>1
  <2> QED BY <2>2, <2>3 DEF a
<1> HIDE DEF i, new
<1>16. /\ img'.data \in [1 .. size -> 0 .. 255] /\ img'.data[i + 1] = new
       /\ \A j \in 1 .. size : j # i + 1 => img'.data[j] = img.data[j]
  BY <1>3, <1>6, <1>12, <1>15
<1>17. ASSUME NEW u \in Ids
       PROVE  /\ done'[u] <= Image!Count(u) /\ (u >= created => done'[u] = 0)
              /\ \A k \in 1 .. Image!Count(u) :
                   img'.data[Image!Pixel(u, k) + 1] =
                     IF k <= done'[u] THEN Inverted(Input, Image!Pixel(u, k) + 1)
                     ELSE Image!Shown(Input, Image!Pixel(u, k) + 1)
  <2>1. done'[u] = IF u = t THEN done[t] + 1 ELSE done[u] BY <1>2, <1>5
  <2>2. done'[u] <= Image!Count(u) BY <1>5, <1>7, <1>8, <1>9, <2>1
  <2>3. u >= created => done'[u] = 0
    <3>1. created \in Int /\ nthr \in Int BY <1>1, ProgramsAssumption DEF ImageTypes
    <3>2. t \in Int BY <1>5, <3>1 DEF Ids
    <3>3. u = t => ~(u >= created) BY <1>2, <3>1, <3>2
    <3> QED BY <1>8, <2>1, <3>3
  <2>4. ASSUME NEW k \in 1 .. Image!Count(u)
        PROVE  img'.data[Image!Pixel(u, k) + 1] =
                 IF k <= done'[u] THEN Inverted(Input, Image!Pixel(u, k) + 1)
                 ELSE Image!Shown(Input, Image!Pixel(u, k) + 1)
    <3> DEFINE p == Image!Pixel(u, k)
    <3>1. p \in 0 .. size - 1 /\ k \in Int BY <1>7
    <3>2. p + 1 \in 1 .. size /\ (p + 1 = i + 1 => p = i) BY <1>11, <1>12, <3>1
    <3>3. img.data[p + 1] = IF k <= done[u] THEN Inverted(Input, p + 1) ELSE Image!Shown(Input, p + 1)
      BY <1>8
    <3>4. p = i => u = t /\ k = done[t] + 1 BY <1>5, <1>7, <1>9 DEF i
    <3>5. u = t /\ k = done[t] + 1 => p = i BY DEF i
    <3> HIDE DEF p
    <3>6. CASE p = i
      <4>1. k <= done'[u] BY <1>9, <2>1, <3>1, <3>4, <3>6
      <4>2. img'.data[p + 1] = Inverted(Input, p + 1) BY <1>14, <1>16, <3>6
      <4> QED BY <4>1, <4>2 DEF p
    <3>7. CASE p # i
      <4>1. img'.data[p + 1] = img.data[p + 1] BY <1>16, <3>2, <3>7
      <4>2. k <= done'[u] <=> k <= done[u]
        <5>1. CASE u = t BY <1>9, <2>1, <3>1, <3>5, <3>7, <5>1
        <5>2. CASE u # t BY <2>1, <5>2
        <5> QED BY <5>1, <5>2
      <4> QED BY <3>3, <4>1, <4>2 DEF p
    <3> QED BY <3>6, <3>7
  <2> QED BY <2>2, <2>3, <2>4
<1>18. ImageTypes'
  <2>1. done' \in [Image!Threads -> Nat] BY <1>2, <1>5, <1>9
  <2>2. img' \in [w : Nat, h : Nat, max : Nat, data : Seq(0 .. 255)]
    <3>1. Seq(0 .. 255) = UNION {[1 .. n -> 0 .. 255] : n \in Nat} BY SeqDef
    <3> DEFINE d == img'.data
    <3>2. d \in Seq(0 .. 255)
      <4>1. d \in [1 .. size -> 0 .. 255] BY <1>16
      <4> HIDE DEF d
      <4> QED BY <1>11, <3>1, <4>1
    <3>3. img' = [img EXCEPT !.data = d]
      <4>1. d = [img.data EXCEPT ![i + 1] = new] BY <1>3
      <4>2. img' = [img EXCEPT !.data = [img.data EXCEPT ![i + 1] = new]] BY <1>2 DEF i, new
      <4> HIDE DEF d
      <4> QED BY <4>1, <4>2
    <3> HIDE DEF d
    <3> QED BY <1>3, <3>2, <3>3
  <2> QED BY <1>1, <1>2, <2>1, <2>2 DEF ImageTypes
<1>19. ImageIsInput' BY <1>1, <1>2, <1>3, <1>4, <1>16 DEF ImageIsInput, size
<1>20. ThreadsProgress'
  <2>1. pc_i' = "join" /\ ~noMemory' => created' = nthr' BY <1>1, <1>2 DEF ThreadsProgress
  <2> QED BY <1>2, <1>4, <1>17, <2>1 DEF ThreadsProgress, Image!Shown, Image!Has, Inverted, Ids
<1>21. RunsInvert' BY <1>1, <1>2 DEF RunsInvert, Inverts, Inverted, SizeOf
<1> QED BY <1>2, <1>18, <1>19, <1>20, <1>21 DEF ImageInv, AllInverted

LEMMA ImageJoins == ASSUME ImageInv, Image!Joins PROVE ImageInv'
<1>1. ImageTypes /\ ImageIsInput /\ ThreadsProgress /\ RunsInvert BY DEF ImageInv
<1>2. /\ pc_i = "join" /\ pc_i' = "save"
      /\ \A t \in 0 .. created - 1 : done[t] = Image!Count(t)
      /\ UNCHANGED <<file_i, nthr, order, img, created, done, noMemory, inputs>>
  BY DEF Image!Joins
<1>3. ImageTypes' BY <1>1, <1>2 DEF ImageTypes
<1>4. ImageIsInput' BY <1>1, <1>2 DEF ImageIsInput, Input
<1>5. ASSUME ~noMemory, NEW i \in 1 .. img.w * img.h PROVE img.data[i] = Inverted(Input, i)
  <2>1. img.w * img.h \in Nat
    <3>1. img.w \in Nat /\ img.h \in Nat BY <1>1 DEF ImageTypes
    <3> QED BY <3>1, Products
  <2>2. i - 1 \in 0 .. img.w * img.h - 1 /\ i - 1 + 1 = i
    <3> DEFINE size == img.w * img.h
    <3>1. size \in Nat /\ i \in 1 .. size BY <2>1
    <3> HIDE DEF size
    <3>2. i - 1 \in 0 .. size - 1 /\ i - 1 + 1 = i BY <3>1
    <3> QED BY <3>2 DEF size
  <2>3. PICK t \in 0 .. nthr - 1 : \E k \in 1 .. Image!Count(t) : Image!Pixel(t, k) = i - 1
    BY <1>1, <2>2, ImageParts, Zenon DEF Parted
  <2>4. PICK k \in 1 .. Image!Count(t) : Image!Pixel(t, k) = i - 1 BY <2>3
  <2>5. done[t] = Image!Count(t) BY <1>1, <1>2, <1>5 DEF ThreadsProgress
  <2>6. Image!Count(t) \in Nat BY <1>1, ImageParts, Zenon DEF Parted
  <2>7. k <= done[t] BY <2>5, <2>6
  <2>8. img.data[Image!Pixel(t, k) + 1] = Inverted(Input, Image!Pixel(t, k) + 1)
    BY <1>1, <1>2, <2>7 DEF ThreadsProgress
  <2> QED BY <2>2, <2>4, <2>8
<1>6. AllInverted' BY <1>2, <1>5 DEF AllInverted, Inverted, Input
<1>7. RunsInvert' BY <1>1, <1>2 DEF RunsInvert, Inverts, Inverted, SizeOf
<1> QED BY <1>2, <1>3, <1>4, <1>6, <1>7 DEF ImageInv, ThreadsProgress

LEMMA ImageSaves == ASSUME ImageInv, Image!Saves PROVE ImageInv'
<1> DEFINE size == img.w * img.h
<1>1. ImageTypes /\ ImageIsInput /\ AllInverted /\ RunsInvert BY DEF ImageInv
<1>2. /\ pc_i = "save" /\ pc_i' = "idle" /\ file_i' = Image!pgm_save(img)
      /\ UNCHANGED <<nthr, order, img, created, done, noMemory, inputs>>
  BY DEF Image!Saves
<1>3. /\ inputs # <<>> /\ Image!pgm_load(Input).ok
      /\ img.w = Image!pgm_load(Input).w /\ img.h = Image!pgm_load(Input).h
      /\ img.max = Image!pgm_load(Input).max
      /\ img.data \in [1 .. size -> 0 .. 255]
  BY <1>1, <1>2 DEF ImageIsInput
<1>4. img.w \in Nat /\ img.h \in Nat /\ img.max \in Nat BY <1>1 DEF ImageTypes
<1>5. size \in Nat /\ size = SizeOf(Input) BY <1>3, <1>4, Products DEF SizeOf
<1> HIDE DEF size
<1>6. /\ file_i' \in FileType /\ Len(file_i'.words) = 4 + size
      /\ file_i'.words[2][2] = img.w /\ file_i'.words[3][2] = img.h /\ file_i'.words[4][2] = img.max
      /\ \A i \in 1 .. size : Image!Has(file_i', i) /\ Image!Shown(file_i', i) = img.data[i]
  BY <1>2, <1>3, <1>4, <1>5, SaveIs
<1>7. ImageTypes' BY <1>1, <1>2, <1>6 DEF ImageTypes
<1>8. ~noMemory => Inverts(file_i', Input)
  <2> SUFFICES ASSUME ~noMemory PROVE Inverts(file_i', Input) OBVIOUS
  <2>1. \A i \in 1 .. size : img.data[i] = Inverted(Input, i) BY <1>1, <1>2 DEF AllInverted, size
  <2> QED BY <1>3, <1>5, <1>6, <2>1 DEF Inverts
<1>9. RunsInvert' BY <1>1, <1>2, <1>8 DEF RunsInvert, Inverts, Inverted, SizeOf, Input, Image!Has, Image!Shown
<1> QED BY <1>2, <1>7, <1>9 DEF ImageInv, ImageIsInput, ThreadsProgress, AllInverted

LEMMA ImageNext == ASSUME ImageInv, Image!Next \/ UNCHANGED imageVars PROVE ImageInv'
<1>1. CASE Image!Loads BY <1>1, ImageLoads
<1>2. CASE Image!Main BY <1>2, ImageCreates, ImageJoins, ImageSaves DEF Image!Main
<1>3. CASE \E t \in Image!Threads : Image!invert_task(t) BY <1>3, ImageInverts
<1>4. CASE UNCHANGED imageVars
  <2>1. UNCHANGED <<file_i, nthr, order, pc_i, img, created, done, noMemory, inputs>>
    BY <1>4 DEF imageVars
  <2>2. ImageTypes /\ ImageIsInput /\ ThreadsProgress /\ AllInverted /\ RunsInvert BY DEF ImageInv
  <2>3. ImageTypes' BY <2>1, <2>2 DEF ImageTypes
  <2>4. ImageIsInput' BY <2>1, <2>2 DEF ImageIsInput, Input
  <2>5. ThreadsProgress'
    <3>1. /\ Input' = Input
          /\ \A t : Image!Count(t)' = Image!Count(t)
          /\ \A t, k : Image!Pixel(t, k)' = Image!Pixel(t, k)
      BY <2>1, SameShape
    <3> QED BY <2>1, <2>2, <3>1 DEF ThreadsProgress, Image!Shown, Image!Has, Inverted
  <2>6. AllInverted' BY <2>1, <2>2 DEF AllInverted, Inverted, Input
  <2>7. RunsInvert' BY <2>1, <2>2 DEF RunsInvert, Inverts, Inverted, SizeOf, Input, Image!Has, Image!Shown
  <2> QED BY <2>3, <2>4, <2>5, <2>6, <2>7 DEF ImageInv
<1> QED BY <1>1, <1>2, <1>3, <1>4 DEF Image!Next

LEMMA InversesAre ==
  ASSUME NEW f \in FileType, NEW g, Inverts(g, f)
  PROVE  LET size == SizeOf(f) IN
         /\ size \in Nat /\ Len(g.words) = 4 + size
         /\ Image!pgm_load(f).max \in Nat
         /\ \A i \in 1 .. size :
              /\ Image!Has(f, i) \/ i = size
              /\ Image!Shown(f, i) \in 0 .. 255 /\ Image!Shown(g, i) \in 0 .. 255
              /\ Image!Shown(g, i) = Inverted(f, i)
              /\ (Image!Shown(f, i) + Image!Shown(g, i)) % 256 = Image!pgm_load(f).max % 256
              /\ (Image!pgm_load(f).max - Image!Shown(g, i)) % 256 = Image!Shown(f, i)
<1> DEFINE im == Image!pgm_load(f)
           size == SizeOf(f)
<1>1. /\ im.w \in Nat /\ im.h \in Nat /\ im.max \in Nat
      /\ im.data \in [1 .. im.w * im.h -> 0 .. 255]
      /\ \A i \in 1 .. im.w * im.h :
           im.data[i] = Image!Shown(f, i) /\ (Image!Has(f, i) \/ i = im.w * im.h)
  BY LoadIs DEF Inverts
<1>2. size = im.w * im.h BY DEF SizeOf
<1>3. /\ Len(g.words) = 4 + size
      /\ \A i \in 1 .. size : Image!Shown(g, i) = Inverted(f, i)
  BY DEF Inverts
<1> HIDE DEF size, im
<1>4. size \in Nat BY <1>1, <1>2, Products
<1>5. ASSUME NEW i \in 1 .. size
      PROVE  /\ Image!Has(f, i) \/ i = size
             /\ Image!Shown(f, i) \in 0 .. 255 /\ Image!Shown(g, i) \in 0 .. 255
             /\ Image!Shown(g, i) = Inverted(f, i)
             /\ (Image!Shown(f, i) + Image!Shown(g, i)) % 256 = im.max % 256
             /\ (im.max - Image!Shown(g, i)) % 256 = Image!Shown(f, i)
  <2> DEFINE s == Image!Shown(f, i)
             r == Image!Shown(g, i)
             m == im.max
  <2>1. s \in 0 .. 255 /\ (Image!Has(f, i) \/ i = size) BY <1>1, <1>2
  <2>2. r = Inverted(f, i) BY <1>3
  <2>3. r = (m - s) % 256 BY <2>2 DEF Inverted, im
  <2>4. m \in Nat BY <1>1
  <2> HIDE DEF s, r, m
  <2>5. r \in 0 .. 255 /\ (s + r) % 256 = m % 256 /\ (m - r) % 256 = s
    <3>1. m - s \in Int BY <2>1, <2>4
    <3>2. r \in 0 .. 255 BY <2>3, <3>1
    <3>3. (s + r) % 256 = m % 256 BY <2>1, <2>3, <2>4, <3>1, <3>2
    <3>4. (m - r) % 256 = s BY <2>1, <2>3, <2>4, <3>1, <3>2
    <3> QED BY <3>2, <3>3, <3>4
  <2> QED BY <2>1, <2>2, <2>5 DEF s, r, m
<1> QED BY <1>1, <1>3, <1>4, <1>5 DEF size, im

LEMMA ImageInvInverts == ImageInv => SavedIsInverted
<1> SUFFICES ASSUME ImageInv, pc_i = "idle", inputs # <<>>, ~noMemory PROVE Image!SavedIsInverted
  BY DEF SavedIsInverted, Image!SavedIsInverted
<1> DEFINE before == Image!Last(inputs)
           im == Image!pgm_load(before)
           size == im.w * im.h
<1>1. /\ inputs \in Seq(FileType)
      /\ Inverts(file_i, Input)
      /\ \A j \in 1 .. Len(inputs) - 1 : Inverts(inputs[j + 1], inputs[j])
  BY DEF ImageInv, ImageTypes, RunsInvert
<1>2. before = Input BY DEF Image!Last, Input
<1>3. Len(inputs) \in Nat \ {0} /\ \A j \in 1 .. Len(inputs) : inputs[j] \in FileType BY <1>1
<1>4. before \in FileType BY <1>2, <1>3 DEF Input
<1>5. size = SizeOf(before) BY DEF SizeOf
<1>6. Inverts(file_i, before) BY <1>1, <1>2
<1> HIDE DEF size, im, before
<1>7. /\ size \in Nat /\ Len(file_i.words) = 4 + size
      /\ \A i \in 1 .. size :
           /\ Image!Has(before, i) \/ i = size
           /\ Image!Shown(file_i, i) = Inverted(before, i)
           /\ (Image!Shown(before, i) + Image!Shown(file_i, i)) % 256 = im.max % 256
  BY <1>4, <1>5, <1>6, InversesAre DEF im
<1>8. ASSUME Len(inputs) = 2, NEW i \in 1 .. size PROVE Image!Shown(file_i, i) = Image!Shown(inputs[1], i)
  <2> DEFINE first == inputs[1]
             fst == Image!pgm_load(first)
  <2>1. 1 \in 1 .. Len(inputs) /\ 1 \in 1 .. Len(inputs) - 1 /\ before = inputs[1 + 1]
    BY <1>2, <1>8 DEF Input
  <2>2. first \in FileType /\ Inverts(before, first) BY <1>1, <1>3, <2>1
  <2>3. /\ Len(before.words) = 4 + SizeOf(first) /\ SizeOf(first) \in Nat
        /\ \A j \in 1 .. SizeOf(first) :
             (fst.max - Image!Shown(before, j)) % 256 = Image!Shown(first, j)
    <3> HIDE DEF first
    <3> QED BY <2>2, InversesAre
  <2>4. before.words[2][2] = fst.w /\ before.words[3][2] = fst.h /\ before.words[4][2] = fst.max
    BY <2>2 DEF Inverts
  <2>5. Image!pgm_load(before).ok BY <1>6 DEF Inverts
  <2>6. /\ Len(before.words) > 3 => im.max = before.words[4][2]
        /\ im.w = before.words[2][2] /\ im.h = before.words[3][2]
    BY <1>4, <2>5, LoadIs DEF im
  <2>7. im.max = fst.max BY <2>3, <2>4, <2>6
  <2>8. size = SizeOf(first) BY <2>4, <2>6 DEF size, SizeOf
  <2>9. Image!Shown(file_i, i) = (im.max - Image!Shown(before, i)) % 256 BY <1>7 DEF Inverted, im
  <2> QED BY <2>3, <2>7, <2>8, <2>9
<1> QED BY <1>7, <1>8 DEF Image!SavedIsInverted, size, im, before

\* Unless memory ran out, every pixel of a saved image is the inverse of that of its input,
\* in both modes and for any number of threads, and inverting twice gives the input back:
\* pgm.c, invert_1.c, invert_2.c.
THEOREM SavedImagesAreInverted == Spec => []SavedIsInverted
<1>1. Init => ImageInv BY ImageInit DEF Init
<1>2. ImageInv /\ [Next]_vars => ImageInv'
  <2> SUFFICES ASSUME ImageInv, [Next]_vars PROVE ImageInv' OBVIOUS
  <2>1. Image!Next \/ UNCHANGED imageVars BY DEF Next, vars, Only, SignalStep, SearchStep
  <2> QED BY <2>1, ImageNext
<1>3. ImageInv => SavedIsInverted BY ImageInvInverts
<1> QED BY <1>1, <1>2, <1>3, PTL DEF Spec

-----------------------------------------------------------------------------
(* The parser.  What has been collected are the stretches of the line so    *)
(* far, of symbols or, on the right of an assignment, of commands.           *)

(* Stretches, and how a character more changes them.                       *)

Stretch(seq, set, i, j) ==
  (\A k \in i .. j : seq[k] \in set) /\ (j < Len(seq) => seq[j + 1] \notin set)
Until(seq, set, k) == {l \in Parser!Starts(seq, set) : l <= k}

\* the last character is in the set
Open(seq, set) == Len(seq) > 0 /\ seq[Len(seq)] \in set

LEMMA StartsAre ==
  ASSUME NEW S, NEW seq \in Seq(S), NEW set
  PROVE  LET starts == Parser!Starts(seq, set) IN
         /\ \A k : k \in starts <=> k \in 1 .. Len(seq) /\ seq[k] \in set /\ (k = 1 \/ seq[k - 1] \notin set)
         /\ IsFiniteSet(starts) /\ Cardinality(starts) \in Nat /\ Parser!Cardinality(starts) = Cardinality(starts)
         /\ \A k : IsFiniteSet(Until(seq, set, k)) /\ Cardinality(Until(seq, set, k)) \in Nat
                   /\ Parser!Rank(seq, set, k) = Cardinality(Until(seq, set, k))
         /\ \A k : Cardinality(Until(seq, set, k)) <= Cardinality(starts)
                   /\ (Cardinality(Until(seq, set, k)) = Cardinality(starts) => Until(seq, set, k) = starts)
<1> DEFINE starts == Parser!Starts(seq, set)
<1>1. Len(seq) \in Nat /\ DOMAIN seq = 1 .. Len(seq) OBVIOUS
<1>2. \A k : k \in starts <=> k \in 1 .. Len(seq) /\ seq[k] \in set /\ (k = 1 \/ seq[k - 1] \notin set)
  BY <1>1 DEF Parser!Starts
<1>3. \A T : Parser!Cardinality(T) = Cardinality(T) BY DEF Parser!Cardinality, Cardinality
<1>4. \A k : Parser!Rank(seq, set, k) = Cardinality(Until(seq, set, k)) BY <1>3 DEF Parser!Rank, Until
<1> HIDE DEF starts
<1>5. IsFiniteSet(starts)
  <2>1. IsFiniteSet(1 .. Len(seq)) BY <1>1, FS_Interval
  <2>2. starts \subseteq 1 .. Len(seq) BY <1>2
  <2> QED BY <2>1, <2>2, FS_Subset
<1>6. \A k : Until(seq, set, k) \in SUBSET starts BY DEF Until, starts
<1>7. Cardinality(starts) \in Nat BY <1>5, FS_CardinalityType
<1>8. ASSUME NEW k
      PROVE  /\ IsFiniteSet(Until(seq, set, k)) /\ Cardinality(Until(seq, set, k)) \in Nat
             /\ Cardinality(Until(seq, set, k)) <= Cardinality(starts)
             /\ Cardinality(Until(seq, set, k)) = Cardinality(starts) => Until(seq, set, k) = starts
  <2> DEFINE T == Until(seq, set, k)
  <2>1. T \in SUBSET starts BY <1>6
  <2> HIDE DEF T
  <2>2. IsFiniteSet(T) /\ Cardinality(T) <= Cardinality(starts) /\ (Cardinality(starts) = Cardinality(T) => starts = T)
    BY <1>5, <2>1, FS_Subset
  <2>3. Cardinality(T) \in Nat BY <2>2, FS_CardinalityType
  <2> QED BY <2>2, <2>3 DEF T
<1> QED BY <1>2, <1>3, <1>4, <1>5, <1>7, <1>8 DEF starts

LEMMA AreStretchesIs ==
  ASSUME NEW S, NEW seq \in Seq(S), NEW set, NEW items
  PROVE  Parser!AreStretches(items, seq, set) <=>
           /\ Len(items) = Cardinality(Parser!Starts(seq, set))
           /\ \A i \in Parser!Starts(seq, set) : \A j \in i .. Len(seq) :
                Stretch(seq, set, i, j) => items[Cardinality(Until(seq, set, i))] = SubSeq(seq, i, j)
<1>1. \A T : Parser!Cardinality(T) = Cardinality(T) BY DEF Parser!Cardinality, Cardinality
<1>2. \A k : Parser!Rank(seq, set, k) = Cardinality(Until(seq, set, k)) BY <1>1 DEF Parser!Rank, Until
<1> QED BY <1>1, <1>2 DEF Parser!AreStretches, Stretch

LEMMA StartsGrow ==
  ASSUME NEW S, NEW seq \in Seq(S), NEW set, NEW c \in S
  PROVE  LET new == Append(seq, c)
             n == Len(seq)
             starts == Parser!Starts(seq, set)
         IN  /\ new \in Seq(S) /\ Len(new) = n + 1 /\ n \in Nat /\ new[n + 1] = c
             /\ \A k \in 1 .. n : new[k] = seq[k]
             /\ Open(new, set) <=> c \in set
             /\ IF c \in set /\ ~Open(seq, set)
                THEN /\ Parser!Starts(new, set) = starts \cup {n + 1}
                     /\ Cardinality(Parser!Starts(new, set)) = Cardinality(starts) + 1
                     /\ Cardinality(Until(new, set, n + 1)) = Cardinality(starts) + 1
                ELSE Parser!Starts(new, set) = starts
             /\ \A i \in starts : Until(new, set, i) = Until(seq, set, i)
<1> DEFINE new == Append(seq, c)
           n == Len(seq)
           starts == Parser!Starts(seq, set)
           more == Parser!Starts(new, set)
<1>1. /\ new \in Seq(S) /\ Len(new) = n + 1 /\ n \in Nat /\ new[n + 1] = c
      /\ \A k \in 1 .. n : new[k] = seq[k]
  BY AppendProperties, LenProperties
<1> HIDE DEF new
<1>2. \A k : k \in starts <=> k \in 1 .. n /\ seq[k] \in set /\ (k = 1 \/ seq[k - 1] \notin set)
  BY StartsAre
<1>3. \A k : k \in more <=> k \in 1 .. n + 1 /\ new[k] \in set /\ (k = 1 \/ new[k - 1] \notin set)
  BY <1>1, StartsAre
<1>4. Open(seq, set) <=> n > 0 /\ seq[n] \in set BY DEF Open
<1>5. Open(new, set) <=> c \in set BY <1>1 DEF Open
<1>6. IsFiniteSet(starts) /\ IsFiniteSet(more) BY <1>1, StartsAre
<1> HIDE DEF n, starts, more
<1>7. \A k \in 1 .. n : k \in more <=> k \in starts
  <2> SUFFICES ASSUME NEW k \in 1 .. n PROVE k \in more <=> k \in starts OBVIOUS
  <2>1. k \in 1 .. n + 1 /\ new[k] = seq[k] BY <1>1
  <2>2. k # 1 => new[k - 1] = seq[k - 1] BY <1>1
  <2> QED BY <1>2, <1>3, <2>1, <2>2
<1>8. n + 1 \in more <=> c \in set /\ ~Open(seq, set)
  <2>1. n + 1 \in 1 .. n + 1 /\ (n + 1 = 1 <=> n = 0) /\ n + 1 - 1 = n BY <1>1
  <2>2. n # 0 => new[n] = seq[n] BY <1>1
  <2> QED BY <1>1, <1>3, <1>4, <2>1, <2>2
<1>9. starts \subseteq 1 .. n /\ more \subseteq 1 .. n + 1 /\ ~(n + 1 \in starts) BY <1>1, <1>2, <1>3
<1>10. ASSUME NEW i \in starts PROVE Until(new, set, i) = Until(seq, set, i)
  <2>1. i \in 1 .. n BY <1>9
  <2>2. ASSUME NEW l PROVE l \in more /\ l <= i <=> l \in starts /\ l <= i
    <3>1. l \in more => l \in 1 .. n \/ ~(l <= i) BY <1>1, <1>9, <2>1
    <3>2. l \in starts => l \in 1 .. n BY <1>9
    <3> QED BY <1>7, <3>1, <3>2
  <2> QED BY <2>2 DEF Until, more, starts
<1>11. CASE c \in set /\ ~Open(seq, set)
  <2>1. more = starts \cup {n + 1}
    <3>1. \A k \in 1 .. n + 1 : k \in 1 .. n \/ k = n + 1 BY <1>1
    <3> QED BY <1>7, <1>8, <1>9, <1>11, <3>1
  <2>2. Cardinality(starts \cup {n + 1}) = Cardinality(starts) + 1 BY <1>6, <1>9, FS_AddElement
  <2>3. Until(new, set, n + 1) = more
    <3>1. \A k \in more : k <= n + 1 BY <1>1, <1>9
    <3> QED BY <3>1 DEF Until, more
  <2> QED BY <1>1, <1>5, <1>10, <1>11, <2>1, <2>2, <2>3 DEF new, n, starts, more
<1>12. CASE ~(c \in set /\ ~Open(seq, set))
  <2>1. more = starts
    <3>1. \A k \in 1 .. n + 1 : k \in 1 .. n \/ k = n + 1 BY <1>1
    <3> QED BY <1>7, <1>8, <1>9, <1>12, <3>1
  <2> QED BY <1>1, <1>5, <1>10, <1>12, <2>1 DEF new, n, starts, more
<1> QED BY <1>11, <1>12

LEMMA SubSeqIs ==
  ASSUME NEW S, NEW s \in Seq(S), NEW a \in 1 .. Len(s), NEW b \in a .. Len(s)
  PROVE  /\ SubSeq(s, a, b) \in Seq(S) /\ Len(SubSeq(s, a, b)) = b - a + 1
         /\ \A k \in 1 .. b - a + 1 : SubSeq(s, a, b)[k] = s[a + k - 1]
<1>1. Len(s) \in Nat /\ \A k \in 1 .. Len(s) : s[k] \in S BY ElementOfSeq, LenProperties
<1>2. a \in Int /\ b \in Int /\ a <= b BY <1>1
<1>3. \A k \in a .. b : s[k] \in S BY <1>1
<1> QED BY <1>2, <1>3, SubSeqProperties

LEMMA SubSeqLast ==
  ASSUME NEW S, NEW s \in Seq(S), NEW c \in S
  PROVE  SubSeq(Append(s, c), Len(s) + 1, Len(s) + 1) = <<c>>
<1> DEFINE new == Append(s, c)
           n == Len(s)
           x == SubSeq(new, n + 1, n + 1)
<1>1. new \in Seq(S) /\ Len(new) = n + 1 /\ n \in Nat /\ new[n + 1] = c BY AppendProperties, LenProperties
<1> HIDE DEF new, n
<1>2. n + 1 \in 1 .. Len(new) /\ n + 1 \in n + 1 .. Len(new) BY <1>1
<1>3. /\ x \in Seq(S) /\ Len(x) = n + 1 - (n + 1) + 1
      /\ \A k \in 1 .. n + 1 - (n + 1) + 1 : x[k] = new[n + 1 + k - 1]
  BY <1>1, <1>2, SubSeqIs
<1> HIDE DEF x
<1>4. n + 1 - (n + 1) + 1 = 1 /\ n + 1 + 1 - 1 = n + 1 /\ 1 \in 1 .. 1 BY <1>1
<1>5. Len(x) = 1 /\ x[1] = c BY <1>1, <1>3, <1>4
<1>6. <<c>> \in Seq(S) /\ Len(<<c>>) = 1 /\ <<c>>[1] = c OBVIOUS
<1>7. \A k \in 1 .. Len(x) : x[k] = <<c>>[k] BY <1>5, <1>6
<1>8. x = <<c>> BY <1>3, <1>5, <1>6, <1>7, SeqEqual
<1> QED BY <1>8 DEF x, new, n

LEMMA SubSeqGrow ==
  ASSUME NEW S, NEW seq \in Seq(S), NEW c \in S, NEW i \in 1 .. Len(seq)
  PROVE  LET new == Append(seq, c)
             n == Len(seq)
         IN  /\ \A j \in i .. n : SubSeq(new, i, j) = SubSeq(seq, i, j) /\ SubSeq(seq, i, j) \in Seq(S)
             /\ SubSeq(new, i, n + 1) = Append(SubSeq(seq, i, n), c)
<1> DEFINE new == Append(seq, c)
           n == Len(seq)
<1>1. /\ new \in Seq(S) /\ Len(new) = n + 1 /\ n \in Nat /\ new[n + 1] = c
      /\ \A k \in 1 .. n : new[k] = seq[k] /\ seq[k] \in S
  <2>1. seq \in [1 .. n -> S] OBVIOUS
  <2> QED BY <2>1, AppendProperties, LenProperties
<1> HIDE DEF new, n
<1>3. i \in 1 .. n BY DEF n
<1>4. ASSUME NEW j \in i .. n PROVE SubSeq(new, i, j) = SubSeq(seq, i, j) /\ SubSeq(seq, i, j) \in Seq(S)
  <2> DEFINE x == SubSeq(new, i, j)
             y == SubSeq(seq, i, j)
             len == j - i + 1
  <2>1. i \in 1 .. Len(new) /\ j \in i .. Len(new) /\ i \in 1 .. Len(seq) /\ j \in i .. Len(seq)
    BY <1>1, <1>3 DEF n
  <2>2. x \in Seq(S) /\ Len(x) = len /\ \A k \in 1 .. len : x[k] = new[i + k - 1] BY <1>1, <2>1, SubSeqIs
  <2>3. y \in Seq(S) /\ Len(y) = len /\ \A k \in 1 .. len : y[k] = seq[i + k - 1] BY <2>1, SubSeqIs
  <2>4. \A k \in 1 .. len : i + k - 1 \in 1 .. n BY <1>1, <1>3
  <2> HIDE DEF x, y, len
  <2>5. \A k \in 1 .. Len(x) : x[k] = y[k] BY <1>1, <2>2, <2>3, <2>4
  <2>6. x = y BY <2>2, <2>3, <2>5, SeqEqual
  <2> QED BY <2>3, <2>6 DEF x, y
<1>5. SubSeq(new, i, n + 1) = Append(SubSeq(seq, i, n), c)
  <2> DEFINE x == SubSeq(new, i, n + 1)
             y == SubSeq(seq, i, n)
             len == n - i + 1
             z == Append(y, c)
  <2>1. i \in 1 .. Len(new) /\ n + 1 \in i .. Len(new) /\ i \in 1 .. Len(seq) /\ n \in i .. Len(seq)
    BY <1>1, <1>3 DEF n
  <2>2. x \in Seq(S) /\ Len(x) = n + 1 - i + 1 /\ \A k \in 1 .. n + 1 - i + 1 : x[k] = new[i + k - 1]
    BY <1>1, <2>1, SubSeqIs
  <2>3. y \in Seq(S) /\ Len(y) = len /\ \A k \in 1 .. len : y[k] = seq[i + k - 1] BY <2>1, SubSeqIs
  <2> HIDE DEF x, y
  <2>4. z \in Seq(S) /\ Len(z) = len + 1 /\ z[len + 1] = c /\ \A k \in 1 .. len : z[k] = y[k]
    <3>1. z \in Seq(S) /\ Len(z) = Len(y) + 1 /\ z[Len(y) + 1] = c /\ \A k \in 1 .. Len(y) : z[k] = y[k]
      BY <2>3, AppendProperties
    <3> HIDE DEF z
    <3> QED BY <2>3, <3>1
  <2>5. len \in Nat /\ n + 1 - i + 1 = len + 1 /\ i + (len + 1) - 1 = n + 1
        /\ \A k \in 1 .. len : i + k - 1 \in 1 .. n
    BY <1>1, <1>3
  <2> HIDE DEF z, len
  <2>6. ASSUME NEW k \in 1 .. len PROVE x[k] = z[k]
    <3>1. k \in 1 .. n + 1 - i + 1 BY <2>5
    <3>2. x[k] = new[i + k - 1] BY <2>2, <3>1
    <3>3. z[k] = seq[i + k - 1] BY <2>3, <2>4
    <3> QED BY <1>1, <2>5, <3>2, <3>3
  <2>7. x[len + 1] = z[len + 1] BY <1>1, <2>2, <2>4, <2>5
  <2>8. \A k \in 1 .. Len(x) : x[k] = z[k] BY <2>2, <2>5, <2>6, <2>7
  <2>9. x = z BY <2>2, <2>4, <2>5, <2>8, SeqEqual
  <2> QED BY <2>9 DEF x, y, z
<1> QED BY <1>4, <1>5 DEF new, n

\* a stretch that is the last, and one that is followed by another
LEMMA LastStretch ==
  ASSUME NEW S, NEW seq \in Seq(S), NEW set, NEW i \in Parser!Starts(seq, set)
  PROVE  LET n == Len(seq)
             starts == Parser!Starts(seq, set)
         IN  /\ Cardinality(Until(seq, set, i)) \in 1 .. Cardinality(starts)
             /\ (\A k \in i .. n : seq[k] \in set) => Cardinality(Until(seq, set, i)) = Cardinality(starts)
             /\ \A j \in i .. n - 1 : seq[j + 1] \notin set /\ Open(seq, set) =>
                  Cardinality(Until(seq, set, i)) # Cardinality(starts)
<1> DEFINE n == Len(seq)
           starts == Parser!Starts(seq, set)
           U == Until(seq, set, i)
<1>1. n \in Nat OBVIOUS
<1>2. \A k : k \in starts <=> k \in 1 .. n /\ seq[k] \in set /\ (k = 1 \/ seq[k - 1] \notin set)
  BY StartsAre
<1>3. /\ IsFiniteSet(U) /\ Cardinality(U) \in Nat /\ Cardinality(starts) \in Nat
      /\ Cardinality(U) <= Cardinality(starts)
      /\ Cardinality(U) = Cardinality(starts) => U = starts
  BY StartsAre
<1>4. \A l : l \in U <=> l \in starts /\ l <= i BY DEF Until
<1>5. Open(seq, set) <=> n > 0 /\ seq[n] \in set BY DEF Open
<1>6. i \in starts OBVIOUS
<1> HIDE DEF n, starts, U
<1>7. i \in 1 .. n /\ i \in U BY <1>1, <1>2, <1>4, <1>6
<1>8. Cardinality(U) # 0
  <2>1. U # {} BY <1>7
  <2> QED BY <1>3, <2>1, FS_EmptySet
<1>9. Cardinality(U) \in 1 .. Cardinality(starts) BY <1>3, <1>8
<1>10. ASSUME \A k \in i .. n : seq[k] \in set PROVE Cardinality(U) = Cardinality(starts)
  <2>1. ASSUME NEW l \in starts, ~(l <= i) PROVE FALSE
    <3>1. l \in 1 .. n /\ (l = 1 \/ seq[l - 1] \notin set) BY <1>2, <2>1
    <3>2. l # 1 /\ l - 1 \in i .. n BY <1>1, <1>7, <2>1, <3>1
    <3> QED BY <1>10, <3>1, <3>2
  <2>2. U = starts BY <1>4, <2>1
  <2> QED BY <2>2
<1>11. ASSUME NEW j \in i .. n - 1, seq[j + 1] \notin set, Open(seq, set)
       PROVE  Cardinality(U) # Cardinality(starts)
  <2> DEFINE B == {k \in j + 1 .. n : \A l \in k .. n : seq[l] \in set}
  <2>1. j \in Nat /\ j + 1 \in 1 .. n /\ j >= i BY <1>1, <1>7
  <2>2. n \in B
    <3>1. n \in j + 1 .. n /\ \A l \in n .. n : l = n BY <1>1, <2>1
    <3> QED BY <1>5, <1>11, <3>1
  <2>3. B \in SUBSET Nat BY <1>1, <2>1
  <2>4. PICK m \in B : \A k \in B : m <= k BY <2>2, <2>3, Least
  <2>5. m \in j + 1 .. n /\ \A l \in m .. n : seq[l] \in set OBVIOUS
  <2>6. m \in Nat /\ m # j + 1 /\ seq[m] \in set
    <3>1. m \in Nat /\ m \in m .. n BY <1>1, <2>1, <2>5
    <3> QED BY <1>11, <2>5, <3>1
  <2>7. m - 1 \in j + 1 .. n /\ ~(m <= m - 1) BY <1>1, <2>1, <2>5, <2>6
  <2>8. ASSUME seq[m - 1] \in set PROVE FALSE
    <3>1. \A l \in m - 1 .. n : l = m - 1 \/ l \in m .. n BY <1>1, <2>6
    <3>2. m - 1 \in B BY <2>5, <2>7, <2>8, <3>1
    <3> QED BY <2>4, <2>7, <3>2
  <2>9. m \in 1 .. n BY <1>1, <2>1, <2>5
  <2>10. m \in starts BY <1>2, <2>6, <2>8, <2>9
  <2>11. ~(m <= i) BY <1>1, <1>7, <2>1, <2>5
  <2>12. U # starts BY <1>4, <2>10, <2>11
  <2> QED BY <1>3, <2>12
<1> QED BY <1>9, <1>10, <1>11 DEF n, starts, U

\* a character outside the set
LEMMA StretchesStay ==
  ASSUME NEW S, NEW seq \in Seq(S), NEW set, NEW c \in S, c \notin set, NEW items,
         Parser!AreStretches(items, seq, set)
  PROVE  Parser!AreStretches(items, Append(seq, c), set)
<1> DEFINE new == Append(seq, c)
           n == Len(seq)
           starts == Parser!Starts(seq, set)
<1>1. /\ new \in Seq(S) /\ Len(new) = n + 1 /\ n \in Nat /\ new[n + 1] = c
      /\ \A k \in 1 .. n : new[k] = seq[k]
      /\ Parser!Starts(new, set) = starts
      /\ \A i \in starts : Until(new, set, i) = Until(seq, set, i)
  BY StartsGrow
<1>2. /\ Len(items) = Cardinality(starts)
      /\ \A i \in starts : \A j \in i .. n :
           Stretch(seq, set, i, j) => items[Cardinality(Until(seq, set, i))] = SubSeq(seq, i, j)
  BY AreStretchesIs
<1>3. ASSUME NEW i \in starts, NEW j \in i .. n + 1, Stretch(new, set, i, j)
      PROVE  items[Cardinality(Until(new, set, i))] = SubSeq(new, i, j)
  <2>1. i \in 1 .. n BY StartsAre
  <2>2. \A k \in i .. j : new[k] \in set BY <1>3 DEF Stretch
  <2>3. j < Len(new) => new[j + 1] \notin set BY <1>3 DEF Stretch
  <2> HIDE DEF new, n
  <2>4. j \in i .. n
    <3>1. j # n + 1
      <4>1. j \in i .. j BY <1>1, <2>1
      <4> QED BY <1>1, <2>2, <4>1
    <3> QED BY <1>1, <2>1, <3>1
  <2>5. \A k \in i .. j : seq[k] \in set
    <3>1. \A k \in i .. j : k \in 1 .. n BY <1>1, <2>1, <2>4
    <3> QED BY <1>1, <2>2, <3>1
  <2>6. j < n => seq[j + 1] \notin set
    <3> SUFFICES ASSUME j < n PROVE seq[j + 1] \notin set OBVIOUS
    <3>1. j < Len(new) /\ j + 1 \in 1 .. n BY <1>1, <2>1, <2>4
    <3> QED BY <1>1, <2>3, <3>1
  <2>7. Stretch(seq, set, i, j) BY <2>5, <2>6 DEF Stretch, n
  <2>8. SubSeq(new, i, j) = SubSeq(seq, i, j) BY <2>1, <2>4, SubSeqGrow DEF new, n
  <2> QED BY <1>1, <1>2, <2>4, <2>7, <2>8
<1> HIDE DEF new, n, starts
<1>4. /\ Len(items) = Cardinality(Parser!Starts(new, set))
      /\ \A i \in Parser!Starts(new, set) : \A j \in i .. Len(new) :
           Stretch(new, set, i, j) => items[Cardinality(Until(new, set, i))] = SubSeq(new, i, j)
  BY <1>1, <1>2, <1>3
<1>5. Parser!AreStretches(items, new, set) BY <1>1, <1>4, AreStretchesIs
<1> QED BY <1>5 DEF new

\* one of the set after one outside
LEMMA StretchBegins ==
  ASSUME NEW S, NEW seq \in Seq(S), NEW set, NEW c \in S, c \in set, ~Open(seq, set),
         NEW items \in Seq(Seq(S)), Parser!AreStretches(items, seq, set)
  PROVE  Parser!AreStretches(Append(items, <<c>>), Append(seq, c), set)
<1> DEFINE new == Append(seq, c)
           n == Len(seq)
           starts == Parser!Starts(seq, set)
           more == Append(items, <<c>>)
           count == Cardinality(starts)
<1>1. /\ new \in Seq(S) /\ Len(new) = n + 1 /\ n \in Nat /\ new[n + 1] = c
      /\ \A k \in 1 .. n : new[k] = seq[k]
      /\ Parser!Starts(new, set) = starts \cup {n + 1}
      /\ Cardinality(Parser!Starts(new, set)) = count + 1
      /\ Cardinality(Until(new, set, n + 1)) = count + 1
      /\ \A i \in starts : Until(new, set, i) = Until(seq, set, i)
  BY StartsGrow
<1>2. /\ Len(items) = count
      /\ \A i \in starts : \A j \in i .. n :
           Stretch(seq, set, i, j) => items[Cardinality(Until(seq, set, i))] = SubSeq(seq, i, j)
  BY AreStretchesIs
<1>3. Len(more) = count + 1 /\ more[count + 1] = <<c>> /\ \A k \in 1 .. count : more[k] = items[k]
  <2>1. <<c>> \in Seq(S) OBVIOUS
  <2> DEFINE x == <<c>>
  <2> HIDE DEF x
  <2>2. /\ Len(Append(items, x)) = Len(items) + 1 /\ Append(items, x)[Len(items) + 1] = x
        /\ \A k \in 1 .. Len(items) : Append(items, x)[k] = items[k]
    BY <2>1, AppendProperties DEF x
  <2> QED BY <1>2, <2>2 DEF x
<1>4. ASSUME NEW i \in starts, NEW j \in i .. n + 1, Stretch(new, set, i, j)
      PROVE  more[Cardinality(Until(new, set, i))] = SubSeq(new, i, j)
  <2>1. i \in 1 .. n BY StartsAre
  <2>2. \A k \in i .. j : new[k] \in set BY <1>4 DEF Stretch
  <2>3. j < Len(new) => new[j + 1] \notin set BY <1>4 DEF Stretch
  <2>4. ~(n > 0 /\ seq[n] \in set) BY DEF Open
  <2>5. Cardinality(Until(seq, set, i)) \in 1 .. count BY LastStretch
  <2> HIDE DEF new, n, more, count
  <2>6. j \in i .. n
    <3>1. j # n + 1
      <4>1. j = n + 1 => n \in i .. j BY <1>1, <2>1
      <4> QED BY <1>1, <2>1, <2>2, <2>4, <4>1
    <3> QED BY <1>1, <2>1, <3>1
  <2>7. \A k \in i .. j : seq[k] \in set
    <3>1. \A k \in i .. j : k \in 1 .. n BY <1>1, <2>1, <2>6
    <3> QED BY <1>1, <2>2, <3>1
  <2>8. j < n => seq[j + 1] \notin set
    <3> SUFFICES ASSUME j < n PROVE seq[j + 1] \notin set OBVIOUS
    <3>1. j < Len(new) /\ j + 1 \in 1 .. n BY <1>1, <2>1, <2>6
    <3> QED BY <1>1, <2>3, <3>1
  <2>9. Stretch(seq, set, i, j) BY <2>7, <2>8 DEF Stretch, n
  <2>10. SubSeq(new, i, j) = SubSeq(seq, i, j) BY <2>1, <2>6, SubSeqGrow DEF new, n
  <2> QED BY <1>1, <1>2, <1>3, <2>5, <2>6, <2>9, <2>10
<1>5. ASSUME NEW j \in n + 1 .. n + 1
      PROVE  more[Cardinality(Until(new, set, n + 1))] = SubSeq(new, n + 1, j)
  <2>1. j = n + 1 BY <1>1
  <2>2. SubSeq(new, n + 1, n + 1) = <<c>>
    <3>1. \A s \in Seq(S) : SubSeq(Append(s, c), Len(s) + 1, Len(s) + 1) = <<c>> BY SubSeqLast
    <3> QED BY <3>1
  <2> HIDE DEF new, n, more, count
  <2> QED BY <1>1, <1>3, <2>1, <2>2
<1> HIDE DEF new, n, starts, more, count
<1>6. /\ Len(more) = Cardinality(Parser!Starts(new, set))
      /\ \A i \in Parser!Starts(new, set) : \A j \in i .. Len(new) :
           Stretch(new, set, i, j) => more[Cardinality(Until(new, set, i))] = SubSeq(new, i, j)
  BY <1>1, <1>3, <1>4, <1>5
<1>7. Parser!AreStretches(more, new, set) BY <1>1, <1>6, AreStretchesIs
<1> QED BY <1>7 DEF new, more

\* one of the set after another
LEMMA StretchGrows ==
  ASSUME NEW S, NEW seq \in Seq(S), NEW set, NEW c \in S, c \in set, Open(seq, set),
         NEW items \in Seq(Seq(S)), Parser!AreStretches(items, seq, set)
  PROVE  /\ Len(items) > 0
         /\ Parser!AreStretches([items EXCEPT ![Len(items)] = Append(@, c)], Append(seq, c), set)
<1> DEFINE new == Append(seq, c)
           n == Len(seq)
           starts == Parser!Starts(seq, set)
           count == Cardinality(starts)
           longer == Append(items[Len(items)], c)
           more == [items EXCEPT ![Len(items)] = longer]
<1>1. /\ new \in Seq(S) /\ Len(new) = n + 1 /\ n \in Nat /\ new[n + 1] = c
      /\ \A k \in 1 .. n : new[k] = seq[k]
      /\ Parser!Starts(new, set) = starts
      /\ \A i \in starts : Until(new, set, i) = Until(seq, set, i)
  BY StartsGrow
<1>2. /\ Len(items) = count
      /\ \A i \in starts : \A j \in i .. n :
           Stretch(seq, set, i, j) => items[Cardinality(Until(seq, set, i))] = SubSeq(seq, i, j)
  BY AreStretchesIs
<1>3. count \in Nat /\ DOMAIN items = 1 .. count BY <1>2
<1>4. \A k \in 1 .. count : more[k] = IF k = count THEN longer ELSE items[k] BY <1>2, <1>3
<1>5. Len(more) = count
  <2>1. DOMAIN more = 1 .. count BY <1>3
  <2> QED BY <1>2, <1>3, <2>1
<1>6. n > 0 /\ seq[n] \in set BY DEF Open
<1>7. ASSUME NEW i \in starts, NEW j \in i .. n + 1, Stretch(new, set, i, j)
      PROVE  more[Cardinality(Until(new, set, i))] = SubSeq(new, i, j)
  <2> DEFINE r == Cardinality(Until(seq, set, i))
  <2>1. i \in 1 .. n BY StartsAre
  <2>2. \A k \in i .. j : new[k] \in set BY <1>7 DEF Stretch
  <2>3. j < Len(new) => new[j + 1] \notin set BY <1>7 DEF Stretch
  <2>4. /\ r \in 1 .. count
        /\ (\A k \in i .. n : seq[k] \in set) => r = count
        /\ \A l \in i .. n - 1 : seq[l + 1] \notin set => r # count
    BY LastStretch
  <2>5. Cardinality(Until(new, set, i)) = r BY <1>1
  <2> HIDE DEF new, n, more, count, r, longer
  <2>6. CASE j = n + 1
    <3>1. \A k \in i .. n : k \in i .. j /\ k \in 1 .. n BY <1>1, <2>1, <2>6
    <3>2. \A k \in i .. n : seq[k] \in set BY <1>1, <2>2, <3>1
    <3>3. r = count BY <2>4, <3>2
    <3>4. n \in i .. n /\ ~(n < n) BY <1>1, <2>1
    <3>5. Stretch(seq, set, i, n) BY <3>2, <3>4 DEF Stretch, n
    <3>6. items[count] = SubSeq(seq, i, n) BY <1>2, <3>3, <3>4, <3>5 DEF r
    <3>7. SubSeq(new, i, n + 1) = Append(SubSeq(seq, i, n), c) BY <2>1, SubSeqGrow DEF new, n
    <3>8. longer = Append(items[count], c) BY <1>2 DEF longer
    <3> QED BY <1>4, <2>4, <2>5, <2>6, <3>3, <3>6, <3>7, <3>8
  <2>7. CASE j # n + 1
    <3>1. j \in i .. n BY <1>1, <2>1, <2>7
    <3>2. j # n
      <4>1. j = n => j < Len(new) BY <1>1
      <4> QED BY <1>1, <2>3, <4>1
    <3>3. j \in i .. n - 1 /\ j < Len(new) /\ j + 1 \in 1 .. n BY <1>1, <2>1, <3>1, <3>2
    <3>4. seq[j + 1] \notin set BY <1>1, <2>3, <3>3
    <3>5. r # count BY <2>4, <3>3, <3>4
    <3>6. \A k \in i .. j : seq[k] \in set
      <4>1. \A k \in i .. j : k \in 1 .. n BY <1>1, <2>1, <3>1
      <4> QED BY <1>1, <2>2, <4>1
    <3>7. Stretch(seq, set, i, j) BY <3>4, <3>6 DEF Stretch
    <3>8. items[r] = SubSeq(seq, i, j) BY <1>2, <3>1, <3>7 DEF r
    <3>9. SubSeq(new, i, j) = SubSeq(seq, i, j) BY <2>1, <3>1, SubSeqGrow DEF new, n
    <3> QED BY <1>4, <2>4, <2>5, <3>5, <3>8, <3>9
  <2> QED BY <2>6, <2>7
<1>8. count > 0
  <2>1. starts # {}
    <3> DEFINE B == {k \in 1 .. n : \A l \in k .. n : seq[l] \in set}
    <3>1. n \in B
      <4>1. n \in 1 .. n /\ \A l \in n .. n : l = n BY <1>1, <1>6
      <4> QED BY <1>6, <4>1
    <3>2. B \in SUBSET Nat OBVIOUS
    <3>3. PICK m \in B : \A k \in B : m <= k BY <3>1, <3>2, Least
    <3> HIDE DEF n
    <3>4. m \in 1 .. n /\ \A l \in m .. n : seq[l] \in set OBVIOUS
    <3>5. m \in m .. n BY <3>4
    <3>6. m = 1 \/ seq[m - 1] \notin set
      <4> SUFFICES ASSUME m # 1, seq[m - 1] \in set PROVE FALSE OBVIOUS
      <4>1. m - 1 \in 1 .. n /\ ~(m <= m - 1) /\ \A l \in m - 1 .. n : l = m - 1 \/ l \in m .. n
        BY <1>1, <3>4
      <4>2. m - 1 \in B BY <3>4, <4>1
      <4> QED BY <3>3, <4>1, <4>2
    <3>7. m \in starts BY <3>4, <3>5, <3>6, StartsAre DEF n
    <3> QED BY <3>7
  <2>2. IsFiniteSet(starts) BY StartsAre
  <2> HIDE DEF starts
  <2> QED BY <1>3, <2>1, <2>2, FS_EmptySet
<1> HIDE DEF new, n, starts, more, count
<1>9. /\ Len(more) = Cardinality(Parser!Starts(new, set))
      /\ \A i \in Parser!Starts(new, set) : \A j \in i .. Len(new) :
           Stretch(new, set, i, j) => more[Cardinality(Until(new, set, i))] = SubSeq(new, i, j)
  BY <1>1, <1>5, <1>7 DEF count
<1>10. Parser!AreStretches(more, new, set) BY <1>1, <1>9, AreStretchesIs
<1> QED BY <1>2, <1>8, <1>10 DEF new, more, longer

(* Up to the limit, what has been collected are the stretches.             *)

Collected(items, seq, set, limit) ==
  Cardinality(Parser!Starts(seq, set)) <= limit => Parser!AreStretches(items, seq, set)

LEMMA NothingCollected ==
  ASSUME NEW S, NEW set
  PROVE  /\ Parser!Starts(<<>>, set) = {} /\ Cardinality(Parser!Starts(<<>>, set)) = 0
         /\ Parser!AreStretches(<<>>, <<>>, set) /\ ~Open(<<>>, set)
<1>1. <<>> \in Seq(S) /\ Len(<<>>) = 0 OBVIOUS
<1>2. DOMAIN <<>> = {} BY <1>1
<1>3. Parser!Starts(<<>>, set) = {} BY <1>2 DEF Parser!Starts
<1>4. Cardinality(Parser!Starts(<<>>, set)) = 0 BY <1>3, FS_EmptySet
<1>5. ~Open(<<>>, set) BY <1>1 DEF Open
<1>6. Parser!AreStretches(<<>>, <<>>, set)
  <2>1. Parser!Cardinality({}) = Cardinality({}) BY DEF Parser!Cardinality, Cardinality
  <2> QED BY <1>1, <1>3, <1>4, <2>1 DEF Parser!AreStretches
<1> QED BY <1>3, <1>4, <1>5, <1>6

LEMMA CollectedStays ==
  ASSUME NEW S, NEW seq \in Seq(S), NEW set, NEW c \in S, c \notin set, NEW items, NEW limit,
         Collected(items, seq, set, limit)
  PROVE  /\ Collected(items, Append(seq, c), set, limit) /\ ~Open(Append(seq, c), set)
         /\ Parser!Starts(Append(seq, c), set) = Parser!Starts(seq, set)
<1>1. /\ ~Open(Append(seq, c), set)
      /\ Parser!Starts(Append(seq, c), set) = Parser!Starts(seq, set)
  BY StartsGrow
<1>2. CASE Parser!AreStretches(items, seq, set) BY <1>1, <1>2, StretchesStay DEF Collected
<1>3. CASE ~Parser!AreStretches(items, seq, set) BY <1>1, <1>3 DEF Collected
<1> QED BY <1>2, <1>3

LEMMA CollectedBegins ==
  ASSUME NEW S, NEW seq \in Seq(S), NEW set, NEW c \in S, c \in set, ~Open(seq, set),
         NEW items \in Seq(Seq(S)), NEW limit \in Nat, Collected(items, seq, set, limit)
  PROVE  /\ Parser!NewItem(items, c, limit) \in Seq(Seq(S))
         /\ Collected(Parser!NewItem(items, c, limit), Append(seq, c), set, limit)
         /\ Open(Append(seq, c), set)
         /\ Cardinality(Parser!Starts(Append(seq, c), set)) = Cardinality(Parser!Starts(seq, set)) + 1
<1> DEFINE x == <<c>>
<1>1. x \in Seq(S) OBVIOUS
<1>2. Parser!NewItem(items, c, limit) = IF Len(items) >= limit THEN items ELSE Append(items, x)
  BY DEF Parser!NewItem
<1>3. Parser!NewItem(items, c, limit) \in Seq(Seq(S))
  <2> HIDE DEF x
  <2>1. Append(items, x) \in Seq(Seq(S)) BY <1>1, AppendProperties
  <2> QED BY <1>2, <2>1
<1>4. /\ Open(Append(seq, c), set)
      /\ Cardinality(Parser!Starts(Append(seq, c), set)) = Cardinality(Parser!Starts(seq, set)) + 1
      /\ Cardinality(Parser!Starts(seq, set)) \in Nat
  BY StartsGrow, StartsAre
<1>5. ASSUME Cardinality(Parser!Starts(Append(seq, c), set)) <= limit
      PROVE  Parser!AreStretches(Parser!NewItem(items, c, limit), Append(seq, c), set)
  <2>1. Parser!AreStretches(items, seq, set) BY <1>4, <1>5 DEF Collected
  <2>2. Len(items) = Cardinality(Parser!Starts(seq, set)) BY <2>1, AreStretchesIs
  <2>3. Parser!NewItem(items, c, limit) = Append(items, x) BY <1>2, <1>4, <1>5, <2>2
  <2> QED BY <2>1, <2>3, StretchBegins
<1> QED BY <1>3, <1>4, <1>5 DEF Collected

LEMMA PushedIs ==
  ASSUME NEW S, NEW c \in S, NEW items \in Seq(Seq(S)), NEW limit \in Nat
  PROVE  LET pushed == Parser!Pushed(items, c, limit) IN
         /\ pushed.ok \in BOOLEAN /\ pushed.items \in Seq(Seq(S)) /\ Len(pushed.items) = Len(items)
         /\ pushed.ok => pushed.items = [items EXCEPT ![Len(items)] = Append(@, c)]
         /\ ~pushed.ok => pushed.items = items
<1> DEFINE more == [items EXCEPT ![Len(items)] = Append(@, c)]
           longer == Append(items[Len(items)], c)
<1>1. more \in Seq(Seq(S)) /\ Len(more) = Len(items)
  <2>1. more = [items EXCEPT ![Len(items)] = longer] OBVIOUS
  <2>2. CASE Len(items) = 0
    <3>1. items = <<>> /\ DOMAIN items = {} BY <2>2
    <3>2. more = items BY <3>1
    <3> QED BY <3>2
  <2>3. CASE Len(items) # 0
    <3>1. items[Len(items)] \in Seq(S) /\ Len(items) \in 1 .. Len(items) BY <2>3
    <3>2. longer \in Seq(S) BY <3>1, AppendProperties
    <3> HIDE DEF longer
    <3>3. [items EXCEPT ![Len(items)] = longer] \in Seq(Seq(S))
          /\ Len([items EXCEPT ![Len(items)] = longer]) = Len(items)
      BY <3>1, <3>2, ExceptSeq
    <3> QED BY <2>1, <3>3
  <2> QED BY <2>2, <2>3
<1>2. Parser!Pushed(items, c, limit) = [ok |-> FALSE, items |-> items]
      \/ Parser!Pushed(items, c, limit) = [ok |-> TRUE, items |-> more]
  BY DEF Parser!Pushed
<1>3. CASE Parser!Pushed(items, c, limit) = [ok |-> FALSE, items |-> items] BY <1>3
<1>4. CASE Parser!Pushed(items, c, limit) = [ok |-> TRUE, items |-> more]
  <2>1. Parser!Pushed(items, c, limit).ok = TRUE /\ Parser!Pushed(items, c, limit).items = more
    <3> HIDE DEF more
    <3> QED BY <1>4
  <2>2. Parser!Pushed(items, c, limit).items = [items EXCEPT ![Len(items)] = Append(@, c)] BY <2>1
  <2> QED BY <1>1, <2>1, <2>2, Zenon
<1> QED BY <1>2, <1>3, <1>4

LEMMA CollectedGrows ==
  ASSUME NEW S, NEW seq \in Seq(S), NEW set, NEW c \in S, c \in set, Open(seq, set),
         NEW items \in Seq(Seq(S)), NEW limit, NEW size \in Nat,
         Collected(items, seq, set, limit), Parser!Pushed(items, c, size).ok
  PROVE  /\ Collected(Parser!Pushed(items, c, size).items, Append(seq, c), set, limit)
         /\ Open(Append(seq, c), set)
         /\ Parser!Starts(Append(seq, c), set) = Parser!Starts(seq, set)
<1>1. /\ Open(Append(seq, c), set)
      /\ Parser!Starts(Append(seq, c), set) = Parser!Starts(seq, set)
  BY StartsGrow
<1>2. Parser!Pushed(items, c, size).items = [items EXCEPT ![Len(items)] = Append(@, c)] BY PushedIs
<1>3. CASE Parser!AreStretches(items, seq, set)
  <2>1. Parser!AreStretches([items EXCEPT ![Len(items)] = Append(@, c)], Append(seq, c), set)
    BY <1>3, StretchGrows, Zenon
  <2>2. Parser!AreStretches(Parser!Pushed(items, c, size).items, Append(seq, c), set)
    BY <1>2, <2>1, Zenon
  <2> QED BY <1>1, <2>2 DEF Collected
<1>4. CASE ~Parser!AreStretches(items, seq, set) BY <1>1, <1>4 DEF Collected
<1> QED BY <1>3, <1>4

(* The two sides of an assignment, and the definitions.                    *)

LEMMA MinIs ==
  ASSUME NEW S \in SUBSET Nat, NEW x \in S, \A y \in S : x <= y
  PROVE  Parser!Min(S) = x
<1>1. \A z \in S : (\A y \in S : z <= y) => z = x OBVIOUS
<1>2. Parser!Min(S) = CHOOSE z \in S : \A y \in S : z <= y BY DEF Parser!Min
<1> QED BY <1>1, <1>2

LEMMA OnceDefined ==
  ASSUME NEW S, assign_exprs \in Seq(S), NEW symbol, Parser!Defined(symbol)
  PROVE  Parser!DefinedOnce(symbol)
<1> DEFINE D == {k \in DOMAIN assign_exprs : assign_exprs[k].symbol = symbol}
<1>1. Parser!Cardinality(D) = 1 BY DEF Parser!Defined, Parser!Quantify
<1>2. Parser!Cardinality(D) = Cardinality(D) BY DEF Parser!Cardinality, Cardinality
<1>3. IsFiniteSet(D)
  <2>1. Len(assign_exprs) \in Nat /\ DOMAIN assign_exprs = 1 .. Len(assign_exprs) OBVIOUS
  <2>2. IsFiniteSet(DOMAIN assign_exprs) BY <2>1, FS_Interval
  <2> QED BY <2>2, FS_Subset
<1>4. \E d : D = {d} BY <1>1, <1>2, <1>3, FS_Singleton
<1> QED BY <1>4 DEF Parser!DefinedOnce

Left == {"INIT", "SYM1", "SYM1_WS", "PIPE_WS", "PIPE_SYM", "PIPE_SYM_WS"}
Right == {"ASSIGN_WS", "ASSIGN_CMD", "ASSIGN_CMD_PIPE_WS"}

LEMMA Moves ==
  ASSUME NEW c, NEW s \in Parser!Successors(c)
  PROVE  \/ c = "space" /\ (s = state \/ (state = "SYM1" /\ s = "SYM1_WS")
                            \/ (state = "PIPE_SYM" /\ s = "PIPE_SYM_WS"))
            /\ state \in {"INIT", "SYM1", "SYM1_WS", "PIPE_WS", "PIPE_SYM", "PIPE_SYM_WS", "ASSIGN_WS"}
            /\ s \notin {"SYM1", "PIPE_SYM"}
         \/ c = "symbol" /\ state \in {"INIT", "SYM1"} /\ s = "SYM1"
         \/ c = "symbol" /\ state \in {"PIPE_WS", "PIPE_SYM"} /\ s = "PIPE_SYM"
         \/ c = "assign" /\ state \in {"SYM1", "SYM1_WS"} /\ s = "ASSIGN_WS"
         \/ c = "pipe" /\ state \in {"SYM1", "SYM1_WS", "PIPE_SYM_WS"} /\ s = "PIPE_WS"
         \/ c = "pipe" /\ state = "ASSIGN_CMD" /\ s = "ASSIGN_CMD_PIPE_WS"
         \/ c = "newline" /\ state = "INIT" /\ s = "INIT"
         \/ c \in Parser!Command /\ state \in Right /\ s = "ASSIGN_CMD"
            /\ (state = "ASSIGN_WS" => c # "space")
<1>1. PICK m \in Parser!Chain : m[1] = state /\ m[2] = c /\ m[3] = s BY DEF Parser!Successors
<1>2. CASE m \in {<<"ASSIGN_WS", d, "ASSIGN_CMD">> : d \in Parser!Command \ {"space"}}
  BY <1>1, <1>2 DEF Right
<1>3. CASE m \in {<<t, d, "ASSIGN_CMD">> : t \in {"ASSIGN_CMD", "ASSIGN_CMD_PIPE_WS"}, d \in Parser!Command}
  BY <1>1, <1>3 DEF Right
<1>4. CASE m[2] = "space" /\ m \in Parser!Chain
  <2>1. \/ m[1] = m[3] /\ m[1] \in {"INIT", "SYM1_WS", "PIPE_WS", "PIPE_SYM_WS", "ASSIGN_WS"}
        \/ m[1] = "SYM1" /\ m[3] = "SYM1_WS"
        \/ m[1] = "PIPE_SYM" /\ m[3] = "PIPE_SYM_WS"
        \/ m[1] \in Right \ {"ASSIGN_WS"} /\ m[3] = "ASSIGN_CMD"
    BY <1>4 DEF Parser!Chain, Right
  <2> QED BY <1>1, <1>4, <2>1 DEF Right, Parser!Command
<1> QED BY <1>1, <1>2, <1>3, <1>4 DEF Parser!Chain, Parser!Command, Right

(* The invariant.                                                          *)

Line == Seq(Parser!Char)

ParserTypes ==
  /\ state \in Left \cup Right \cup {"ERR"}
  /\ line \in Line /\ symbols \in Seq(Line) /\ commands \in Seq(Line)
  /\ assign_exprs \in Seq([symbol : Line, commands : Seq(Line)])

\* as long as the line may be a chain of symbols
SymbolsSoFar ==
  state \in Left =>
    /\ \A k \in 1 .. Len(line) : line[k] # "assign"
    /\ commands = <<>>
    /\ Collected(symbols, line, {"symbol"}, PARSER_MAX_SYMBOLS)
    /\ Open(line, {"symbol"}) <=> state \in {"SYM1", "PIPE_SYM"}
    /\ state = "INIT" => symbols = <<>> /\ Cardinality(Parser!Starts(line, {"symbol"})) = 0
    /\ state \in {"SYM1", "SYM1_WS"} => Cardinality(Parser!Starts(line, {"symbol"})) = 1

\* the sign of an assignment, and the place where its commands begin
SignAt(eq) ==
  /\ line[eq] = "assign" /\ \A k \in 1 .. eq - 1 : line[k] # "assign"
  /\ Parser!AreStretches(symbols, SubSeq(line, 1, eq - 1), {"symbol"}) /\ Len(symbols) = 1

CommandsFrom(eq, from) ==
  /\ line[from] # "space" /\ \A k \in eq + 1 .. from - 1 : line[k] = "space"
  /\ Collected(commands, SubSeq(line, from, Len(line)), Parser!Command, PARSER_MAX_COMMANDS)
  /\ Open(SubSeq(line, from, Len(line)), Parser!Command) <=> state = "ASSIGN_CMD"

CommandsSoFar ==
  state \in Right =>
    \E eq \in 2 .. Len(line) :
      /\ SignAt(eq)
      /\ IF state = "ASSIGN_WS"
         THEN commands = <<>> /\ \A k \in eq + 1 .. Len(line) : line[k] = "space"
         ELSE \E from \in eq + 1 .. Len(line) : CommandsFrom(eq, from)

ParserInv == ParserTypes /\ SymbolsSoFar /\ CommandsSoFar

LEMMA Limits ==
  /\ PARSER_MAX_SYMBOLS \in Nat \ {0} /\ PARSER_MAX_COMMANDS \in Nat \ {0}
  /\ PARSER_MAX_SYMBOL_SIZE \in Nat /\ PARSER_MAX_COMMAND_SIZE \in Nat
BY ProgramsAssumption

LEMMA ParserInit == Parser!Init => ParserInv
<1> SUFFICES ASSUME Parser!Init PROVE ParserInv OBVIOUS
<1>1. /\ state = "INIT" /\ symbols = <<>> /\ commands = <<>> /\ assign_exprs = <<>> /\ line = <<>>
  BY DEF Parser!Init
<1>2. ParserTypes BY <1>1 DEF ParserTypes, Left, Line
<1>3. SymbolsSoFar
  <2>1. /\ Cardinality(Parser!Starts(line, {"symbol"})) = 0 /\ ~Open(line, {"symbol"})
        /\ Parser!AreStretches(symbols, line, {"symbol"})
    BY <1>1, NothingCollected
  <2>2. Len(line) = 0 BY <1>1
  <2> QED BY <1>1, <2>1, <2>2 DEF SymbolsSoFar, Collected
<1>4. CommandsSoFar BY <1>1 DEF CommandsSoFar, Right
<1> QED BY <1>2, <1>3, <1>4 DEF ParserInv

LEMMA ParserFails == ASSUME ParserTypes', state' = "ERR" PROVE ParserInv'
BY DEF ParserInv, SymbolsSoFar, CommandsSoFar, Left, Right

LEMMA LineGrows ==
  ASSUME line \in Line, NEW c \in Parser!Char
  PROVE  LET new == Append(line, c)
             n == Len(line)
         IN  /\ new \in Line /\ n \in Nat /\ Len(new) = n + 1 /\ new[n + 1] = c
             /\ \A k \in 1 .. n : new[k] = line[k]
             /\ \A eq \in 2 .. n : SubSeq(new, 1, eq - 1) = SubSeq(line, 1, eq - 1)
             /\ n > 0 => SubSeq(new, 1, n) = line
             /\ \A from \in 1 .. n : SubSeq(new, from, n + 1) = Append(SubSeq(line, from, n), c)
                                     /\ SubSeq(line, from, n) \in Line
             /\ SubSeq(new, n + 1, n + 1) = Append(<<>>, c)
<1> DEFINE new == Append(line, c)
           n == Len(line)
<1>1. line \in Seq(Parser!Char) BY DEF Line
<1>2. /\ new \in Seq(Parser!Char) /\ n \in Nat /\ Len(new) = n + 1 /\ new[n + 1] = c
      /\ \A k \in 1 .. n : new[k] = line[k]
  BY <1>1, AppendProperties, LenProperties
<1>3. SubSeq(new, n + 1, n + 1) = Append(<<>>, c) BY <1>1, SubSeqLast
<1>4. ASSUME NEW i \in 1 .. n
      PROVE  /\ \A j \in i .. n : SubSeq(new, i, j) = SubSeq(line, i, j) /\ SubSeq(line, i, j) \in Seq(Parser!Char)
             /\ SubSeq(new, i, n + 1) = Append(SubSeq(line, i, n), c)
  BY <1>1, SubSeqGrow
<1> HIDE DEF new
<1>5. ASSUME n > 0 PROVE SubSeq(new, 1, n) = line
  <2>1. 1 \in 1 .. n /\ n \in 1 .. n BY <1>2, <1>5
  <2>2. SubSeq(new, 1, n) = SubSeq(line, 1, n) BY <1>4, <2>1
  <2>3. SubSeq(line, 1, n) = line
    <3>1. /\ SubSeq(line, 1, n) \in Seq(Parser!Char) /\ Len(SubSeq(line, 1, n)) = n
          /\ \A k \in 1 .. n : SubSeq(line, 1, n)[k] = line[k]
      <4>1. n - 1 + 1 = n /\ \A k \in 1 .. n : 1 + k - 1 = k BY <1>2
      <4> QED BY <1>1, <2>1, <4>1, SubSeqIs
    <3> QED BY <1>1, <3>1, SeqEqual
  <2> QED BY <2>2, <2>3
<1>6. ASSUME NEW eq \in 2 .. n PROVE SubSeq(new, 1, eq - 1) = SubSeq(line, 1, eq - 1)
  <2>1. 1 \in 1 .. n /\ eq - 1 \in 1 .. n BY <1>2
  <2> QED BY <1>4, <2>1
<1>7. ASSUME NEW from \in 1 .. n PROVE SubSeq(new, from, n + 1) = Append(SubSeq(line, from, n), c)
                                       /\ SubSeq(line, from, n) \in Line
  <2>1. n \in from .. n BY <1>2
  <2> QED BY <1>4, <2>1 DEF Line
<1> QED BY <1>2, <1>3, <1>5, <1>6, <1>7 DEF Line, new

\* what follows the sign of an assignment leaves the sign where it is
LEMMA SignStays ==
  ASSUME ParserTypes, NEW c \in Parser!Char, line' = Append(line, c), symbols' = symbols,
         NEW eq \in 2 .. Len(line), SignAt(eq)
  PROVE  SignAt(eq)' /\ eq \in 2 .. Len(line')
<1> DEFINE n == Len(line)
<1>1. line \in Line BY DEF ParserTypes
<1>2. /\ n \in Nat /\ Len(line') = n + 1 /\ \A k \in 1 .. n : line'[k] = line[k]
      /\ SubSeq(line', 1, eq - 1) = SubSeq(line, 1, eq - 1)
  BY <1>1, LineGrows
<1> HIDE DEF n
<1>3. eq \in 1 .. n /\ \A k \in 1 .. eq - 1 : k \in 1 .. n BY <1>2 DEF n
<1>4. line[eq] = "assign" /\ \A k \in 1 .. eq - 1 : line[k] # "assign" BY DEF SignAt
<1>5. line'[eq] = "assign" /\ \A k \in 1 .. eq - 1 : line'[k] # "assign" BY <1>2, <1>3, <1>4
<1>6. Parser!AreStretches(symbols', SubSeq(line', 1, eq - 1), {"symbol"}) /\ Len(symbols') = 1
  BY <1>2 DEF SignAt
<1>7. eq \in 2 .. Len(line') BY <1>2, <1>3
<1> QED BY <1>5, <1>6, <1>7 DEF SignAt

LEMMA TakesSymbolStep ==
  ASSUME ParserInv, NEW c \in Parser!Char, Parser!TakesSymbol(c), line' = Append(line, c)
  PROVE  ParserInv'
<1> DEFINE set == {"symbol"}
           limit == PARSER_MAX_SYMBOLS
<1> USE Limits
<1>1. c = "symbol" /\ commands' = commands /\ assign_exprs' = assign_exprs BY DEF Parser!TakesSymbol
<1>2. ParserTypes /\ SymbolsSoFar BY DEF ParserInv
<1>3. /\ line \in Seq(Parser!Char) /\ symbols \in Seq(Seq(Parser!Char)) /\ c \in set
      /\ line' \in Line
      /\ \A k \in 1 .. Len(line) : line'[k] = line[k]
      /\ Len(line) \in Nat /\ Len(line') = Len(line) + 1 /\ line'[Len(line) + 1] = c
  BY <1>1, <1>2, LineGrows DEF ParserTypes, Line
<1>4. CASE state \in {"INIT", "PIPE_WS"}
  <2>1. symbols' = Parser!NewItem(symbols, c, limit) /\ state' \in Parser!Successors(c)
    BY <1>4 DEF Parser!TakesSymbol
  <2>2. state' = IF state = "INIT" THEN "SYM1" ELSE "PIPE_SYM" BY <1>1, <1>4, <2>1, Moves DEF Right
  <2>3. ~Open(line, set) /\ Collected(symbols, line, set, limit) /\ commands = <<>>
        /\ \A k \in 1 .. Len(line) : line[k] # "assign"
    BY <1>2, <1>4 DEF SymbolsSoFar, Left
  <2>4. /\ symbols' \in Seq(Seq(Parser!Char)) /\ Collected(symbols', line', set, limit)
        /\ Open(line', set)
        /\ Cardinality(Parser!Starts(line', set)) = Cardinality(Parser!Starts(line, set)) + 1
    <3>1. limit \in Nat /\ c \in set BY <1>3
    <3> HIDE DEF set, limit
    <3>2. /\ Parser!NewItem(symbols, c, limit) \in Seq(Seq(Parser!Char))
          /\ Collected(Parser!NewItem(symbols, c, limit), Append(line, c), set, limit)
          /\ Open(Append(line, c), set)
          /\ Cardinality(Parser!Starts(Append(line, c), set)) = Cardinality(Parser!Starts(line, set)) + 1
      BY <1>3, <2>3, <3>1, CollectedBegins
    <3> QED BY <2>1, <3>2
  <2>5. ParserTypes' BY <1>1, <1>2, <1>3, <2>2, <2>4 DEF ParserTypes, Left, Line
  <2>6. state = "INIT" => Cardinality(Parser!Starts(line, set)) = 0
    BY <1>2, <1>4 DEF SymbolsSoFar, Left
  <2>7. \A k \in 1 .. Len(line') : line'[k] # "assign" BY <1>1, <1>3, <2>3
  <2>8. SymbolsSoFar'
    <3>1. state' = "SYM1" \/ state' = "PIPE_SYM" BY <2>2
    <3>2. state' = "SYM1" => Cardinality(Parser!Starts(line', set)) = 1 BY <1>4, <2>2, <2>4, <2>6
    <3>3. commands' = <<>> BY <1>1, <2>3
    <3>4. Collected(symbols', line', set, limit) /\ Open(line', set) BY <2>4
    <3> QED BY <2>7, <3>1, <3>2, <3>3, <3>4 DEF SymbolsSoFar
  <2>9. CommandsSoFar' BY <2>2 DEF CommandsSoFar, Right
  <2> QED BY <2>5, <2>8, <2>9 DEF ParserInv
<1>5. CASE state \in {"SYM1", "PIPE_SYM"}
  <2> DEFINE pushed == Parser!Pushed(symbols, c, PARSER_MAX_SYMBOL_SIZE)
  <2>1. symbols' = pushed.items /\ state' = IF pushed.ok THEN state ELSE "ERR"
    BY <1>5 DEF Parser!TakesSymbol
  <2>2. pushed.items \in Seq(Seq(Parser!Char)) BY <1>3, PushedIs
  <2>3. ParserTypes' BY <1>1, <1>2, <1>3, <2>1, <2>2 DEF ParserTypes, Left, Line
  <2>4. CASE ~pushed.ok BY <2>1, <2>3, <2>4, ParserFails
  <2>5. CASE pushed.ok
    <3>1. Open(line, set) /\ Collected(symbols, line, set, limit) /\ commands = <<>>
          /\ \A k \in 1 .. Len(line) : line[k] # "assign"
      BY <1>2, <1>5 DEF SymbolsSoFar, Left
    <3>2. /\ Collected(symbols', line', set, limit) /\ Open(line', set)
          /\ Parser!Starts(line', set) = Parser!Starts(line, set)
      <4>1. PARSER_MAX_SYMBOL_SIZE \in Nat BY Limits
      <4>2. pushed.ok /\ c \in set BY <1>3, <2>5
      <4> HIDE DEF set, limit
      <4>3. /\ Collected(pushed.items, Append(line, c), set, limit)
            /\ Open(Append(line, c), set)
            /\ Parser!Starts(Append(line, c), set) = Parser!Starts(line, set)
        BY <1>3, <3>1, <4>1, <4>2, CollectedGrows
      <4> QED BY <2>1, <4>3
    <3>3. \A k \in 1 .. Len(line') : line'[k] # "assign" BY <1>1, <1>3, <3>1
    <3>4. state' = state BY <2>1, <2>5
    <3>5. SymbolsSoFar' BY <1>1, <1>2, <1>5, <3>1, <3>2, <3>3, <3>4 DEF SymbolsSoFar, Left
    <3>6. CommandsSoFar' BY <1>5, <3>4 DEF CommandsSoFar, Right
    <3> QED BY <2>3, <3>5, <3>6 DEF ParserInv
  <2> QED BY <2>4, <2>5
<1> QED BY <1>4, <1>5 DEF Parser!TakesSymbol

\* what comes after the place where the commands begin leaves it there
LEMMA FromStays ==
  ASSUME ParserTypes, NEW c \in Parser!Char, line' = Append(line, c),
         NEW eq \in 2 .. Len(line), NEW from \in eq + 1 .. Len(line),
         line[from] # "space" /\ \A k \in eq + 1 .. from - 1 : line[k] = "space",
         Collected(commands', Append(SubSeq(line, from, Len(line)), c), Parser!Command, PARSER_MAX_COMMANDS),
         Open(Append(SubSeq(line, from, Len(line)), c), Parser!Command) <=> state' = "ASSIGN_CMD"
  PROVE  CommandsFrom(eq, from)' /\ from \in eq + 1 .. Len(line')
<1> DEFINE n == Len(line)
<1>1. line \in Line BY DEF ParserTypes
<1>2. n \in Nat /\ from \in 1 .. n BY <1>1, LineGrows
<1>3. /\ Len(line') = n + 1 /\ \A k \in 1 .. n : line'[k] = line[k]
      /\ SubSeq(line', from, Len(line')) = Append(SubSeq(line, from, n), c)
  BY <1>1, <1>2, LineGrows
<1> HIDE DEF n
<1>4. \A k \in eq + 1 .. from - 1 : k \in 1 .. n BY <1>2
<1>5. line'[from] # "space" /\ \A k \in eq + 1 .. from - 1 : line'[k] = "space" BY <1>2, <1>3, <1>4
<1>6. from \in eq + 1 .. Len(line') BY <1>2, <1>3
<1> QED BY <1>3, <1>5, <1>6 DEF CommandsFrom, n

LEMMA TakesCommandStep ==
  ASSUME ParserInv, NEW c \in Parser!Char, Parser!TakesCommand(c), line' = Append(line, c)
  PROVE  ParserInv'
<1> DEFINE set == Parser!Command
           limit == PARSER_MAX_COMMANDS
           n == Len(line)
<1> USE Limits
<1>1. c \in set /\ symbols' = symbols /\ assign_exprs' = assign_exprs BY DEF Parser!TakesCommand
<1>2. ParserTypes /\ CommandsSoFar BY DEF ParserInv
<1>3. /\ line \in Line /\ commands \in Seq(Seq(Parser!Char))
      /\ line' \in Line /\ n \in Nat /\ Len(line') = n + 1 /\ line'[n + 1] = c
      /\ \A k \in 1 .. n : line'[k] = line[k]
      /\ \A from \in 1 .. n : SubSeq(line, from, n) \in Seq(Parser!Char)
  BY <1>1, <1>2, LineGrows DEF ParserTypes, Line
<1>4. CASE state = "ASSIGN_WS"
  <2>1. commands' = Parser!NewItem(commands, c, limit) /\ state' \in Parser!Successors(c) /\ c # "space"
    BY <1>4 DEF Parser!TakesCommand
  <2>2. state' = "ASSIGN_CMD" BY <1>4, <2>1, Moves DEF Right
  <2>3. PICK eq \in 2 .. n : SignAt(eq) /\ commands = <<>> /\ \A k \in eq + 1 .. n : line[k] = "space"
    BY <1>2, <1>4 DEF CommandsSoFar, Right
  <2>4. SignAt(eq)' /\ eq \in 2 .. Len(line') BY <1>1, <1>2, <2>3, SignStays
  <2>5. /\ commands' \in Seq(Seq(Parser!Char)) /\ Collected(commands', Append(<<>>, c), set, limit)
        /\ Open(Append(<<>>, c), set)
    <3>1. <<>> \in Seq(Parser!Char) /\ ~Open(<<>>, set) /\ Collected(commands, <<>>, set, limit)
      BY <2>3, NothingCollected DEF Collected
    <3> QED BY <1>1, <1>3, <2>1, <3>1, CollectedBegins
  <2>6. SubSeq(line', n + 1, Len(line')) = Append(<<>>, c) BY <1>3, LineGrows
  <2>7. \A k \in eq + 1 .. n + 1 - 1 : line'[k] = "space" BY <1>3, <2>3
  <2>8. PICK from : from = n + 1 OBVIOUS
  <2>9. CommandsFrom(eq, from)' /\ from \in eq + 1 .. Len(line')
    <3>1. line'[from] # "space" /\ \A k \in eq + 1 .. from - 1 : line'[k] = "space"
      BY <1>3, <2>1, <2>7, <2>8
    <3>2. from \in eq + 1 .. Len(line') BY <1>3, <2>8
    <3> QED BY <2>2, <2>5, <2>6, <2>8, <3>1, <3>2 DEF CommandsFrom
  <2>10. ParserTypes' BY <1>1, <1>2, <1>3, <2>2, <2>5 DEF ParserTypes, Right, Line
  <2>11. CommandsSoFar' BY <2>2, <2>4, <2>9 DEF CommandsSoFar
  <2>12. SymbolsSoFar' BY <2>2 DEF SymbolsSoFar, Left
  <2> QED BY <2>10, <2>11, <2>12 DEF ParserInv
<1>5. ASSUME NEW eq \in 2 .. n, NEW from \in eq + 1 .. n, SignAt(eq), CommandsFrom(eq, from),
             state' = "ASSIGN_CMD", commands' \in Seq(Line),
             Collected(commands', Append(SubSeq(line, from, n), c), set, limit),
             Open(Append(SubSeq(line, from, n), c), set)
      PROVE  ParserInv'
  <2>1. ParserTypes' BY <1>1, <1>2, <1>3, <1>5 DEF ParserTypes, Right
  <2>2. SignAt(eq)' /\ eq \in 2 .. Len(line') BY <1>1, <1>2, <1>5, SignStays
  <2>3. CommandsFrom(eq, from)' /\ from \in eq + 1 .. Len(line')
    <3>1. line[from] # "space" /\ \A k \in eq + 1 .. from - 1 : line[k] = "space"
      BY <1>5 DEF CommandsFrom
    <3> QED BY <1>2, <1>5, <3>1, FromStays
  <2>4. CommandsSoFar' BY <1>5, <2>2, <2>3 DEF CommandsSoFar
  <2>5. SymbolsSoFar' BY <1>5 DEF SymbolsSoFar, Left
  <2> QED BY <2>1, <2>4, <2>5 DEF ParserInv
<1>6. CASE state = "ASSIGN_CMD_PIPE_WS"
  <2>1. commands' = Parser!NewItem(commands, c, limit) /\ state' \in Parser!Successors(c)
    BY <1>6 DEF Parser!TakesCommand
  <2>2. state' = "ASSIGN_CMD" BY <1>1, <1>6, <2>1, Moves
  <2>3. PICK eq \in 2 .. n : SignAt(eq) /\ \E from \in eq + 1 .. n : CommandsFrom(eq, from)
    BY <1>2, <1>6 DEF CommandsSoFar, Right
  <2>4. PICK from \in eq + 1 .. n : CommandsFrom(eq, from) BY <2>3
  <2>5. from \in 1 .. n BY <1>3
  <2>6. ~Open(SubSeq(line, from, n), set) /\ Collected(commands, SubSeq(line, from, n), set, limit)
    BY <1>6, <2>4 DEF CommandsFrom
  <2>7. /\ commands' \in Seq(Seq(Parser!Char)) /\ Open(Append(SubSeq(line, from, n), c), set)
        /\ Collected(commands', Append(SubSeq(line, from, n), c), set, limit)
    BY <1>1, <1>3, <2>1, <2>5, <2>6, CollectedBegins
  <2> QED BY <1>5, <2>2, <2>3, <2>4, <2>7 DEF Line
<1>7. CASE state = "ASSIGN_CMD"
  <2> DEFINE pushed == Parser!Pushed(commands, c, PARSER_MAX_COMMAND_SIZE)
  <2>1. commands' = pushed.items /\ state' = IF pushed.ok THEN state ELSE "ERR"
    BY <1>7 DEF Parser!TakesCommand
  <2>2. pushed.items \in Seq(Seq(Parser!Char)) BY <1>1, <1>3, PushedIs
  <2>3. CASE ~pushed.ok
    <3>1. ParserTypes' BY <1>1, <1>2, <1>3, <2>1, <2>2, <2>3 DEF ParserTypes, Line
    <3> QED BY <2>1, <2>3, <3>1, ParserFails
  <2>4. CASE pushed.ok
    <3>1. PICK eq \in 2 .. n : SignAt(eq) /\ \E from \in eq + 1 .. n : CommandsFrom(eq, from)
      BY <1>2, <1>7 DEF CommandsSoFar, Right
    <3>2. PICK from \in eq + 1 .. n : CommandsFrom(eq, from) BY <3>1
    <3>3. from \in 1 .. n BY <1>3
    <3>4. Open(SubSeq(line, from, n), set) /\ Collected(commands, SubSeq(line, from, n), set, limit)
      BY <1>7, <3>2 DEF CommandsFrom
    <3>5. /\ Open(Append(SubSeq(line, from, n), c), set)
          /\ Collected(commands', Append(SubSeq(line, from, n), c), set, limit)
      BY <1>1, <1>3, <2>1, <2>4, <3>3, <3>4, CollectedGrows
    <3>6. state' = "ASSIGN_CMD" BY <1>7, <2>1, <2>4
    <3> QED BY <1>5, <2>1, <2>2, <3>1, <3>2, <3>5, <3>6 DEF Line
  <2> QED BY <2>3, <2>4
<1> QED BY <1>4, <1>6, <1>7 DEF Parser!TakesCommand

LEMMA SeparatesStep ==
  ASSUME ParserInv, NEW c \in Parser!Char, Parser!Separates(c), line' = Append(line, c)
  PROVE  ParserInv'
<1> DEFINE n == Len(line)
           set == {"symbol"}
<1> USE Limits
<1>1. /\ c \in {"space", "assign", "pipe"} /\ state' \in Parser!Successors(c)
      /\ symbols' = symbols /\ commands' = commands /\ assign_exprs' = assign_exprs
  BY DEF Parser!Separates
<1>2. ParserTypes /\ SymbolsSoFar /\ CommandsSoFar BY DEF ParserInv
<1>3. /\ line \in Line /\ line' \in Line /\ n \in Nat /\ Len(line') = n + 1 /\ line'[n + 1] = c
      /\ \A k \in 1 .. n : line'[k] = line[k]
      /\ \A from \in 1 .. n : SubSeq(line, from, n) \in Line
      /\ n > 0 => SubSeq(line', 1, n) = line
  BY <1>2, LineGrows DEF ParserTypes
<1>4. \/ /\ c \in {"space", "pipe"} /\ state \in Left /\ state' \in Left \ {"SYM1", "PIPE_SYM"}
         /\ state' = "INIT" => state = "INIT"
         /\ state' = "SYM1_WS" => state \in {"SYM1", "SYM1_WS"}
      \/ c = "assign" /\ state \in {"SYM1", "SYM1_WS"} /\ state' = "ASSIGN_WS"
      \/ c = "space" /\ state = "ASSIGN_WS" /\ state' = "ASSIGN_WS"
      \/ c = "pipe" /\ state = "ASSIGN_CMD" /\ state' = "ASSIGN_CMD_PIPE_WS"
  <2>1. /\ state \notin {"ASSIGN_CMD_PIPE_WS", "ERR"}
        /\ state = "ASSIGN_CMD" => c = "pipe"
        /\ state = "ASSIGN_WS" => c # "assign"
    BY DEF Parser!Separates
  <2>2. c = "space" => state \notin {"ASSIGN_CMD", "ASSIGN_CMD_PIPE_WS"} BY <2>1
  <2> QED BY <1>1, <2>1, <2>2, Moves DEF Left, Right, Parser!Command
<1>5. ParserTypes' BY <1>1, <1>2, <1>3, <1>4 DEF ParserTypes, Left, Right
<1>6. CASE /\ c \in {"space", "pipe"} /\ state \in Left /\ state' \in Left \ {"SYM1", "PIPE_SYM"}
           /\ state' = "INIT" => state = "INIT"
           /\ state' = "SYM1_WS" => state \in {"SYM1", "SYM1_WS"}
  <2>1. /\ \A k \in 1 .. n : line[k] # "assign"
        /\ commands = <<>>
        /\ Collected(symbols, line, set, PARSER_MAX_SYMBOLS)
        /\ state = "INIT" => symbols = <<>> /\ Cardinality(Parser!Starts(line, set)) = 0
        /\ state \in {"SYM1", "SYM1_WS"} => Cardinality(Parser!Starts(line, set)) = 1
    BY <1>2, <1>6 DEF SymbolsSoFar
  <2>2. /\ Collected(symbols', line', set, PARSER_MAX_SYMBOLS) /\ ~Open(line', set)
        /\ Parser!Starts(line', set) = Parser!Starts(line, set)
    <3>1. c \notin set /\ line \in Seq(Parser!Char) BY <1>3, <1>6 DEF Line
    <3> HIDE DEF set
    <3>2. /\ Collected(symbols, Append(line, c), set, PARSER_MAX_SYMBOLS) /\ ~Open(Append(line, c), set)
          /\ Parser!Starts(Append(line, c), set) = Parser!Starts(line, set)
      BY <2>1, <3>1, CollectedStays
    <3> QED BY <1>1, <3>2
  <2>3. \A k \in 1 .. Len(line') : line'[k] # "assign" BY <1>3, <1>6, <2>1
  <2>4. SymbolsSoFar'
    <3>1. state' = "INIT" => symbols' = <<>> /\ Cardinality(Parser!Starts(line', set)) = 0
      BY <1>1, <1>6, <2>1, <2>2
    <3>2. state' \in {"SYM1", "SYM1_WS"} => Cardinality(Parser!Starts(line', set)) = 1
      BY <1>6, <2>1, <2>2
    <3>3. commands' = <<>> /\ state' \notin {"SYM1", "PIPE_SYM"} BY <1>1, <1>6, <2>1
    <3> QED BY <2>2, <2>3, <3>1, <3>2, <3>3 DEF SymbolsSoFar
  <2>5. CommandsSoFar' BY <1>6 DEF CommandsSoFar, Left, Right
  <2> QED BY <1>5, <2>4, <2>5 DEF ParserInv
<1>7. CASE c = "assign" /\ state \in {"SYM1", "SYM1_WS"} /\ state' = "ASSIGN_WS"
  <2>1. /\ \A k \in 1 .. n : line[k] # "assign"
        /\ commands = <<>>
        /\ Collected(symbols, line, set, PARSER_MAX_SYMBOLS)
        /\ Cardinality(Parser!Starts(line, set)) = 1
    BY <1>2, <1>7 DEF SymbolsSoFar, Left
  <2>2. Parser!AreStretches(symbols, line, set) /\ Len(symbols) = 1
    <3>1. Parser!AreStretches(symbols, line, set) BY <2>1 DEF Collected
    <3> QED BY <1>3, <2>1, <3>1, AreStretchesIs DEF Line
  <2>3. n > 0
    <3>1. CASE n = 0
      <4>1. line = <<>> BY <1>3, <3>1 DEF Line
      <4> QED BY <2>1, <4>1, NothingCollected
    <3> QED BY <1>3, <3>1
  <2>4. PICK eq : eq = n + 1 OBVIOUS
  <2>5. eq - 1 = n /\ eq \in 2 .. Len(line') BY <1>3, <2>3, <2>4
  <2>6. SignAt(eq)'
    <3>1. SubSeq(line', 1, eq - 1) = line BY <1>3, <2>3, <2>5
    <3>2. line'[eq] = "assign" /\ \A k \in 1 .. eq - 1 : line'[k] # "assign"
      BY <1>3, <1>7, <2>1, <2>4, <2>5
    <3> QED BY <1>1, <2>2, <3>1, <3>2 DEF SignAt
  <2>7. \A k \in eq + 1 .. Len(line') : line'[k] = "space" BY <1>3, <2>4
  <2>8. CommandsSoFar' BY <1>1, <1>7, <2>1, <2>5, <2>6, <2>7 DEF CommandsSoFar
  <2>9. SymbolsSoFar' BY <1>7 DEF SymbolsSoFar, Left
  <2> QED BY <1>5, <2>8, <2>9 DEF ParserInv
<1>8. CASE c = "space" /\ state = "ASSIGN_WS" /\ state' = "ASSIGN_WS"
  <2>1. PICK eq \in 2 .. n : SignAt(eq) /\ commands = <<>> /\ \A k \in eq + 1 .. n : line[k] = "space"
    BY <1>2, <1>8 DEF CommandsSoFar, Right
  <2>2. SignAt(eq)' /\ eq \in 2 .. Len(line') BY <1>1, <1>2, <2>1, SignStays
  <2>3. \A k \in eq + 1 .. Len(line') : line'[k] = "space" BY <1>3, <1>8, <2>1
  <2>4. CommandsSoFar' BY <1>1, <1>8, <2>1, <2>2, <2>3 DEF CommandsSoFar
  <2>5. SymbolsSoFar' BY <1>8 DEF SymbolsSoFar, Left
  <2> QED BY <1>5, <2>4, <2>5 DEF ParserInv
<1>9. CASE c = "pipe" /\ state = "ASSIGN_CMD" /\ state' = "ASSIGN_CMD_PIPE_WS"
  <2>1. PICK eq \in 2 .. n : SignAt(eq) /\ \E from \in eq + 1 .. n : CommandsFrom(eq, from)
    BY <1>2, <1>9 DEF CommandsSoFar, Right
  <2>2. PICK from \in eq + 1 .. n : CommandsFrom(eq, from) BY <2>1
  <2>3. SubSeq(line, from, n) \in Seq(Parser!Char)
    <3>1. from \in 1 .. n BY <1>3
    <3> QED BY <1>3, <3>1 DEF Line
  <2>4. /\ Collected(commands', Append(SubSeq(line, from, n), c), Parser!Command, PARSER_MAX_COMMANDS)
        /\ ~Open(Append(SubSeq(line, from, n), c), Parser!Command)
    <3>1. c \notin Parser!Command BY <1>9 DEF Parser!Command
    <3>2. Collected(commands, SubSeq(line, from, n), Parser!Command, PARSER_MAX_COMMANDS)
      BY <2>2 DEF CommandsFrom
    <3>3. /\ Collected(commands, Append(SubSeq(line, from, n), c), Parser!Command, PARSER_MAX_COMMANDS)
          /\ ~Open(Append(SubSeq(line, from, n), c), Parser!Command)
      BY <2>3, <3>1, <3>2, CollectedStays
    <3> QED BY <1>1, <3>3
  <2>5. SignAt(eq)' /\ eq \in 2 .. Len(line') BY <1>1, <1>2, <2>1, SignStays
  <2>6. CommandsFrom(eq, from)' /\ from \in eq + 1 .. Len(line')
    <3>1. line[from] # "space" /\ \A k \in eq + 1 .. from - 1 : line[k] = "space"
      BY <2>2 DEF CommandsFrom
    <3>2. Open(Append(SubSeq(line, from, n), c), Parser!Command) <=> state' = "ASSIGN_CMD"
      BY <1>9, <2>4
    <3> QED BY <1>2, <2>4, <3>1, <3>2, FromStays
  <2>7. CommandsSoFar' BY <1>9, <2>5, <2>6 DEF CommandsSoFar
  <2>8. SymbolsSoFar' BY <1>9 DEF SymbolsSoFar, Left
  <2> QED BY <1>5, <2>7, <2>8 DEF ParserInv
<1> QED BY <1>4, <1>6, <1>7, <1>8, <1>9

LEMMA EndsLineStep ==
  ASSUME ParserInv, Parser!EndsLine("newline"), line' = <<>>
  PROVE  ParserInv'
<1>1. ParserTypes BY DEF ParserInv
<1>2. symbols' = <<>> /\ commands' = <<>> BY DEF Parser!EndsLine
<1>3. /\ state' \in {"INIT", "ERR"}
      /\ \/ assign_exprs' = assign_exprs
         \/ state = "ASSIGN_CMD"
            /\ assign_exprs' = Append(assign_exprs, [symbol |-> symbols[1], commands |-> commands])
  BY DEF Parser!EndsLine
<1>4. assign_exprs' \in Seq([symbol : Line, commands : Seq(Line)])
  <2>1. CASE assign_exprs' = assign_exprs BY <1>1, <2>1 DEF ParserTypes
  <2>2. CASE state = "ASSIGN_CMD"
             /\ assign_exprs' = Append(assign_exprs, [symbol |-> symbols[1], commands |-> commands])
    <3>1. Len(symbols) = 1 BY <2>2 DEF ParserInv, CommandsSoFar, SignAt, Right
    <3>2. symbols[1] \in Line
      <4>1. symbols \in Seq(Line) /\ 1 \in 1 .. Len(symbols) BY <1>1, <3>1 DEF ParserTypes
      <4> QED BY <4>1, ElementOfSeq
    <3>3. [symbol |-> symbols[1], commands |-> commands] \in [symbol : Line, commands : Seq(Line)]
      BY <1>1, <3>2 DEF ParserTypes
    <3> QED BY <1>1, <2>2, <3>3, AppendProperties DEF ParserTypes
  <2> QED BY <1>3, <2>1, <2>2
<1>5. ParserTypes' BY <1>2, <1>3, <1>4 DEF ParserTypes, Left, Line
<1>6. CASE state' = "INIT"
  <2>1. /\ Cardinality(Parser!Starts(line', {"symbol"})) = 0 /\ ~Open(line', {"symbol"})
        /\ Parser!AreStretches(symbols', line', {"symbol"})
    BY <1>2, NothingCollected
  <2>2. Len(line') = 0 OBVIOUS
  <2>3. SymbolsSoFar' BY <1>2, <1>6, <2>1, <2>2 DEF SymbolsSoFar, Collected
  <2>4. CommandsSoFar' BY <1>6 DEF CommandsSoFar, Right
  <2> QED BY <1>5, <2>3, <2>4 DEF ParserInv
<1> QED BY <1>3, <1>5, <1>6, ParserFails

LEMMA RejectsStep ==
  ASSUME ParserInv, NEW c \in Parser!Char, Parser!Rejects(c), line' = Append(line, c)
  PROVE  ParserInv'
<1>1. ParserTypes BY DEF ParserInv
<1>2. line' \in Line BY <1>1, LineGrows DEF ParserTypes
<1>3. state' = "ERR" /\ UNCHANGED <<symbols, commands, assign_exprs>>
  BY DEF Parser!Rejects, Parser!Fails
<1>4. ParserTypes' BY <1>1, <1>2, <1>3 DEF ParserTypes
<1> QED BY <1>3, <1>4, ParserFails

LEMMA ParserStays ==
  ASSUME ParserInv, UNCHANGED <<state, symbols, commands, assign_exprs, line>> PROVE ParserInv'
BY DEF ParserInv, ParserTypes, SymbolsSoFar, CommandsSoFar, SignAt, CommandsFrom

LEMMA ParserNext == ParserInv /\ [Next]_vars => ParserInv'
<1> SUFFICES ASSUME ParserInv, [Next]_vars PROVE ParserInv' OBVIOUS
<1>1. CASE UNCHANGED parserVars BY <1>1, ParserStays DEF parserVars
<1>2. ASSUME NEW c \in Parser!Char, Parser!parser_feed(c) PROVE ParserInv'
  <2>1. CASE UNCHANGED <<state, symbols, commands, assign_exprs, line>> BY <2>1, ParserStays
  <2>2. CASE /\ Parser!TakesSymbol(c) \/ Parser!TakesCommand(c) \/ Parser!Separates(c)
                \/ Parser!EndsLine(c) \/ Parser!Rejects(c)
             /\ line' = IF c = "newline" THEN <<>> ELSE Append(line, c)
    <3>1. CASE c = "newline"
      <4>1. Parser!EndsLine(c)
        BY <2>2, <3>1 DEF Parser!TakesSymbol, Parser!TakesCommand, Parser!Separates, Parser!Rejects,
                          Parser!Command
      <4> QED BY <2>2, <3>1, <4>1, EndsLineStep
    <3>2. CASE c # "newline"
      <4>1. ~Parser!EndsLine(c) BY <3>2 DEF Parser!EndsLine
      <4> QED BY <2>2, <3>2, <4>1, TakesSymbolStep, TakesCommandStep, SeparatesStep, RejectsStep
    <3> QED BY <3>1, <3>2
  <2> QED BY <1>2, <2>1, <2>2 DEF Parser!parser_feed
<1>3. UNCHANGED parserVars \/ \E c \in Parser!Char : Parser!parser_feed(c)
  BY DEF Next, vars, Only, SignalStep, SearchStep, Parser!Next
<1> QED BY <1>1, <1>2, <1>3

\* The words of a line that is executed are the symbols on it, each defined once; those of a
\* line that assigns are the symbol before the sign and the commands between the pipes after
\* it, for any line and any limits.
THEOREM LinesMeanTheirWords == Spec => LinesMeanWhatTheySay
<1> DEFINE Step ==
             line' = <<>> /\ line # <<>> /\ state' = "INIT" =>
               /\ Parser!Executes /\ Parser!Cardinality(Parser!Starts(line, {"symbol"})) <= PARSER_MAX_SYMBOLS =>
                    Parser!AreStretches(symbols, line, {"symbol"})
                    /\ \A k \in DOMAIN symbols : Parser!DefinedOnce(symbols[k])
               /\ state = "ASSIGN_CMD"
                  /\ Parser!Cardinality(Parser!Starts(Parser!RightSide(line), Parser!Command))
                       <= PARSER_MAX_COMMANDS =>
                    LET new == Parser!Last(assign_exprs') IN
                    /\ Parser!AreStretches(<<new.symbol>>, Parser!LeftSide(line), {"symbol"})
                    /\ Parser!AreStretches(new.commands, Parser!RightSide(line), Parser!Command)
<1>1. Init => ParserInv BY ParserInit DEF Init
<1>2. ParserInv /\ [Next]_vars => [Step]_Parser!vars
  <2> DEFINE words == Cardinality(Parser!Starts(line, {"symbol"}))
             pieces == Cardinality(Parser!Starts(Parser!RightSide(line), Parser!Command))
             Executed ==
               Parser!AreStretches(symbols, line, {"symbol"})
               /\ \A k \in DOMAIN symbols : Parser!DefinedOnce(symbols[k])
             Assigned ==
               /\ Parser!AreStretches(<<Parser!Last(assign_exprs').symbol>>, Parser!LeftSide(line), {"symbol"})
               /\ Parser!AreStretches(Parser!Last(assign_exprs').commands, Parser!RightSide(line),
                                      Parser!Command)
  <2>1. \A T : Parser!Cardinality(T) = Cardinality(T) BY DEF Parser!Cardinality, Cardinality
  <2> SUFFICES ASSUME ParserInv, [Next]_vars, ~UNCHANGED parserVars,
                      line' = <<>>, line # <<>>, state' = "INIT"
               PROVE  /\ Parser!Executes /\ words <= PARSER_MAX_SYMBOLS => Executed
                      /\ state = "ASSIGN_CMD" /\ pieces <= PARSER_MAX_COMMANDS => Assigned
    BY <2>1 DEF parserVars, Parser!vars
  <2>2. ParserTypes BY DEF ParserInv
  <2>3. PICK c \in Parser!Char : Parser!parser_feed(c)
    BY DEF Next, vars, Only, SignalStep, SearchStep, Parser!Next
  <2>4. c = "newline" /\ Parser!EndsLine(c)
    <3>1. line' # Append(line, c)
      <4>1. line \in Seq(Parser!Char) BY <2>2 DEF ParserTypes, Line
      <4>2. Len(Append(line, c)) = Len(line) + 1 /\ Len(line) \in Nat BY <4>1, AppendProperties, LenProperties
      <4>3. Len(<<>>) = 0 OBVIOUS
      <4>4. Append(line, c) # <<>> BY <4>2, <4>3
      <4> QED BY <4>4
    <3>2. c = "newline"
      BY <2>3, <3>1 DEF Parser!parser_feed
    <3> QED BY <2>3, <3>2 DEF Parser!parser_feed, Parser!TakesSymbol, Parser!TakesCommand, Parser!Separates,
                              Parser!Rejects, Parser!Command
  <2>5. ASSUME Parser!Executes, words <= PARSER_MAX_SYMBOLS PROVE Executed
    <3>1. Parser!AreStretches(symbols, line, {"symbol"})
      BY <2>5 DEF ParserInv, SymbolsSoFar, Collected, Parser!Executes, Left
    <3>2. \A k \in DOMAIN symbols : Parser!Defined(symbols[k])
      BY <2>4, <2>5 DEF Parser!EndsLine, Parser!Executes
    <3>3. \A k \in DOMAIN symbols : Parser!DefinedOnce(symbols[k])
      BY <2>2, <3>2, OnceDefined DEF ParserTypes
    <3> QED BY <3>1, <3>3
  <2>6. ASSUME state = "ASSIGN_CMD", pieces <= PARSER_MAX_COMMANDS PROVE Assigned
    <3> DEFINE n == Len(line)
               new == [symbol |-> symbols[1], commands |-> commands]
    <3>1. assign_exprs' = Append(assign_exprs, new) BY <2>4, <2>6 DEF Parser!EndsLine, Parser!Executes
    <3>2. Parser!Last(assign_exprs') = new
      <4>1. assign_exprs \in Seq([symbol : Line, commands : Seq(Line)]) BY <2>2 DEF ParserTypes
      <4> HIDE DEF new
      <4>2. Append(assign_exprs, new)[Len(assign_exprs) + 1] = new
            /\ Len(Append(assign_exprs, new)) = Len(assign_exprs) + 1
        BY <4>1
      <4> QED BY <3>1, <4>2 DEF Parser!Last
    <3>3. PICK eq \in 2 .. n : SignAt(eq) /\ \E from \in eq + 1 .. n : CommandsFrom(eq, from)
      BY <2>6 DEF ParserInv, CommandsSoFar, Right
    <3>4. PICK from \in eq + 1 .. n : CommandsFrom(eq, from) BY <3>3
    <3>5. n \in Nat /\ DOMAIN line = 1 .. n BY <2>2 DEF ParserTypes, Line
    <3>6. Parser!Sign(line) = eq
      <4> DEFINE S == {k \in DOMAIN line : line[k] = "assign"}
      <4>1. S \in SUBSET Nat /\ eq \in S BY <3>3, <3>5 DEF SignAt
      <4>2. \A k \in S : eq <= k BY <3>3, <3>5 DEF SignAt
      <4>3. Parser!Min(S) = eq BY <4>1, <4>2, MinIs
      <4> QED BY <4>3 DEF Parser!Sign
    <3>7. Parser!RightSide(line) = SubSeq(line, from, n)
      <4> DEFINE S == {k \in DOMAIN line : k > Parser!Sign(line) /\ line[k] # "space"}
      <4>1. S \in SUBSET Nat /\ from \in S BY <3>4, <3>5, <3>6 DEF CommandsFrom
      <4>2. \A k \in S : from <= k BY <3>4, <3>5, <3>6 DEF CommandsFrom
      <4>3. Parser!Min(S) = from BY <4>1, <4>2, MinIs
      <4> QED BY <4>3 DEF Parser!RightSide
    <3>8. Parser!AreStretches(commands, Parser!RightSide(line), Parser!Command)
      BY <2>6, <3>4, <3>7 DEF CommandsFrom, Collected
    <3>9. Parser!AreStretches(symbols, Parser!LeftSide(line), {"symbol"})
      BY <3>3, <3>6 DEF SignAt, Parser!LeftSide
    <3>10. symbols = <<symbols[1]>>
      <4>1. symbols \in Seq(Line) /\ Len(symbols) = 1 BY <2>2, <3>3 DEF ParserTypes, SignAt
      <4> QED BY <4>1
    <3>11. <<Parser!Last(assign_exprs').symbol>> = symbols /\ Parser!Last(assign_exprs').commands = commands
      BY <3>2, <3>10
    <3> QED BY <3>8, <3>9, <3>11, Zenon
  <2> QED BY <2>5, <2>6
<1> HIDE DEF Step
<1>3. [][Step]_Parser!vars => LinesMeanWhatTheySay
  BY DEF LinesMeanWhatTheySay, Parser!LinesMeanWhatTheySay, Step
<1> QED BY <1>1, <1>2, <1>3, ParserNext, PTL DEF Spec

-----------------------------------------------------------------------------
(* The forked search.  Each process knows only its parent and its          *)
(* children; that the whole tree below a process is done when it ends, and *)
(* printed but for what was missed, follows from level to level.           *)

Listing(d) == pc_d[d] \in {"list", "wait"}
Over(d) == pc_d[d] \in {"exited", "reaped"}
Gone(d) == pc_d[d] \in {"none", "reaped"}
Read(d) == Entries[d] \ todo[d]

SearchTypes ==
  /\ tty \in BOOLEAN
  /\ pc_d \in [Dirs -> {"none", "list", "wait", "exited", "reaped"}] /\ ~Gone(Top)
  /\ depth \in [Dirs -> 0 .. MaxDepth]
  /\ todo \in [Dirs -> {todo[d] : d \in Dirs}] /\ \A d \in Dirs : todo[d] \subseteq Entries[d]
  /\ err_d \in [Dirs -> BOOLEAN]
  /\ buffer \in [Dirs -> {buffer[d] : d \in Dirs}]

\* a process has a parent, and is as many levels below Top as it lacks of its depth
Family ==
  /\ \A d \in Dirs : pc_d[d] = "none" => todo[d] = Entries[d]
  /\ \A e \in Dirs \ {Top} : pc_d[e] # "none" => \E d \in Dirs : e \in Read(d) /\ pc_d[d] # "none"
  /\ \A d \in Dirs : pc_d[d] # "none" =>
       \E m \in Nat : Search!PathTo(Entries, Top, m, d) /\ m + depth[d] = depth[Top]

\* nobody below a process that is over still runs, and nobody below one that never was
Orderly ==
  \A d, e \in Dirs : \A m \in Nat \ {0} : Search!PathTo(Entries, d, m, e) =>
    /\ ~Listing(d) => Gone(e)
    /\ pc_d[d] = "none" => pc_d[e] = "none"

\* a failure is known to somebody whose parent will ask
Failures ==
  /\ \A d \in Dirs : err_d[d] => faults # {}
  /\ faults # {} => \E d \in Dirs : err_d[d] /\ ~Gone(d)

Printed ==
  /\ \A d \in Dirs : \A f \in DOMAIN out \cup DOMAIN buffer[d] :
       f \in TextFiles /\ \E b \in Dirs : f \in Read(b) /\ pc_d[b] # "none"
  /\ tty => (\A d \in Dirs : DOMAIN buffer[d] = {}) /\ \A f \in DOMAIN out : out[f] = 1

\* as long as no failure is known, all is done that was not missed
Complete ==
  faults = {} => \A d \in Dirs :
    /\ pc_d[d] = "wait" \/ Over(d) => todo[d] = {}
    /\ pc_d[d] # "none" => \A f \in (Read(d) \ missed) \cap TextFiles :
         f \in DOMAIN out \/ (Listing(d) /\ f \in DOMAIN buffer[d])
    /\ pc_d[d] # "none" /\ depth[d] > 0 => \A e \in (Read(d) \ missed) \cap Dirs :
         pc_d[e] # "none" /\ depth[e] = depth[d] - 1
    /\ Over(d) => Search!FilesWithin(Search!Seen, depth[d], d) \subseteq DOMAIN out

SearchInv == SearchTypes /\ Family /\ Orderly /\ Failures /\ Printed /\ Complete

LEMMA PathHere == \A d \in Dirs : Search!PathTo(Entries, d, 0, d)
<1> SUFFICES ASSUME NEW d \in Dirs PROVE Search!PathTo(Entries, d, 0, d) OBVIOUS
<1> DEFINE here == [k \in 0 .. 0 |-> d]
<1>1. here \in [0 .. 0 -> Dirs] /\ here[0] = d /\ \A k \in 1 .. 0 : here[k] \in Entries[here[k - 1]] OBVIOUS
<1> HIDE DEF here
<1> QED BY <1>1 DEF Search!PathTo

\* a path goes on, below its end
LEMMA PathOn ==
  ASSUME NEW a, NEW m \in Nat, NEW d \in Dirs, NEW e \in Dirs, Search!PathTo(Entries, a, m, d), e \in Entries[d]
  PROVE  Search!PathTo(Entries, a, m + 1, e)
<1>1. PICK path \in [0 .. m -> Dirs] :
        path[0] = a /\ path[m] = d /\ \A k \in 1 .. m : path[k] \in Entries[path[k - 1]]
  BY DEF Search!PathTo
<1> DEFINE on == [k \in 0 .. m + 1 |-> IF k <= m THEN path[k] ELSE e]
<1>2. on \in [0 .. m + 1 -> Dirs] BY <1>1
<1>3. on[0] = a /\ on[m + 1] = e BY <1>1
<1>4. ASSUME NEW k \in 1 .. m + 1 PROVE on[k] \in Entries[on[k - 1]]
  <2>1. CASE k <= m BY <1>1, <2>1
  <2>2. CASE k = m + 1 BY <1>1, <2>2
  <2> QED BY <2>1, <2>2
<1> HIDE DEF on
<1> QED BY <1>2, <1>3, <1>4 DEF Search!PathTo

\* and has a first and a last step
LEMMA PathSteps ==
  ASSUME NEW s, NEW a, NEW m \in Nat \ {0}, NEW e \in Dirs, Search!PathTo(s, a, m, e)
  PROVE  /\ \E d \in Dirs : Search!PathTo(s, a, m - 1, d) /\ e \in s[d]
         /\ \E d \in Dirs : d \in s[a] /\ Search!PathTo(s, d, m - 1, e)
<1>1. PICK path \in [0 .. m -> Dirs] :
        path[0] = a /\ path[m] = e /\ \A k \in 1 .. m : path[k] \in s[path[k - 1]]
  BY DEF Search!PathTo
<1>2. \E d \in Dirs : Search!PathTo(s, a, m - 1, d) /\ e \in s[d]
  <2> DEFINE up_to == [k \in 0 .. m - 1 |-> path[k]]
  <2>1. up_to \in [0 .. m - 1 -> Dirs] /\ up_to[0] = a BY <1>1
  <2>2. \A k \in 1 .. m - 1 : up_to[k] \in s[up_to[k - 1]] BY <1>1
  <2>3. up_to[m - 1] = path[m - 1] /\ path[m - 1] \in Dirs /\ e \in s[path[m - 1]] BY <1>1
  <2> HIDE DEF up_to
  <2>4. Search!PathTo(s, a, m - 1, path[m - 1]) BY <2>1, <2>2, <2>3 DEF Search!PathTo
  <2> QED BY <2>3, <2>4
<1>3. \E d \in Dirs : d \in s[a] /\ Search!PathTo(s, d, m - 1, e)
  <2> DEFINE from == [k \in 0 .. m - 1 |-> path[k + 1]]
  <2>0. \A k \in 0 .. m - 1 : k + 1 \in 0 .. m BY <1>1
  <2>1. from \in [0 .. m - 1 -> Dirs] /\ from[0] = path[1] /\ from[m - 1] = e
    <3>1. from \in [0 .. m - 1 -> Dirs] BY <1>1, <2>0
    <3>2. 0 \in 0 .. m - 1 /\ m - 1 \in 0 .. m - 1 OBVIOUS
    <3>3. from[0] = path[0 + 1] /\ from[m - 1] = path[(m - 1) + 1] BY <3>2, Zenon
    <3>4. 0 + 1 = 1 /\ (m - 1) + 1 = m OBVIOUS
    <3> QED BY <1>1, <3>1, <3>3, <3>4
  <2>2. ASSUME NEW k \in 1 .. m - 1 PROVE from[k] \in s[from[k - 1]]
    <3>1. k + 1 \in 1 .. m /\ (k + 1) - 1 = k /\ (k - 1) + 1 = k OBVIOUS
    <3>2. from[k] = path[k + 1] /\ from[k - 1] = path[k] BY <3>1
    <3> QED BY <1>1, <3>1, <3>2
  <2>3. path[1] \in Dirs /\ path[1] \in s[a]
    <3>1. 1 \in 1 .. m /\ 1 \in 0 .. m /\ 1 - 1 = 0 OBVIOUS
    <3> QED BY <1>1, <3>1
  <2> HIDE DEF from
  <2>4. Search!PathTo(s, path[1], m - 1, e) BY <2>1, <2>2 DEF Search!PathTo
  <2> QED BY <2>3, <2>4
<1> QED BY <1>2, <1>3

LEMMA PathEmpty == ASSUME NEW s, NEW a, NEW d, Search!PathTo(s, a, 0, d) PROVE a = d
BY DEF Search!PathTo

\* The files within a depth are those here and those within one level less of a directory here.
LEMMA FilesByLevel ==
  ASSUME NEW s, NEW n \in Nat, NEW a \in Dirs, NEW f \in Search!FilesWithin(s, n, a)
  PROVE  /\ f \in TextFiles
         /\ f \in s[a] \/ (n > 0 /\ \E d \in s[a] \cap Dirs : f \in Search!FilesWithin(s, n - 1, d))
<1>1. PICK e \in Dirs, m \in 0 .. n : Search!PathTo(s, a, m, e) /\ f \in s[e] \cap TextFiles
  BY DEF Search!FilesWithin
<1>2. CASE m = 0 BY <1>1, <1>2, PathEmpty
<1>3. CASE m # 0
  <2>1. PICK d \in Dirs : d \in s[a] /\ Search!PathTo(s, d, m - 1, e) 
    <3>1. m \in Nat \ {0} BY <1>3
    <3> QED BY <1>1, <3>1, PathSteps
  <2>2. m - 1 \in 0 .. n - 1 /\ n > 0 BY <1>3
  <2>3. f \in Search!FilesWithin(s, n - 1, d) BY <1>1, <2>1, <2>2 DEF Search!FilesWithin
  <2> QED BY <1>1, <2>1, <2>2, <2>3
<1> QED BY <1>2, <1>3

\* Fewer entries, fewer files.
LEMMA FilesShrink ==
  ASSUME NEW s, NEW t, \A d \in Dirs : t[d] \subseteq s[d], NEW n, NEW a
  PROVE  Search!FilesWithin(t, n, a) \subseteq Search!FilesWithin(s, n, a)
<1> SUFFICES ASSUME NEW f \in Search!FilesWithin(t, n, a) PROVE f \in Search!FilesWithin(s, n, a)
  OBVIOUS
<1>1. PICK e \in Dirs, m \in 0 .. n : Search!PathTo(t, a, m, e) /\ f \in t[e] \cap TextFiles
  BY DEF Search!FilesWithin
<1>2. Search!PathTo(s, a, m, e)
  <2>1. PICK path \in [0 .. m -> Dirs] :
          path[0] = a /\ path[m] = e /\ \A k \in 1 .. m : path[k] \in t[path[k - 1]]
    BY <1>1 DEF Search!PathTo
  <2>2. ASSUME NEW k \in 1 .. m PROVE path[k] \in s[path[k - 1]]
    <3>1. k - 1 \in 0 .. m OBVIOUS
    <3>2. path[k - 1] \in Dirs BY <3>1
    <3> QED BY <2>1, <3>2
  <2> QED BY <2>1, <2>2 DEF Search!PathTo
<1> QED BY <1>1, <1>2 DEF Search!FilesWithin

LEMMA OneParent ==
  /\ \A d, e \in Dirs : \A x : x \in Entries[d] /\ x \in Entries[e] => d = e
  /\ \A d \in Dirs : Top \notin Entries[d]
  /\ Top \in Dirs /\ MaxDepth \in Nat /\ TextFiles \cap Dirs = {}
BY ProgramsAssumption

\* What is still to be listed has not been started.
LEMMA NotStarted ==
  ASSUME SearchInv, NEW d \in Dirs, NEW e \in Dirs, e \in todo[d]
  PROVE  e # Top /\ pc_d[e] = "none"
<1>1. e \in Entries[d] BY DEF SearchInv, SearchTypes
<1>2. e # Top BY <1>1, OneParent
<1>3. ASSUME pc_d[e] # "none" PROVE FALSE
  <2>1. PICK b \in Dirs : e \in Read(b) BY <1>2, <1>3 DEF SearchInv, Family
  <2>2. b = d BY <1>1, <2>1, OneParent DEF Read
  <2> QED BY <2>1, <2>2 DEF Read
<1> QED BY <1>2, <1>3

LEMMA SearchInit == Search!Init => SearchInv
<1> SUFFICES ASSUME Search!Init PROVE SearchInv OBVIOUS
<1>1. /\ \A d \in Dirs : pc_d[d] = (IF d = Top THEN "list" ELSE "none") /\ todo[d] = Entries[d]
      /\ \A d \in Dirs : ~err_d[d] /\ buffer[d] = Search!EmptyBag /\ depth[d] \in 0 .. MaxDepth
      /\ faults = {} /\ out = Search!EmptyBag /\ tty \in BOOLEAN
  BY DEF Search!Init
<1>2. DOMAIN Search!EmptyBag = {} BY DEF Search!EmptyBag, Search!SetToBag
<1>3. SearchTypes
  <2>1. pc_d[Top] = "list" BY <1>1, OneParent
  <2> QED BY <1>1, <2>1 DEF SearchTypes, Search!Init, Gone
<1>4. Family
  <2>1. Search!PathTo(Entries, Top, 0, Top) /\ 0 + depth[Top] = depth[Top] BY <1>1, PathHere, OneParent
  <2> QED BY <1>1, <2>1 DEF Family
<1>5. Orderly
  <2> SUFFICES ASSUME NEW d \in Dirs, NEW e \in Dirs, NEW m \in Nat \ {0}, Search!PathTo(Entries, d, m, e)
               PROVE  pc_d[e] = "none"
    BY DEF Orderly, Gone
  <2>1. PICK b \in Dirs : e \in Entries[b] BY PathSteps
  <2>2. e # Top BY <2>1, OneParent
  <2> QED BY <1>1, <2>2
<1>6. Failures BY <1>1 DEF Failures
<1>7. Printed BY <1>1, <1>2 DEF Printed
<1>8. Complete BY <1>1 DEF Complete, Over, Read
<1> QED BY <1>3, <1>4, <1>5, <1>6, <1>7, <1>8 DEF SearchInv

LEMMA SameSeen == UNCHANGED missed => Search!Seen' = Search!Seen
BY DEF Search!Seen

LEMMA SearchForksStep ==
  ASSUME SearchInv, NEW d \in Dirs, NEW e \in todo[d], pc_d[d] = "list",
         todo' = [todo EXCEPT ![d] = @ \ {e}], UNCHANGED tty, Search!Forks(d, e)
  PROVE  SearchInv'
<1>1. /\ e \in Dirs /\ depth[d] > 0 /\ pc_d' = [pc_d EXCEPT ![e] = "list"]
      /\ depth' = [depth EXCEPT ![e] = depth[d] - 1] /\ buffer' = [buffer EXCEPT ![e] = buffer[d]]
      /\ UNCHANGED <<err_d, out, faults, missed>>
  BY DEF Search!Forks, Search!IsDir, Search!LevelOf
<1>2. e # Top /\ pc_d[e] = "none" /\ e # d BY <1>1, NotStarted
<1>3. e \in Entries[d] /\ depth[d] \in 0 .. MaxDepth /\ SearchTypes BY DEF SearchInv, SearchTypes
<1>4. /\ \A x \in Dirs : x # e => pc_d'[x] = pc_d[x] /\ depth'[x] = depth[x] /\ buffer'[x] = buffer[x]
      /\ \A x \in Dirs : x # d => todo'[x] = todo[x]
      /\ pc_d'[e] = "list" /\ depth'[e] = depth[d] - 1 /\ buffer'[e] = buffer[d]
      /\ todo'[d] = todo[d] \ {e}
  BY <1>1, <1>3 DEF SearchTypes
<1>5. \A x \in Dirs : Read(x)' = IF x = d THEN Read(d) \cup {e} ELSE Read(x)
  BY <1>3, <1>4 DEF Read
<1>6. SearchTypes'
  <2>1. depth[d] - 1 \in 0 .. MaxDepth BY <1>1, <1>3, OneParent
  <2>2. depth' \in [Dirs -> 0 .. MaxDepth] BY <1>1, <1>3, <2>1 DEF SearchTypes
  <2>3. todo' \in [Dirs -> {todo'[x] : x \in Dirs}] /\ buffer' \in [Dirs -> {buffer'[x] : x \in Dirs}]
    BY <1>1, <1>3 DEF SearchTypes
  <2>4. pc_d' \in [Dirs -> {"none", "list", "wait", "exited", "reaped"}] BY <1>1, <1>3 DEF SearchTypes
  <2> QED BY <1>1, <1>2, <1>3, <1>4, <2>2, <2>3, <2>4, OneParent DEF SearchTypes, Gone
<1>7. Family'
  <2>1. ASSUME NEW x \in Dirs, pc_d'[x] = "none" PROVE todo'[x] = Entries[x]
    BY <1>2, <1>4, <2>1 DEF SearchInv, Family
  <2>2. ASSUME NEW x \in Dirs \ {Top}, pc_d'[x] # "none"
        PROVE  \E b \in Dirs : x \in Read(b)' /\ pc_d'[b] # "none"
    <3>1. CASE x = e BY <1>2, <1>4, <1>5, <3>1
    <3>2. CASE x # e
      <4>1. PICK b \in Dirs : x \in Read(b) /\ pc_d[b] # "none" BY <1>4, <2>2, <3>2 DEF SearchInv, Family
      <4> QED BY <1>2, <1>4, <1>5, <4>1
    <3> QED BY <3>1, <3>2
  <2>3. ASSUME NEW x \in Dirs, pc_d'[x] # "none"
        PROVE  \E m \in Nat : Search!PathTo(Entries, Top, m, x) /\ m + depth'[x] = depth'[Top]
    <3>1. CASE x = e
      <4>1. PICK m \in Nat : Search!PathTo(Entries, Top, m, d) /\ m + depth[d] = depth[Top]
        BY DEF SearchInv, Family
      <4>2. Search!PathTo(Entries, Top, m + 1, e) BY <1>1, <1>3, <4>1, PathOn
      <4>3. depth[Top] \in 0 .. MaxDepth /\ depth'[Top] = depth[Top] /\ depth'[e] = depth[d] - 1
        BY <1>2, <1>3, <1>4, OneParent DEF SearchTypes
      <4>4. m + 1 \in Nat /\ (m + 1) + depth'[e] = depth'[Top] BY <1>3, <4>1, <4>3
      <4> QED BY <3>1, <4>2, <4>4
    <3>2. CASE x # e BY <1>2, <1>4, <2>3, <3>2, OneParent DEF SearchInv, Family
    <3> QED BY <3>1, <3>2
  <2> QED BY <2>1, <2>2, <2>3 DEF Family, Search!PathTo
<1>8. Orderly'
  <2> SUFFICES ASSUME NEW x \in Dirs, NEW y \in Dirs, NEW m \in Nat \ {0}, Search!PathTo(Entries, x, m, y)
               PROVE  (~Listing(x)' => Gone(y)') /\ (pc_d'[x] = "none" => pc_d'[y] = "none")
    BY DEF Orderly, Search!PathTo
  <2>1. ASSUME ~Listing(x)' PROVE x # e /\ ~Listing(x) BY <1>4, <2>1 DEF Listing
  <2>2. ASSUME ~Listing(x) PROVE y # e
    <3> SUFFICES ASSUME y = e PROVE FALSE OBVIOUS
    <3>1. PICK b \in Dirs : Search!PathTo(Entries, x, m - 1, b) /\ e \in Entries[b] BY PathSteps
    <3>2. b = d BY <1>3, <3>1, OneParent
    <3>3. m - 1 # 0 BY <2>2, <3>1, <3>2, PathEmpty DEF Listing
    <3>4. Gone(d) BY <2>2, <3>1, <3>2, <3>3 DEF SearchInv, Orderly
    <3> QED BY <3>4 DEF Gone
  <2>3. ~Listing(x)' => Gone(y)' BY <1>4, <2>1, <2>2 DEF SearchInv, Orderly, Gone
  <2>4. pc_d'[x] = "none" => pc_d'[y] = "none"
    BY <1>4, <2>1, <2>2 DEF SearchInv, Orderly, Listing
  <2> QED BY <2>3, <2>4
<1>9. Failures' BY <1>1, <1>2, <1>4 DEF SearchInv, Failures, Gone
<1>10. Printed'
  <2>1. \A x \in Dirs : \E y \in Dirs : DOMAIN buffer'[x] = DOMAIN buffer[y] BY <1>1, <1>4
  <2>2. \A b \in Dirs : Read(b) \subseteq Read(b)' /\ (pc_d[b] # "none" => pc_d'[b] # "none")
    BY <1>4, <1>5
  <2> QED BY <1>1, <2>1, <2>2 DEF SearchInv, Printed
<1>11. Complete'
  <2> SUFFICES ASSUME faults = {}, NEW x \in Dirs
               PROVE  /\ pc_d'[x] = "wait" \/ Over(x)' => todo'[x] = {}
                      /\ pc_d'[x] # "none" => \A f \in (Read(x)' \ missed) \cap TextFiles :
                           f \in DOMAIN out \/ (Listing(x)' /\ f \in DOMAIN buffer'[x])
                      /\ pc_d'[x] # "none" /\ depth'[x] > 0 => \A y \in (Read(x)' \ missed) \cap Dirs :
                           pc_d'[y] # "none" /\ depth'[y] = depth'[x] - 1
                      /\ Over(x)' => Search!FilesWithin(Search!Seen, depth'[x], x) \subseteq DOMAIN out
    BY <1>1, SameSeen DEF Complete, Search!FilesWithin, Search!PathTo
  <2> USE DEF SearchInv, Complete, Over, Listing
  <2>1. CASE x = e
    <3>1. Read(e)' = {} BY <1>1, <1>2, <1>5 DEF Family, Read
    <3> QED BY <1>4, <2>1, <3>1
  <2>2. CASE x = d
    <3>1. e \notin TextFiles BY <1>1, OneParent
    <3>2. \A y \in (Read(d) \ missed) \cap Dirs : pc_d[y] # "none" /\ depth[y] = depth[d] - 1
      BY <1>1
    <3>3. \A y \in (Read(d)' \ missed) \cap Dirs : pc_d'[y] # "none" /\ depth'[y] = depth'[d] - 1
      BY <1>2, <1>4, <1>5, <3>2
    <3> QED BY <1>2, <1>4, <1>5, <2>2, <3>1, <3>3
  <2>3. CASE x # e /\ x # d
    <3>1. Read(x)' = Read(x) /\ todo'[x] = todo[x] BY <1>4, <1>5, <2>3
    <3>2. pc_d[x] # "none" /\ depth[x] > 0 => \A y \in (Read(x) \ missed) \cap Dirs :
            y # e /\ pc_d[y] # "none" /\ depth[y] = depth[x] - 1
      BY <1>2
    <3> QED BY <1>4, <2>3, <3>1, <3>2
  <2> QED BY <2>1, <2>2, <2>3
<1> QED BY <1>6, <1>7, <1>8, <1>9, <1>10, <1>11 DEF SearchInv

\* The tree stays as it is where no process starts and none ends.
LEMMA TreeKept ==
  ASSUME SearchInv, UNCHANGED depth,
         \A d \in Dirs : /\ pc_d'[d] = "none" <=> pc_d[d] = "none"
                         /\ todo'[d] \subseteq todo[d] /\ (todo'[d] # todo[d] => pc_d[d] # "none")
  PROVE  Family' /\ \A d \in Dirs : Read(d) \subseteq Read(d)'
<1>1. \A d \in Dirs : Read(d) \subseteq Read(d)' BY DEF Read
<1>2. \A d \in Dirs : pc_d'[d] = "none" => todo'[d] = Entries[d] BY DEF SearchInv, Family
<1>3. ASSUME NEW e \in Dirs \ {Top}, pc_d'[e] # "none"
      PROVE  \E d \in Dirs : e \in Read(d)' /\ pc_d'[d] # "none"
  BY <1>1, <1>3 DEF SearchInv, Family
<1>4. \A d \in Dirs : pc_d'[d] # "none" =>
        \E m \in Nat : Search!PathTo(Entries, Top, m, d) /\ m + depth'[d] = depth'[Top]
  BY DEF SearchInv, Family
<1> QED BY <1>1, <1>2, <1>3, <1>4 DEF Family, Search!PathTo

LEMMA OrderKept ==
  ASSUME SearchInv,
         \A d \in Dirs : /\ pc_d'[d] = "none" <=> pc_d[d] = "none"
                         /\ Gone(d) => Gone(d)'
                         /\ Listing(d) => \/ Listing(d)'
                                          \/ \A e \in Entries[d] \cap Dirs : Gone(e)
  PROVE  Orderly'
<1> SUFFICES ASSUME NEW d \in Dirs, NEW e \in Dirs, NEW m \in Nat \ {0}, Search!PathTo(Entries, d, m, e)
             PROVE  (~Listing(d)' => Gone(e)') /\ (pc_d'[d] = "none" => pc_d'[e] = "none")
  BY DEF Orderly, Search!PathTo
<1>1. pc_d'[d] = "none" => pc_d'[e] = "none" BY DEF SearchInv, Orderly
<1>2. CASE ~Listing(d) \/ Listing(d)' BY <1>2 DEF SearchInv, Orderly
<1>3. CASE Listing(d) /\ ~Listing(d)'
  <2>1. PICK b \in Dirs : b \in Entries[d] /\ Search!PathTo(Entries, b, m - 1, e) BY PathSteps
  <2>2. Gone(b) BY <1>3, <2>1
  <2>3. CASE m = 1
    <3>1. m - 1 = 0 BY <2>3
    <3>2. b = e BY ONLY <2>1, <3>1, PathEmpty
    <3> QED BY <1>1, <2>2, <3>2
  <2>4. CASE m # 1
    <3>1. m - 1 \in Nat \ {0} /\ ~Listing(b) BY <2>2, <2>4 DEF Gone, Listing
    <3> QED BY <2>1, <3>1 DEF SearchInv, Orderly
  <2> QED BY <2>3, <2>4
<1> QED BY <1>1, <1>2, <1>3

\* What a process does not print it may print later.
LinesOf(e) == IF e \in TextFiles THEN {e} ELSE {}

LEMMA PrintsStep ==
  ASSUME SearchInv, NEW d \in Dirs, NEW e \in todo[d], pc_d[d] = "list",
         todo' = [todo EXCEPT ![d] = @ \ {e}], UNCHANGED tty, Search!Prints(d, e),
         \A x \in Dirs : pc_d[x] # "none" => pc_d'[x] # "none"
  PROVE  /\ buffer' \in [Dirs -> {buffer'[x] : x \in Dirs}]
         /\ DOMAIN out \subseteq DOMAIN out'
         /\ \A x \in Dirs : DOMAIN buffer[x] \subseteq DOMAIN buffer'[x]
         /\ LinesOf(e) \subseteq DOMAIN out' \cup DOMAIN buffer'[d]
         /\ Printed'
<1> DEFINE lines == LinesOf(e)
<1>2. e \in Entries[d] /\ SearchTypes BY DEF SearchInv, SearchTypes
<1>3. /\ \A x \in Dirs : Read(x) \subseteq Read(x)'
      /\ e \in Read(d)'
  BY <1>2 DEF SearchTypes, Read
<1>4. ASSUME tty
      PROVE  UNCHANGED buffer /\ DOMAIN out' = DOMAIN out \cup lines /\ \A f \in DOMAIN out' : out'[f] = 1
  <2>1. /\ UNCHANGED buffer /\ DOMAIN out' = DOMAIN out \cup lines
        /\ \A f \in DOMAIN out' :
             out'[f] = (IF f \in DOMAIN out THEN out[f] ELSE 0) + (IF f \in lines THEN 1 ELSE 0)
    BY <1>4 DEF Search!Prints, Search!(+), Search!SetToBag, Search!EmptyBag, LinesOf
  <2>2. e \notin DOMAIN out
    <3> SUFFICES ASSUME e \in DOMAIN out PROVE FALSE OBVIOUS
    <3>1. PICK b \in Dirs : e \in Read(b) BY OneParent DEF SearchInv, Printed
    <3>2. b = d BY <1>2, <3>1, OneParent DEF Read
    <3> QED BY <3>1, <3>2 DEF Read
  <2>3. ASSUME NEW f \in DOMAIN out' PROVE out'[f] = 1
    <3>1. CASE f \in DOMAIN out
      <4>1. out[f] = 1 /\ f \notin lines BY <1>4, <2>2, <3>1 DEF SearchInv, Printed, LinesOf
      <4> QED BY <2>1, <3>1, <4>1
    <3>2. CASE f \notin DOMAIN out BY <2>1, <3>2
    <3> QED BY <3>1, <3>2
  <2> QED BY <2>1, <2>3
<1>5. ASSUME ~tty
      PROVE  /\ out' = out /\ DOMAIN buffer'[d] = DOMAIN buffer[d] \cup lines
             /\ \A x \in Dirs : x # d => buffer'[x] = buffer[x]
  BY <1>2, <1>5 DEF Search!Prints, Search!(+), Search!SetToBag, Search!EmptyBag, SearchTypes, LinesOf
<1>6. buffer' \in [Dirs -> {buffer'[x] : x \in Dirs}]
  BY <1>2 DEF SearchTypes, Search!Prints
<1>9. /\ DOMAIN out \subseteq DOMAIN out' /\ DOMAIN out' \subseteq DOMAIN out \cup lines
      /\ \A x \in Dirs : DOMAIN buffer[x] \subseteq DOMAIN buffer'[x]
      /\ \A x \in Dirs : x # d => DOMAIN buffer'[x] = DOMAIN buffer[x]
      /\ DOMAIN buffer'[d] \subseteq DOMAIN buffer[d] \cup lines
      /\ lines \subseteq DOMAIN out' \cup DOMAIN buffer'[d]
  BY <1>4, <1>5
<1>10. Printed'
  <2>1. ASSUME NEW x \in Dirs, NEW f \in DOMAIN out' \cup DOMAIN buffer'[x]
        PROVE  f \in TextFiles /\ \E b \in Dirs : f \in Read(b)' /\ pc_d'[b] # "none"
    <3>1. CASE f \in lines
      <4>1. f \in TextFiles /\ f = e BY <3>1 DEF LinesOf
      <4>2. pc_d'[d] # "none" OBVIOUS
      <4> QED BY <1>3, <4>1, <4>2
    <3>2. CASE f \in DOMAIN out \cup DOMAIN buffer[x]
      <4>1. f \in TextFiles /\ \E b \in Dirs : f \in Read(b) /\ pc_d[b] # "none"
        BY <3>2 DEF SearchInv, Printed
      <4> QED BY <1>3, <4>1
    <3> QED BY <1>9, <3>1, <3>2
  <2>2. tty' => (\A x \in Dirs : DOMAIN buffer'[x] = {}) /\ \A f \in DOMAIN out' : out'[f] = 1
    BY <1>4 DEF SearchInv, Printed
  <2> QED BY <2>1, <2>2 DEF Printed
<1> QED BY <1>6, <1>9, <1>10

LEMMA SearchesStep ==
  ASSUME SearchInv, NEW d \in Dirs, NEW e \in todo[d], pc_d[d] = "list",
         todo' = [todo EXCEPT ![d] = @ \ {e}], UNCHANGED tty, Search!Searches(d, e)
  PROVE  SearchInv'
<1>1. /\ UNCHANGED <<pc_d, depth, err_d, faults, missed>> /\ (e \notin Dirs \/ depth[d] = 0)
      /\ Search!Prints(d, e)
  BY DEF Search!Searches, Search!IsDir, Search!LevelOf
<1>2. e \in Entries[d] /\ SearchTypes BY DEF SearchInv, SearchTypes
<1>3. /\ todo'[d] = todo[d] \ {e} /\ \A x \in Dirs : x # d => todo'[x] = todo[x]
      /\ Read(d)' = Read(d) \cup {e} /\ \A x \in Dirs : x # d => Read(x)' = Read(x)
  BY <1>2 DEF SearchTypes, Read
<1>4. /\ buffer' \in [Dirs -> {buffer'[x] : x \in Dirs}]
      /\ DOMAIN out \subseteq DOMAIN out'
      /\ \A x \in Dirs : DOMAIN buffer[x] \subseteq DOMAIN buffer'[x]
      /\ LinesOf(e) \subseteq DOMAIN out' \cup DOMAIN buffer'[d]
      /\ Printed'
  BY <1>1, PrintsStep
<1>6. SearchTypes'
  <2>1. todo' \in [Dirs -> {todo'[x] : x \in Dirs}] BY <1>2 DEF SearchTypes
  <2> QED BY <1>1, <1>2, <1>3, <1>4, <2>1 DEF SearchTypes, Gone
<1>7. Family' /\ Orderly'
  <2>1. Family' BY <1>1, <1>3, TreeKept
  <2> QED BY <1>1, <2>1, OrderKept DEF Gone, Listing
<1>8. Failures' BY <1>1 DEF SearchInv, Failures, Gone
<1>11. Complete'
  <2> SUFFICES ASSUME faults = {}, NEW x \in Dirs
               PROVE  /\ pc_d[x] = "wait" \/ Over(x) => todo'[x] = {}
                      /\ pc_d[x] # "none" => \A f \in (Read(x)' \ missed) \cap TextFiles :
                           f \in DOMAIN out' \/ (Listing(x) /\ f \in DOMAIN buffer'[x])
                      /\ pc_d[x] # "none" /\ depth[x] > 0 => \A y \in (Read(x)' \ missed) \cap Dirs :
                           pc_d[y] # "none" /\ depth[y] = depth[x] - 1
                      /\ Over(x) => Search!FilesWithin(Search!Seen, depth[x], x) \subseteq DOMAIN out'
    BY <1>1, SameSeen DEF Complete, Search!FilesWithin, Search!PathTo, Over, Listing
  <2> USE DEF SearchInv, Complete, Over, Listing
  <2>1. CASE x = d
    <3>1. \A f \in (Read(d)' \ missed) \cap TextFiles : f \in DOMAIN out' \cup DOMAIN buffer'[d]
      BY <1>3, <1>4 DEF LinesOf
    <3>2. depth[d] > 0 => Read(d)' \cap Dirs = Read(d) \cap Dirs
      <4>1. ~(0 > 0) OBVIOUS
      <4> QED BY ONLY <1>1, <1>3, <4>1
    <3> QED BY <1>3, <2>1, <3>1, <3>2
  <2>2. CASE x # d BY <1>3, <1>4, <2>2
  <2> QED BY <2>1, <2>2
<1> QED BY <1>4, <1>6, <1>7, <1>8, <1>11 DEF SearchInv

\* More that is missed leaves less to print.
LEMMA FewerFiles ==
  ASSUME missed \subseteq missed', NEW n, NEW a
  PROVE  Search!FilesWithin(Search!Seen', n, a) \subseteq Search!FilesWithin(Search!Seen, n, a)
<1> DEFINE s == Search!Seen
           t == [d \in Dirs |-> Entries[d] \ missed']
<1>1. Search!Seen' = t BY DEF Search!Seen
<1>2. \A d \in Dirs : t[d] \subseteq s[d] BY DEF Search!Seen
<1> HIDE DEF s, t
<1>3. Search!FilesWithin(t, n, a) \subseteq Search!FilesWithin(s, n, a) BY <1>2, FilesShrink
<1> QED BY <1>1, <1>3 DEF s

\* What is missed was read, but need not be done.
LEMMA MissedStep ==
  ASSUME SearchInv, NEW d \in Dirs, NEW gone \in SUBSET todo[d], pc_d[d] = "list",
         todo' = [todo EXCEPT ![d] = @ \ gone], missed' = missed \cup gone,
         UNCHANGED <<tty, depth, err_d, buffer, out, faults>>,
         UNCHANGED pc_d \/ (pc_d' = [pc_d EXCEPT ![d] = "wait"] /\ todo'[d] = {})
  PROVE  SearchInv'
<1>1. SearchTypes BY DEF SearchInv
<1>2. /\ todo'[d] = todo[d] \ gone /\ \A x \in Dirs : x # d => todo'[x] = todo[x]
      /\ \A x \in Dirs : todo'[x] \subseteq todo[x]
      /\ \A x \in Dirs : Read(x)' \ missed' \subseteq Read(x) \ missed
      /\ \A x \in Dirs : Read(x) \subseteq Read(x)'
  BY <1>1 DEF SearchTypes, Read
<1>3. \A x \in Dirs : /\ pc_d'[x] = "none" <=> pc_d[x] = "none"
                      /\ (Gone(x) => Gone(x)') /\ (Listing(x)' <=> Listing(x))
                      /\ (Over(x)' <=> Over(x)) /\ (~Gone(x) => ~Gone(x)')
                      /\ pc_d'[x] = "wait" => pc_d[x] = "wait" \/ (x = d /\ todo'[d] = {})
  BY <1>1 DEF SearchTypes, Gone, Listing, Over
<1>4. SearchTypes'
  <2>1. todo' \in [Dirs -> {todo'[x] : x \in Dirs}] /\ \A x \in Dirs : todo'[x] \subseteq Entries[x]
    BY <1>1, <1>2 DEF SearchTypes
  <2>2. pc_d' \in [Dirs -> {"none", "list", "wait", "exited", "reaped"}] BY <1>1 DEF SearchTypes
  <2>3. ~Gone(Top)' BY <1>1, <1>3, OneParent DEF SearchTypes
  <2>4. tty' = tty /\ depth' = depth /\ err_d' = err_d /\ buffer' = buffer OBVIOUS
  <2> QED BY <1>1, <2>1, <2>2, <2>3, <2>4, Zenon DEF SearchTypes
<1>5. Family' BY <1>2, <1>3, TreeKept
<1>6. Orderly' BY <1>3, OrderKept
<1>7. Failures' BY <1>3 DEF SearchInv, Failures
<1>8. Printed'
  <2>1. ASSUME NEW x \in Dirs, NEW f \in DOMAIN out' \cup DOMAIN buffer'[x]
        PROVE  f \in TextFiles /\ \E b \in Dirs : f \in Read(b)' /\ pc_d'[b] # "none"
    <3>1. f \in TextFiles /\ \E b \in Dirs : f \in Read(b) /\ pc_d[b] # "none"
      BY <2>1 DEF SearchInv, Printed
    <3> QED BY <1>2, <1>3, <3>1
  <2>2. tty' => (\A x \in Dirs : DOMAIN buffer'[x] = {}) /\ \A f \in DOMAIN out' : out'[f] = 1
    BY DEF SearchInv, Printed
  <2> QED BY <2>1, <2>2 DEF Printed
<1>9. Complete'
  <2> SUFFICES ASSUME faults = {}, NEW x \in Dirs
               PROVE  /\ pc_d'[x] = "wait" \/ Over(x)' => todo'[x] = {}
                      /\ pc_d'[x] # "none" => \A f \in (Read(x)' \ missed') \cap TextFiles :
                           f \in DOMAIN out \/ (Listing(x)' /\ f \in DOMAIN buffer[x])
                      /\ pc_d'[x] # "none" /\ depth[x] > 0 =>
                           \A y \in (Read(x)' \ missed') \cap Dirs :
                             pc_d'[y] # "none" /\ depth[y] = depth[x] - 1
                      /\ Over(x)' => Search!FilesWithin(Search!Seen', depth[x], x) \subseteq DOMAIN out
    BY DEF Complete, Search!FilesWithin, Search!PathTo
  <2>1. pc_d'[x] = "wait" \/ Over(x)' => todo'[x] = {} BY <1>2, <1>3 DEF SearchInv, Complete
  <2>2. ASSUME pc_d'[x] # "none", NEW f \in (Read(x)' \ missed') \cap TextFiles
        PROVE  f \in DOMAIN out \/ (Listing(x)' /\ f \in DOMAIN buffer[x])
    <3>1. f \in (Read(x) \ missed) \cap TextFiles BY <1>2, <2>2
    <3> QED BY <1>3, <2>2, <3>1 DEF SearchInv, Complete
  <2>3. ASSUME pc_d'[x] # "none" /\ depth[x] > 0, NEW y \in (Read(x)' \ missed') \cap Dirs
        PROVE  pc_d'[y] # "none" /\ depth[y] = depth[x] - 1
    <3>1. y \in (Read(x) \ missed) \cap Dirs BY <1>2, <2>3
    <3> QED BY <1>3, <2>3, <3>1 DEF SearchInv, Complete
  <2>4. Over(x)' => Search!FilesWithin(Search!Seen', depth[x], x) \subseteq DOMAIN out
    <3>1. Over(x)' => Search!FilesWithin(Search!Seen, depth[x], x) \subseteq DOMAIN out
      BY <1>3 DEF SearchInv, Complete
    <3>2. Search!FilesWithin(Search!Seen', depth[x], x)
            \subseteq Search!FilesWithin(Search!Seen, depth[x], x)
      BY FewerFiles
    <3> QED BY <3>1, <3>2
  <2> QED BY <2>1, <2>2, <2>3, <2>4
<1> QED BY <1>4, <1>5, <1>6, <1>7, <1>8, <1>9 DEF SearchInv

LEMMA StopsStep ==
  ASSUME SearchInv, NEW d \in Dirs, NEW e \in todo[d], pc_d[d] = "list",
         todo' = [todo EXCEPT ![d] = @ \ {e}], UNCHANGED tty, Search!Stops(d, e)
  PROVE  SearchInv'
<1>1. /\ pc_d' = [pc_d EXCEPT ![d] = "wait"] /\ err_d' = [err_d EXCEPT ![d] = TRUE]
      /\ faults' = faults \cup {d} /\ UNCHANGED depth
      /\ Search!Prints(d, e) \/ UNCHANGED <<buffer, out>>
  BY DEF Search!Stops
<1>2. SearchTypes BY DEF SearchInv
<1>3. /\ pc_d'[d] = "wait" /\ \A x \in Dirs : x # d => pc_d'[x] = pc_d[x]
      /\ err_d'[d] /\ \A x \in Dirs : x # d => todo'[x] = todo[x]
      /\ todo'[d] \subseteq todo[d]
  BY <1>1, <1>2 DEF SearchTypes
<1>5. Family' /\ \A x \in Dirs : Read(x) \subseteq Read(x)'
  <2>1. \A x \in Dirs : pc_d'[x] = "none" <=> pc_d[x] = "none" BY <1>3
  <2> QED BY <1>1, <1>3, <2>1, TreeKept
<1>8. buffer' \in [Dirs -> {buffer'[x] : x \in Dirs}] /\ Printed'
  <2>1. CASE Search!Prints(d, e) BY <1>3, <2>1, PrintsStep
  <2>2. CASE UNCHANGED <<buffer, out>>
    <3>1. Printed' BY <1>1, <1>3, <1>5, <2>2 DEF SearchInv, Printed
    <3> QED BY <1>2, <2>2, <3>1 DEF SearchTypes
  <2> QED BY <1>1, <2>1, <2>2
<1>4. SearchTypes'
  <2>1. todo' \in [Dirs -> {todo'[x] : x \in Dirs}] /\ \A x \in Dirs : todo'[x] \subseteq Entries[x]
    BY <1>2, <1>3 DEF SearchTypes
  <2>2. pc_d' \in [Dirs -> {"none", "list", "wait", "exited", "reaped"}] /\ ~Gone(Top)'
    BY <1>1, <1>2, <1>3 DEF SearchTypes, Gone
  <2>3. err_d' \in [Dirs -> BOOLEAN] BY <1>1, <1>2, Zenon DEF SearchTypes
  <2>4. tty' = tty /\ depth' = depth BY <1>1
  <2> QED BY <1>2, <1>8, <2>1, <2>2, <2>3, <2>4, Zenon DEF SearchTypes
<1>6. Orderly'
  <2>1. \A x \in Dirs : /\ pc_d'[x] = "none" <=> pc_d[x] = "none"
                        /\ (Gone(x) => Gone(x)') /\ (Listing(x) => Listing(x)')
    BY <1>3 DEF Gone, Listing
  <2> QED BY <2>1, OrderKept
<1>7. Failures' BY <1>1, <1>3 DEF Failures, Gone
<1>9. Complete' BY <1>1 DEF Complete
<1> QED BY <1>4, <1>5, <1>6, <1>7, <1>8, <1>9 DEF SearchInv

LEMMA ListsStep == ASSUME SearchInv, NEW d \in Dirs, Search!Lists(d) PROVE SearchInv'
<1>1. pc_d[d] = "list" /\ UNCHANGED tty BY DEF Search!Lists
<1>2. ASSUME NEW e \in todo[d], todo' = [todo EXCEPT ![d] = @ \ {e}], Search!Skips(d, e)
      PROVE  SearchInv'
  <2>1. {e} \in SUBSET todo[d] OBVIOUS
  <2>2. missed' = missed \cup {e} /\ UNCHANGED <<pc_d, depth, err_d, buffer, out, faults>>
    BY <1>2 DEF Search!Skips
  <2> QED BY <1>1, <1>2, <2>1, <2>2, MissedStep
<1>3. ASSUME NEW e \in todo[d], todo' = [todo EXCEPT ![d] = @ \ {e}],
             Search!Forks(d, e) \/ Search!Searches(d, e) \/ Search!Stops(d, e)
      PROVE  SearchInv'
  BY <1>1, <1>3, SearchForksStep, SearchesStep, StopsStep
<1>4. ASSUME Search!EndsList(d) PROVE SearchInv'
  <2>1. /\ todo' = [todo EXCEPT ![d] = {}] /\ missed' = missed \cup todo[d]
        /\ pc_d' = [pc_d EXCEPT ![d] = "wait"] /\ UNCHANGED <<depth, err_d, buffer, out, faults>>
    BY <1>4 DEF Search!EndsList
  <2>2. todo' = [todo EXCEPT ![d] = @ \ todo[d]] /\ todo'[d] = {}
    BY <2>1 DEF SearchInv, SearchTypes
  <2>3. todo[d] \in SUBSET todo[d] OBVIOUS
  <2> QED BY <1>1, <2>1, <2>2, <2>3, MissedStep
<1> QED BY <1>2, <1>3, <1>4 DEF Search!Lists

\* A process that ends prints what is in its buffer.
Flushed(d) ==
  [f \in DOMAIN out \cup DOMAIN buffer[d] |->
     (IF f \in DOMAIN out THEN out[f] ELSE 0) + (IF f \in DOMAIN buffer[d] THEN buffer[d][f] ELSE 0)]

LEMMA PrintedKept ==
  ASSUME SearchInv, NEW d \in Dirs, UNCHANGED <<tty, buffer>>, out' = Flushed(d),
         \A x \in Dirs : (pc_d[x] # "none" => pc_d'[x] # "none") /\ todo'[x] = todo[x]
  PROVE  Printed'
<1>1. ASSUME NEW x \in Dirs, NEW f \in DOMAIN out' \cup DOMAIN buffer'[x]
      PROVE  f \in TextFiles /\ \E b \in Dirs : f \in Read(b)' /\ pc_d'[b] # "none"
  <2>1. \E y \in Dirs : f \in DOMAIN out \cup DOMAIN buffer[y] BY <1>1 DEF Flushed
  <2>2. f \in TextFiles /\ \E b \in Dirs : f \in Read(b) /\ pc_d[b] # "none"
    BY <2>1 DEF SearchInv, Printed
  <2> QED BY <2>2 DEF Read
<1>2. ASSUME tty PROVE (\A x \in Dirs : DOMAIN buffer'[x] = {}) /\ \A f \in DOMAIN out' : out'[f] = 1
  <2>1. \A x \in Dirs : DOMAIN buffer[x] = {} BY <1>2 DEF SearchInv, Printed
  <2>2. \A f \in DOMAIN out : out[f] = 1 BY <1>2 DEF SearchInv, Printed
  <2>3. DOMAIN out' = DOMAIN out BY <2>1 DEF Flushed
  <2>4. \A f \in DOMAIN out : out'[f] = out[f] + 0 BY <2>1 DEF Flushed
  <2>5. 1 + 0 = 1 OBVIOUS
  <2> QED BY <2>1, <2>2, <2>3, <2>4, <2>5
<1> QED BY <1>1, <1>2 DEF Printed

LEMMA OpenFailsStep == ASSUME SearchInv, NEW d \in Dirs, Search!OpenFails(d) PROVE SearchInv'
<1>1. /\ d # Top /\ pc_d[d] = "list" /\ todo[d] = Entries[d]
      /\ pc_d' = [pc_d EXCEPT ![d] = "exited"] /\ err_d' = [err_d EXCEPT ![d] = TRUE]
      /\ faults' = faults \cup {d} /\ UNCHANGED <<tty, depth, todo, buffer>>
  BY DEF Search!OpenFails
<1>2. out' = Flushed(d) BY DEF Search!OpenFails, Search!(+), Flushed
<1>3. SearchTypes BY DEF SearchInv
<1>4. /\ pc_d'[d] = "exited" /\ err_d'[d] /\ \A x \in Dirs : x # d => pc_d'[x] = pc_d[x]
  BY <1>1, <1>3 DEF SearchTypes
<1>5. \A x \in Dirs : pc_d'[x] = "none" <=> pc_d[x] = "none" BY <1>1, <1>4
<1>6. SearchTypes' BY <1>1, <1>3, <1>4 DEF SearchTypes, Gone
<1>7. Family' BY <1>1, <1>5, TreeKept
<1>8. Orderly'
  <2>1. \A e \in Entries[d] \cap Dirs : Gone(e) BY <1>1, NotStarted DEF Gone
  <2>2. \A x \in Dirs : x # d => (Gone(x) => Gone(x)') /\ (Listing(x) => Listing(x)')
    BY <1>4 DEF Gone, Listing
  <2>3. ~Gone(d) BY <1>1 DEF Gone
  <2> QED BY <1>5, <2>1, <2>2, <2>3, OrderKept
<1>9. Failures' BY <1>1, <1>4 DEF Failures, Gone
<1>10. Complete' BY <1>1 DEF Complete
<1>11. Printed' BY <1>1, <1>2, <1>5, PrintedKept
<1> QED BY <1>6, <1>7, <1>8, <1>9, <1>10, <1>11 DEF SearchInv

LEMMA ReapsStep ==
  ASSUME SearchInv, NEW d \in Dirs, NEW e \in Search!Children(d), pc_d[d] = "wait", pc_d[e] = "exited",
         pc_d' = [pc_d EXCEPT ![e] = "reaped"], err_d' = [err_d EXCEPT ![d] = @ \/ err_d[e]],
         UNCHANGED <<tty, depth, todo, buffer, out, faults, missed>>
  PROVE  SearchInv'
<1>1. e \in Dirs /\ e \in Entries[d] /\ e # d /\ e # Top BY OneParent DEF Search!Children
<1>2. SearchTypes BY DEF SearchInv
<1>3. /\ pc_d'[e] = "reaped" /\ \A x \in Dirs : x # e => pc_d'[x] = pc_d[x]
      /\ (err_d'[d] <=> err_d[d] \/ err_d[e]) /\ \A x \in Dirs : x # d => err_d'[x] = err_d[x]
  BY <1>1, <1>2 DEF SearchTypes
<1>4. \A x \in Dirs : /\ pc_d'[x] = "none" <=> pc_d[x] = "none"
                      /\ (Gone(x) => Gone(x)') /\ (Listing(x)' <=> Listing(x))
                      /\ (Over(x)' <=> Over(x)) /\ (pc_d'[x] = "wait" <=> pc_d[x] = "wait")
  BY <1>1, <1>3 DEF Gone, Listing, Over
<1>5. SearchTypes'
  <2>1. err_d' \in [Dirs -> BOOLEAN] BY <1>1, <1>2, Zenon DEF SearchTypes
  <2>2. pc_d' \in [Dirs -> {"none", "list", "wait", "exited", "reaped"}] BY <1>1, <1>2 DEF SearchTypes
  <2>3. ~Gone(Top)' BY <1>1, <1>2, <1>3, OneParent DEF SearchTypes, Gone
  <2>4. tty' = tty /\ depth' = depth /\ todo' = todo /\ buffer' = buffer OBVIOUS
  <2> QED BY <1>2, <2>1, <2>2, <2>3, <2>4, Zenon DEF SearchTypes
<1>6. Family' BY <1>4, TreeKept
<1>7. Orderly' BY <1>4, OrderKept
<1>8. Failures'
  <2>1. ~Gone(d)' BY <1>1, <1>3 DEF Gone
  <2>2. \A x \in Dirs : x # e /\ ~Gone(x) => ~Gone(x)' BY <1>3 DEF Gone
  <2>3. \A x \in Dirs : err_d[x] /\ ~Gone(x) =>
          (err_d'[x] /\ ~Gone(x)') \/ (err_d'[d] /\ ~Gone(d)')
    BY <1>3, <2>1, <2>2
  <2>4. faults' = faults OBVIOUS
  <2>5. Failures BY DEF SearchInv
  <2>6. \A x \in Dirs : err_d'[x] => faults # {} BY <1>1, <1>3, <2>5, Zenon DEF Failures
  <2> QED BY <2>3, <2>4, <2>5, <2>6, Zenon DEF Failures
<1>9. Printed' BY <1>4 DEF SearchInv, Printed, Read
<1>10. Complete'
  BY <1>4, SameSeen DEF SearchInv, Complete, Read, Search!FilesWithin, Search!PathTo
<1> QED BY <1>5, <1>6, <1>7, <1>8, <1>9, <1>10 DEF SearchInv

\* With its children gone a process that met no failure has printed all below it.
LEMMA ExitsStep ==
  ASSUME SearchInv, NEW d \in Dirs, Search!Children(d) = {}, pc_d[d] = "wait",
         pc_d' = [pc_d EXCEPT ![d] = "exited"], out' = Flushed(d),
         UNCHANGED <<tty, depth, todo, err_d, buffer, faults, missed>>
  PROVE  SearchInv'
<1>1. SearchTypes BY DEF SearchInv
<1>2. pc_d'[d] = "exited" /\ \A x \in Dirs : x # d => pc_d'[x] = pc_d[x] BY <1>1 DEF SearchTypes
<1>3. \A x \in Dirs : pc_d'[x] = "none" <=> pc_d[x] = "none" BY <1>2
<1>4. \A e \in Entries[d] \cap Dirs : Gone(e) BY DEF Search!Children, Gone
<1>5. SearchTypes' BY <1>1, <1>2 DEF SearchTypes, Gone
<1>6. Family' BY <1>3, TreeKept
<1>7. Orderly'
  <2>1. \A x \in Dirs : x # d => (Gone(x) => Gone(x)') /\ (Listing(x) => Listing(x)')
    BY <1>2 DEF Gone, Listing
  <2>2. ~Gone(d) BY DEF Gone
  <2> QED BY <1>3, <1>4, <2>1, <2>2, OrderKept
<1>8. Failures' BY <1>2 DEF SearchInv, Failures, Gone
<1>9. Printed' BY <1>3, PrintedKept
<1>10. DOMAIN out' = DOMAIN out \cup DOMAIN buffer[d] BY DEF Flushed
<1>11. Complete'
  <2> SUFFICES ASSUME faults = {}, NEW x \in Dirs
               PROVE  /\ pc_d'[x] = "wait" \/ Over(x)' => todo[x] = {}
                      /\ pc_d'[x] # "none" => \A f \in (Read(x) \ missed) \cap TextFiles :
                           f \in DOMAIN out' \/ (Listing(x)' /\ f \in DOMAIN buffer[x])
                      /\ pc_d'[x] # "none" /\ depth[x] > 0 => \A y \in (Read(x) \ missed) \cap Dirs :
                           pc_d'[y] # "none" /\ depth[y] = depth[x] - 1
                      /\ Over(x)' => Search!FilesWithin(Search!Seen, depth[x], x) \subseteq DOMAIN out'
    BY SameSeen DEF Complete, Read, Search!FilesWithin, Search!PathTo
  <2>1. CASE x # d BY <1>2, <1>3, <1>10, <2>1 DEF SearchInv, Complete, Over, Listing
  <2>2. CASE x = d
    <3>1. todo[d] = {} BY DEF SearchInv, Complete
    <3>2. \A f \in (Read(d) \ missed) \cap TextFiles : f \in DOMAIN out'
      BY <1>10 DEF SearchInv, Complete
    <3>3. depth[d] > 0 =>
            \A y \in (Read(d) \ missed) \cap Dirs : pc_d[y] # "none" /\ depth[y] = depth[d] - 1
      BY DEF SearchInv, Complete
    <3> DEFINE seen == Search!Seen
    <3>5. seen[d] = Read(d) \ missed BY <3>1 DEF Search!Seen, Read
    <3>6. \A e \in Dirs : Over(e) => Search!FilesWithin(seen, depth[e], e) \subseteq DOMAIN out
      BY DEF SearchInv, Complete
    <3>7. \A e \in seen[d] : e \in Entries[d] BY DEF Search!Seen
    <3> HIDE DEF seen
    <3>4. ASSUME NEW f \in Search!FilesWithin(seen, depth[d], d) PROVE f \in DOMAIN out'
      <4>1. depth[d] \in Nat BY <1>1, OneParent DEF SearchTypes
      <4>2. CASE f \in seen[d]
        <5>1. f \in TextFiles BY <3>4, <4>1, FilesByLevel
        <5> QED BY <3>2, <3>5, <4>2, <5>1
      <4>3. CASE depth[d] > 0 /\ \E e \in seen[d] \cap Dirs : f \in Search!FilesWithin(seen, depth[d] - 1, e)
        <5>1. PICK e \in seen[d] \cap Dirs : f \in Search!FilesWithin(seen, depth[d] - 1, e) BY <4>3
        <5>2. e \in Entries[d] /\ pc_d[e] # "none" /\ depth[e] = depth[d] - 1
          BY <3>3, <3>5, <3>7, <4>3, <5>1
        <5>3. Over(e) BY <1>4, <5>1, <5>2 DEF Gone, Over
        <5>4. f \in DOMAIN out BY <3>6, <5>1, <5>2, <5>3
        <5> QED BY <1>10, <5>4
      <4> QED BY <3>4, <4>1, <4>2, <4>3, FilesByLevel
    <3> QED BY <1>2, <1>3, <2>2, <3>1, <3>2, <3>3, <3>4 DEF seen
  <2> QED BY <2>1, <2>2
<1> QED BY <1>5, <1>6, <1>7, <1>8, <1>9, <1>11 DEF SearchInv

LEMMA SearchWaitsStep == ASSUME SearchInv, NEW d \in Dirs, Search!Waits(d) PROVE SearchInv'
<1>1. /\ pc_d[d] = "wait" /\ UNCHANGED <<tty, depth, todo, buffer, faults, missed>>
      /\ out' = IF pc_d'[d] = "exited" THEN Flushed(d) ELSE out
  BY DEF Search!Waits, Search!(+), Flushed
<1>2. SearchTypes BY DEF SearchInv
<1>3. ASSUME NEW e \in Search!Children(d), pc_d[e] = "exited", pc_d' = [pc_d EXCEPT ![e] = "reaped"],
             err_d' = [err_d EXCEPT ![d] = @ \/ err_d[e]]
      PROVE  SearchInv'
  <2>1. e \in Dirs /\ e # d BY <1>1, <1>3 DEF Search!Children
  <2>2. pc_d'[d] = "wait" BY <1>1, <1>2, <1>3, <2>1 DEF SearchTypes
  <2> QED BY <1>1, <1>3, <2>2, ReapsStep
<1>4. ASSUME Search!Children(d) = {}, pc_d' = [pc_d EXCEPT ![d] = "exited"], UNCHANGED err_d
      PROVE  SearchInv'
  <2>1. pc_d'[d] = "exited" BY <1>2, <1>4 DEF SearchTypes
  <2> QED BY <1>1, <1>4, <2>1, ExitsStep
<1> QED BY <1>3, <1>4 DEF Search!Waits

LEMMA SearchNext == SearchInv /\ [Next]_vars => SearchInv'
<1> SUFFICES ASSUME SearchInv, [Next]_vars PROVE SearchInv' OBVIOUS
<1>1. CASE UNCHANGED searchVars
  <2>1. UNCHANGED <<tty, pc_d, depth, todo, err_d, buffer, out, faults, missed>> BY <1>1 DEF searchVars
  <2>2. SearchTypes' BY <2>1, Zenon DEF SearchInv, SearchTypes, Gone
  <2>3. Family' BY <2>1 DEF SearchInv, Family, Read, Search!PathTo
  <2>4. Orderly' BY <2>1 DEF SearchInv, Orderly, Gone, Listing, Search!PathTo
  <2>5. Failures' /\ Printed' BY <2>1 DEF SearchInv, Failures, Printed, Read, Gone
  <2>6. Complete'
    BY <2>1, SameSeen DEF SearchInv, Complete, Read, Over, Listing, Search!FilesWithin, Search!PathTo
  <2> QED BY <2>2, <2>3, <2>4, <2>5, <2>6 DEF SearchInv
<1>2. ASSUME NEW d \in Dirs, Search!Step(d) PROVE SearchInv'
  BY <1>2, ListsStep, OpenFailsStep, SearchWaitsStep DEF Search!Step
<1>3. UNCHANGED searchVars \/ \E d \in Dirs : Search!Step(d)
  BY DEF Next, vars, Only, SignalStep, SearchStep
<1> QED BY <1>1, <1>2, <1>3

\* Once the search has ended, nobody prints any more and only matches within the depth are
\* printed, on a terminal once; a failure that any process knows of is told, and if none is,
\* only what was missed is not printed; for any tree and any order in which the processes run.
THEOREM MatchesAreFound == Spec => []EachMatchOnce
<1>1. Init => SearchInv BY SearchInit DEF Init
<1>2. SearchInv => EachMatchOnce
  <2> SUFFICES ASSUME SearchInv, pc_d[Top] = "exited"
               PROVE  /\ \A d \in Dirs \ {Top} : Gone(d)
                      /\ err_d[Top] <=> faults # {}
                      /\ DOMAIN out \subseteq Search!FilesWithin(Entries, depth[Top], Top)
                      /\ ~err_d[Top] => Search!FilesWithin(Search!Seen, depth[Top], Top) \subseteq DOMAIN out
                      /\ tty => \A f \in DOMAIN out : out[f] = 1
    BY DEF EachMatchOnce, Search!EachMatchOnce, Search!Ended, Search!BagToSet, Gone
  <2>1. ASSUME NEW d \in Dirs \ {Top} PROVE Gone(d)
    <3>1. CASE pc_d[d] = "none" BY <3>1 DEF Gone
    <3>2. CASE pc_d[d] # "none"
      <4>1. PICK m \in Nat : Search!PathTo(Entries, Top, m, d) BY <3>2 DEF SearchInv, Family
      <4>2. m # 0 BY <4>1, PathEmpty
      <4>3. ~Listing(Top) BY DEF Listing
      <4> QED BY <4>1, <4>2, <4>3, OneParent DEF SearchInv, Orderly
    <3> QED BY <3>1, <3>2
  <2>2. err_d[Top] <=> faults # {} BY <2>1, OneParent DEF SearchInv, Failures
  <2>3. ASSUME faults = {} PROVE Search!FilesWithin(Search!Seen, depth[Top], Top) \subseteq DOMAIN out
    BY <2>3, OneParent DEF SearchInv, Complete, Over
  <2>4. ASSUME NEW f \in DOMAIN out PROVE f \in Search!FilesWithin(Entries, depth[Top], Top)
    <3>1. PICK b \in Dirs : f \in TextFiles /\ f \in Read(b) /\ pc_d[b] # "none"
      BY <2>4, OneParent DEF SearchInv, Printed
    <3>2. PICK m \in Nat : Search!PathTo(Entries, Top, m, b) /\ m + depth[b] = depth[Top]
      BY <3>1 DEF SearchInv, Family
    <3>3. depth[b] \in Nat BY OneParent DEF SearchInv, SearchTypes
    <3>4. m \in 0 .. depth[Top] BY <3>2, <3>3
    <3> QED BY <3>1, <3>2, <3>4 DEF Search!FilesWithin, Read
  <2>5. tty => \A f \in DOMAIN out : out[f] = 1 BY DEF SearchInv, Printed
  <2> QED BY <2>1, <2>2, <2>3, <2>4, <2>5
<1> QED BY <1>1, <1>2, SearchNext, PTL DEF Spec
=============================================================================
