---------------------------- MODULE SatelliteProofs ----------------------------
(***************************************************************************)
(* Theorems about the parts of MCSatellite: the Dead Man's Switch, for      *)
(* every TTL and every use of TransitionSessionState when Start is called   *)
(* at most once, and the agent bridges, for any number of deployments,      *)
(* lines of output and callers of Stop.  And about RingBuffer, which a      *)
(* satellite keeps for each session, for every capacity and every search    *)
(* limit: the buffer keeps its shape, loses nothing before it is full, and  *)
(* a buffer read from a binary snapshot has the contents of the original.   *)
(***************************************************************************)
EXTENDS MCSatellite, RingBuffer, SequenceTheorems, WellFoundedInduction, TLAPS

MonitorPCs == {"off", "select", "check", "holdsMu", "suspend", "onSuspend", "resume", "onResume", "gone"}

(* SuspendedIsStopped made inductive: while the flag is up the process is   *)
(* stopped or the monitor is about to stop it, the flag is down when the    *)
(* monitor decides and when it resumes, and a switch that was not started   *)
(* has no monitor.                                                          *)
FlagInv ==
  /\ mon \in [{1} -> MonitorPCs] /\ starts \in Nat
  /\ starts = 0 => mon[1] = "off"
  /\ suspended => mon[1] \notin {"holdsMu", "resume"}
  /\ suspended /\ mon[1] # "suspend" => signalled = "stopped"

(* The monitor's steps: the flag goes up before the signal that stops the   *)
(* process and down before the one that resumes it.                         *)
LEMMA MonitorKeepsFlag ==
  ASSUME FlagInv, Switch!MonitorStep(1)
  PROVE  FlagInv'
<1> USE DEF FlagInv, MonitorPCs, Switch!At
<1>1. CASE Switch!SelectDone(1)
  BY <1>1 DEF Switch!SelectDone
<1>2. CASE Switch!SelectTick(1)
  BY <1>2 DEF Switch!SelectTick
<1>3. CASE Switch!SelectSuspend(1)
  BY <1>3 DEF Switch!SelectSuspend
<1>4. CASE Switch!SelectResume(1)
  BY <1>4 DEF Switch!SelectResume
<1>5. CASE Switch!CheckState(1)
  BY <1>5 DEF Switch!CheckState
<1>6. CASE Switch!DecideSuspend(1)
  BY <1>6, Zenon DEF Switch!DecideSuspend
<1>7. CASE Switch!SuspendProcess(1)
  BY <1>7 DEF Switch!SuspendProcess
<1>8. CASE Switch!OnSuspend(1)
  BY <1>8 DEF Switch!OnSuspend
<1>9. CASE Switch!ResumeProcess(1)
  BY <1>9 DEF Switch!ResumeProcess
<1>10. CASE Switch!OnResume(1)
  BY <1>10 DEF Switch!OnResume
<1> QED
  BY <1>1, <1>2, <1>3, <1>4, <1>5, <1>6, <1>7, <1>8, <1>9, <1>10 DEF Switch!MonitorStep

(* The daemon's steps leave the flag and the process alone; a transition    *)
(* to DETACHED starts the monitor.                                          *)
LEMMA DaemonKeepsFlag ==
  ASSUME FlagInv, [Switch!Next]_(Switch!vars), ~ Switch!MonitorStep(1)
  PROVE  FlagInv'
<1>1. ASSUME NEW to \in Requests, Switch!TransitionSessionState(to)
      PROVE  FlagInv'
  <2>1. CASE to = "DETACHED"
    <3>1. starts = 0 /\ starts' = 1
      BY <1>1, <2>1 DEF Switch!TransitionSessionState, FlagInv
    <3>2. mon' = [mon EXCEPT ![1] = "select"]
      BY <1>1, <2>1, <3>1 DEF Switch!TransitionSessionState
    <3> QED
      BY <1>1, <3>1, <3>2 DEF Switch!TransitionSessionState, FlagInv, MonitorPCs
  <2>2. CASE to # "DETACHED"
    BY <1>1, <2>2 DEF Switch!TransitionSessionState, FlagInv, MonitorPCs
  <2> QED BY <2>1, <2>2
<1>2. CASE UNCHANGED <<starts, mon, suspended, signalled>>
  BY <1>2 DEF FlagInv, MonitorPCs
<1>3. CASE UNCHANGED Switch!vars
  BY <1>2, <1>3 DEF Switch!vars
<1>4. CASE Switch!Tick \/ Switch!HandleTerminalInput \/ Switch!HandleSuspendCommand \/ Switch!HandleResumeCommand
           \/ Switch!ResumeRecords \/ Switch!UserDetaches \/ Switch!StopReturns \/ Switch!ResumeReturns
  BY <1>2, <1>4
  DEF Switch!Tick, Switch!HandleTerminalInput, Switch!HandleSuspendCommand, Switch!HandleResumeCommand,
      Switch!ResumeRecords, Switch!UserDetaches, Switch!StopReturns, Switch!ResumeReturns
<1>5. Switch!Mons = {1}
  BY DEF Switch!Mons
<1> QED BY <1>1, <1>3, <1>4, <1>5 DEF Switch!Next

(* A raised flag stands for a stopped process whatever signals fail and     *)
(* however activity, commands and transitions interleave (dms.go:215-225),  *)
(* for a switch that is started at most once.                               *)
THEOREM FlagMeansStopped == PartSpec => []SuspendedIsStopped
<1> DEFINE Inv == part = "switch" => FlagInv
<1>1. PartInit => Inv
  BY DEF PartInit, Switch!Init, FlagInv, MonitorPCs, Switch!Mons
<1>2. Inv /\ [PartNext]_allVars => Inv'
  <2>1. [PartNext]_allVars /\ part' = "switch" => part = "switch" /\ [Switch!Next]_(Switch!vars)
    BY Zenon DEF PartNext, SwitchPart, AgentPart, DaemonPart, allVars, switchVars,
           Switch!vars, Switch!chans, Switch!locks
  <2> QED BY <2>1, MonitorKeepsFlag, DaemonKeepsFlag
<1>3. Inv => SuspendedIsStopped
  BY DEF FlagInv, SuspendedIsStopped, Switch!SuspendedIsStopped, Switch!AtRest, Switch!Mons
<1> QED BY <1>1, <1>2, <1>3, PTL DEF PartSpec
-----------------------------------------------------------------------------
(***************************************************************************)
(* The bridges of n deployments.                                           *)
(***************************************************************************)

(* ChannelsSafe made inductive: done is closed when p.closed is set, events *)
(* when the lifecycle goroutine ends, which it does only after the readers; *)
(* the goroutines of a bridge begin with its deployment.                    *)
ClosedTogether(n) ==
  /\ closings \in [1 .. n -> Nat \X Nat]
  /\ closed \in [1 .. n -> BOOLEAN]
  /\ \A b \in 1 .. n : closings[b][1] = IF closed[b] THEN 1 ELSE 0

BridgeInv(n) ==
  /\ used \in 0 .. n
  /\ ClosedTogether(n)
  /\ reader \in [1 .. n -> {"none", "reading", "done"}]
  /\ life \in [1 .. n -> {"none", "waiting", "draining", "closing", "done"}]
  /\ \A b \in 1 .. n :
       /\ closings[b][2] = IF life[b] = "done" THEN 1 ELSE 0
       /\ life[b] \in {"closing", "done"} => reader[b] = "done"
       /\ b > used => life[b] = "none"
(* p.closed and the channel done change together, once. *)
LEMMA DoneClosedOnce ==
  ASSUME NEW n \in Nat, NEW l, NEW t, NEW b \in 1 .. n,
         BridgeInv(n), Bridge(n, l, t)!CloseDone(b)
  PROVE  ClosedTogether(n)' /\ \A a \in 1 .. n : closings'[a][2] = closings[a][2]
<1>1. closings[b] \in Nat \X Nat /\ closings[b][1] = IF closed[b] THEN 1 ELSE 0
  BY DEF BridgeInv, ClosedTogether
<1> DEFINE pair == [closings[b] EXCEPT ![1] = IF closed[b] THEN @ ELSE @ + 1]
<1>2. pair = <<1, closings[b][2]>>
  BY <1>1
<1>3. pair \in Nat \X Nat /\ pair[1] = 1 /\ pair[2] = closings[b][2]
  BY <1>1, <1>2
<1>4. closings' = [closings EXCEPT ![b] = pair] /\ closed' = [closed EXCEPT ![b] = TRUE]
  BY DEF Bridge!CloseDone
<1> HIDE DEF pair
<1> QED BY <1>3, <1>4 DEF BridgeInv, ClosedTogether

(* Stop, by whichever caller, leaves the goroutines of the bridge alone. *)
LEMMA StopKeepsBridges ==
  ASSUME NEW n \in Nat, NEW l, NEW t, NEW b \in 1 .. n, NEW c \in Bridge(n, l, t)!Callers,
         BridgeInv(n), Bridge(n, l, t)!StopStep(b, c)
  PROVE  BridgeInv(n)'
<1>1. CASE Bridge(n, l, t)!Cleanup(b, c)
  <2>1. UNCHANGED <<used, reader, life>> /\ Bridge(n, l, t)!CloseDone(b)
    BY <1>1 DEF Bridge!Cleanup, Bridge!daemonVars
  <2>2. ClosedTogether(n)' /\ \A a \in 1 .. n : closings'[a][2] = closings[a][2]
    BY <2>1, DoneClosedOnce
  <2> QED BY <2>1, <2>2 DEF BridgeInv
<1>2. CASE Bridge(n, l, t)!StopKills(b, c)
  BY <1>2 DEF Bridge!StopKills, Bridge!procVars, Bridge!daemonVars, BridgeInv, ClosedTogether
<1> QED BY <1>1, <1>2 DEF Bridge!StopStep, Bridge!StopSeesDone, Bridge!StopEnds

(* The goroutines of the bridge: its channels are closed in their order.    *)
LEMMA GoroutineKeepsBridges ==
  ASSUME NEW n \in Nat, NEW l, NEW t, NEW b \in 1 .. n,
         BridgeInv(n), Bridge(n, l, t)!Goroutine(b)
  PROVE  BridgeInv(n)'
<1> USE DEF Bridge!bridgeVars, Bridge!procVars, Bridge!daemonVars
<1>1. CASE Bridge(n, l, t)!ReadLine(b)
  BY <1>1 DEF Bridge!ReadLine, BridgeInv, ClosedTogether
<1>2. CASE Bridge(n, l, t)!ReaderEnds(b)
  BY <1>2 DEF Bridge!ReaderEnds, BridgeInv, ClosedTogether
<1>3. CASE Bridge(n, l, t)!WaitReturns(b)
  BY <1>3 DEF Bridge!WaitReturns, BridgeInv, ClosedTogether
<1>4. CASE Bridge(n, l, t)!DrainEnds(b)
  <2>1. /\ Bridge(n, l, t)!CloseDone(b) /\ UNCHANGED <<used, reader>>
        /\ reader[b] = "done" /\ life[b] = "draining" /\ life' = [life EXCEPT ![b] = "closing"]
    BY <1>4 DEF Bridge!DrainEnds, Bridge!Drained
  <2>2. ClosedTogether(n)' /\ \A a \in 1 .. n : closings'[a][2] = closings[a][2]
    BY <2>1, DoneClosedOnce
  <2> QED BY <2>1, <2>2 DEF BridgeInv
<1>5. CASE Bridge(n, l, t)!CloseEvents(b)
  <2>1. closings[b] \in Nat \X Nat /\ closings[b][2] = 0
    BY <1>5 DEF Bridge!CloseEvents, BridgeInv, ClosedTogether
  <2> DEFINE pair == [closings[b] EXCEPT ![2] = @ + 1]
  <2>2. pair = <<closings[b][1], 1>>
    BY <2>1
  <2>3. pair \in Nat \X Nat /\ pair[1] = closings[b][1] /\ pair[2] = 1
    BY <2>1, <2>2
  <2>4. closings' = [closings EXCEPT ![b] = pair]
    BY <1>5 DEF Bridge!CloseEvents
  <2> HIDE DEF pair
  <2>5. ClosedTogether(n)'
    BY <1>5, <2>3, <2>4 DEF Bridge!CloseEvents, BridgeInv, ClosedTogether
  <2>6. \A a \in 1 .. n : closings'[a][2] = IF life'[a] = "done" THEN 1 ELSE 0
    BY <1>5, <2>3, <2>4 DEF Bridge!CloseEvents, BridgeInv, ClosedTogether
  <2> QED BY <1>5, <2>5, <2>6 DEF Bridge!CloseEvents, BridgeInv
<1> QED BY <1>1, <1>2, <1>3, <1>4, <1>5 DEF Bridge!Goroutine

(* One step of the process, the bridges or the daemon. *)
LEMMA BridgeStep ==
  ASSUME NEW n \in Nat, NEW l, NEW t,
         BridgeInv(n), [Bridge(n, l, t)!Next]_(Bridge(n, l, t)!vars)
  PROVE  BridgeInv(n)'
<1> USE DEF Bridge!bridgeVars, Bridge!procVars, Bridge!daemonVars
<1>1. Bridge(n, l, t)!Bridges = 1 .. n
  BY DEF Bridge!Bridges
<1>2. CASE UNCHANGED <<used, closings, closed, reader, life>>
  BY <1>2 DEF BridgeInv, ClosedTogether
<1>3. ASSUME NEW b \in 1 .. n, NEW c \in Bridge(n, l, t)!Callers, Bridge(n, l, t)!StopStep(b, c)
      PROVE  BridgeInv(n)'
  BY <1>3, StopKeepsBridges
<1>4. ASSUME NEW b \in 1 .. n, Bridge(n, l, t)!Goroutine(b)
      PROVE  BridgeInv(n)'
  BY <1>4, GoroutineKeepsBridges
<1>5. ASSUME NEW b \in 1 .. n, \/ Bridge(n, l, t)!ProcessPrints(b) \/ Bridge(n, l, t)!ProcessExits(b)
                               \/ Bridge(n, l, t)!TimerFires(b)
      PROVE  BridgeInv(n)'
  BY <1>2, <1>5 DEF Bridge!ProcessPrints, Bridge!ProcessExits, Bridge!TimerFires
<1>6. ASSUME NEW b \in 1 .. n, Bridge(n, l, t)!Forwarding(b)
      PROVE  BridgeInv(n)'
  BY <1>2, <1>6 DEF Bridge!Forwarding, Bridge!Forward, Bridge!ForwardEnds, Bridge!ForwardStops,
                    Bridge!ForwardStopped, Bridge!ForwardDeletes, Bridge!ForwardReports
<1>7. CASE Bridge(n, l, t)!DeployFails
  BY <1>7 DEF Bridge!DeployFails, BridgeInv, ClosedTogether
<1>8. CASE Bridge(n, l, t)!DeployStarts
  <2>1. used' = used + 1 /\ used + 1 \in 1 .. n /\ life[used + 1] = "none"
    BY <1>8 DEF Bridge!DeployStarts, BridgeInv
  <2>2. ClosedTogether(n)'
    BY <1>8 DEF Bridge!DeployStarts, BridgeInv, ClosedTogether
  <2> QED BY <1>8, <2>1, <2>2 DEF Bridge!DeployStarts, BridgeInv
<1>9. CASE \/ Bridge(n, l, t)!DeployLocks \/ Bridge(n, l, t)!DeployReplaces
           \/ Bridge(n, l, t)!DaemonStops \/ Bridge(n, l, t)!DaemonStopsBridge
  BY <1>2, <1>9 DEF Bridge!DeployLocks, Bridge!DeployReplaces, Bridge!DaemonStops,
                    Bridge!DaemonStopsBridge
<1>10. CASE UNCHANGED Bridge(n, l, t)!vars
  BY <1>2, <1>10 DEF Bridge!vars
<1> QED
  BY <1>1, <1>3, <1>4, <1>5, <1>6, <1>7, <1>8, <1>9, <1>10 DEF Bridge!Next

(* Before the first deployment no bridge has been started. *)
LEMMA BridgeStart ==
  ASSUME NEW n \in Nat, NEW l, NEW t, Bridge(n, l, t)!Init
  PROVE  BridgeInv(n)
<1>1. <<0, 0>> \in Nat \X Nat /\ <<0, 0>>[1] = 0 /\ <<0, 0>>[2] = 0
  OBVIOUS
<1> QED BY <1>1 DEF Bridge!Init, Bridge!Bridges, BridgeInv, ClosedTogether

(* What the invariant says of the channels. *)
LEMMA BridgesSafe ==
  ASSUME NEW n \in Nat, NEW l, NEW t, BridgeInv(n)
  PROVE  Bridge(n, l, t)!ChannelsSafe
<1>1. ASSUME NEW b \in 1 .. n
      PROVE  /\ closings[b][1] \in {0, 1} /\ closings[b][2] \in {0, 1}
             /\ closings[b][2] = 1 => reader[b] = "done"
  BY DEF BridgeInv, ClosedTogether
<1>2. \A i \in {0, 1} : i <= 1 /\ (i > 0 => i = 1)
  OBVIOUS
<1> QED BY <1>1, <1>2, Zenon DEF Bridge!ChannelsSafe, Bridge!Bridges

(* A bridge closes done and events once, and events only when its readers   *)
(* have ended, in a session of any number of deployments that follow one    *)
(* another, with any output and with timeouts: whichever of the lifecycle   *)
(* goroutine and the callers of Stop comes first (pi_bridge.go:540-573,     *)
(* 744-760).                                                                *)
THEOREM BridgesCloseOnce ==
  ASSUME NEW CONSTANT n \in Nat, NEW CONSTANT l, NEW CONSTANT t
  PROVE  Bridge(n, l, t)!Spec => []Bridge(n, l, t)!ChannelsSafe
<1>1. Bridge(n, l, t)!Init => BridgeInv(n)
  BY BridgeStart
<1>2. BridgeInv(n) /\ [Bridge(n, l, t)!Next]_(Bridge(n, l, t)!vars) => BridgeInv(n)'
  BY BridgeStep
<1>3. BridgeInv(n) => Bridge(n, l, t)!ChannelsSafe
  BY BridgesSafe
<1> QED BY <1>1, <1>2, <1>3, PTL DEF Bridge!Spec

(* The same of the two parts that the runs check: one agent with output and *)
(* a timeout, and deployments that replace one another.                     *)
THEOREM ClosedOnce == PartSpec => []ChannelsSafe
<1> DEFINE Inv == /\ part = "agent" => BridgeInv(1)
                  /\ part = "redeploy" => BridgeInv(MaxDeploys)
<1>1. PartInit => Inv
  BY BridgeStart, DeploysAssumption, Zenon DEF PartInit
<1>2. Inv /\ [PartNext]_allVars => Inv'
  <2> SUFFICES ASSUME Inv, [PartNext]_allVars PROVE Inv'
    OBVIOUS
  <2> USE DEF PartNext, SwitchPart, AgentPart, DaemonPart, allVars, agentVars,
              Bridge!vars, Bridge!procVars, Bridge!bridgeVars, Bridge!daemonVars
  <2>1. ASSUME part' = "agent" PROVE BridgeInv(1)'
    <3>1. part = "agent" /\ [Bridge(1, Lines, TRUE)!Next]_(Bridge(1, Lines, TRUE)!vars)
      BY <2>1, Zenon
    <3> QED BY <3>1, BridgeStep, Zenon
  <2>2. ASSUME part' = "redeploy" PROVE BridgeInv(MaxDeploys)'
    <3>1. part = "redeploy" /\ [Bridge(MaxDeploys, 0, FALSE)!Next]_(Bridge(MaxDeploys, 0, FALSE)!vars)
      BY <2>2, Zenon
    <3> QED BY <3>1, BridgeStep, DeploysAssumption, Zenon
  <2> QED BY <2>1, <2>2
<1>3. Inv => ChannelsSafe
  BY BridgesSafe, DeploysAssumption, Zenon DEF ChannelsSafe
<1> QED BY <1>1, <1>2, <1>3, PTL DEF PartSpec
-----------------------------------------------------------------------------
(***************************************************************************)
(* The ring buffer.                                                        *)
(***************************************************************************)

(* The remainder in the index arithmetic of the buffer is a position. *)
LEMMA ModRange == ASSUME NEW n \in Nat \ {0}, NEW a \in Int PROVE a % n \in 0 .. n - 1
  OBVIOUS

(* Positions that do not pass the end are left alone by the remainder. *)
LEMMA ModSmall == ASSUME NEW n \in Nat \ {0}, NEW a \in 0 .. n - 1 PROVE a % n = a
  OBVIOUS

(* Positions that pass the end once continue at the start. *)
LEMMA ModWrap == ASSUME NEW n \in Nat \ {0}, NEW a \in n .. 2 * n - 1 PROVE a % n = a - n
  OBVIOUS

(* Going back from a position, around the start of the array. *)
LEMMA BackWraps ==
  ASSUME NEW c \in Nat \ {0}, NEW h \in 0 .. c - 1, NEW l \in 0 .. c
  PROVE  /\ (h - l + c) % c \in 0 .. c - 1
         /\ (h - l + c) % c = IF h >= l THEN h - l ELSE h - l + c
<1>1. CASE h >= l
  <2>1. h - l + c \in c .. 2 * c - 1
    BY <1>1
  <2>2. (h - l + c) % c = (h - l + c) - c
    BY <2>1, ModWrap
  <2> QED BY <1>1, <2>2
<1>2. CASE h < l
  <2>1. h - l + c \in 0 .. c - 1
    BY <1>2
  <2>2. (h - l + c) % c = h - l + c
    BY <2>1, ModSmall
  <2> QED BY <1>2, <2>1, <2>2
<1> QED BY <1>1, <1>2

(* A piece of the array is a sequence. *)
LEMMA PieceIsSeq ==
  ASSUME NEW S, NEW c \in Nat, NEW d \in [0 .. c - 1 -> S],
         NEW s \in Nat, NEW n \in Nat, s + n <= c
  PROVE  /\ [i \in 1 .. n |-> d[s + i - 1]] \in Seq(S)
         /\ Len([i \in 1 .. n |-> d[s + i - 1]]) = n
<1> DEFINE p == [i \in 1 .. n |-> d[s + i - 1]]
<1>1. \A i \in 1 .. n : s + i - 1 \in 0 .. c - 1
  OBVIOUS
<1>2. p \in [1 .. n -> S]
  BY <1>1
<1>3. DOMAIN p = 1 .. n
  OBVIOUS
<1> HIDE DEF p
<1>4. p \in Seq(S)
  BY <1>2, SeqDef
<1>5. Len(p) = n
  BY <1>3, <1>4, LenProperties
<1> QED BY <1>4, <1>5 DEF p

At(c, s, i) == IF s + i - 1 < c THEN s + i - 1 ELSE s + i - 1 - c

(* A snapshot of two pieces is as long as both. *)
LEMMA ConcatLen ==
  ASSUME NEW S, NEW A \in Seq(S), NEW B \in Seq(S)
  PROVE  A \o B \in Seq(S) /\ Len(A \o B) = Len(A) + Len(B)
BY ConcatProperties

(* A snapshot of two pieces reads from the first, then from the second. *)
LEMMA ConcatAt ==
  ASSUME NEW S, NEW A \in Seq(S), NEW B \in Seq(S), NEW i \in 1 .. Len(A) + Len(B)
  PROVE  (A \o B)[i] = IF i <= Len(A) THEN A[i] ELSE B[i - Len(A)]
BY ConcatProperties

(* The fields of a ring buffer and their ranges. *)
LEMMA RingFields ==
  ASSUME NEW r \in Rings
  PROVE  /\ r.length \in 0 .. Capacity /\ r.head \in 0 .. Capacity - 1 /\ r.capacity = Capacity
         /\ r.data \in [0 .. Capacity - 1 -> Bytes] /\ Capacity \in Nat \ {0}
         /\ r = [data |-> r.data, head |-> r.head, length |-> r.length, capacity |-> r.capacity]
BY CapacityAssumption DEF Rings

(* A snapshot has the buffer's length and reads it from the oldest byte    *)
(* on, around the end of the array.                                        *)
LEMMA SnapshotReads ==
  ASSUME NEW r \in Rings
  PROVE  /\ Oldest(r) \in 0 .. Capacity - 1
         /\ Oldest(r) = IF r.head >= r.length THEN r.head - r.length ELSE r.head - r.length + Capacity
         /\ Snapshot(r) \in Seq(Bytes)
         /\ Len(Snapshot(r)) = r.length
         /\ \A i \in 1 .. r.length : Snapshot(r)[i] = r.data[At(Capacity, Oldest(r), i)]
<1> DEFINE c == Capacity
           l == r.length
           h == r.head
           d == r.data
           start == Oldest(r)
<1>1. l \in 0 .. c /\ h \in 0 .. c - 1 /\ d \in [0 .. c - 1 -> Bytes] /\ c \in Nat \ {0}
  BY RingFields
<1>2. start = (h - l + c) % c
  BY RingFields DEF Oldest
<1>3. Snapshot(r) = IF l = 0 THEN <<>>
                    ELSE IF start + l <= c
                    THEN [i \in 1 .. l |-> d[start + i - 1]]
                    ELSE [i \in 1 .. c - start |-> d[start + i - 1]] \o [i \in 1 .. h |-> d[0 + i - 1]]
  BY RingFields, Zenon DEF Snapshot, Piece
<1>4. start \in 0 .. c - 1 /\ start = IF h >= l THEN h - l ELSE h - l + c
  <2> HIDE DEF c, l, h, d, start
  <2> QED BY <1>1, <1>2, BackWraps, Zenon
<1> DEFINE P(q) == /\ q \in Seq(Bytes)
                   /\ Len(q) = l
                   /\ \A i \in 1 .. l : q[i] = d[At(c, start, i)]
<1>5. P(Snapshot(r))
  <2> DEFINE shot == Snapshot(r)
  <2> HIDE DEF c, l, h, d, start, shot
  <2>1. CASE l = 0
    <3>1. shot = <<>>
      BY <1>3, <2>1 DEF shot
    <3> QED BY <1>1, <2>1, <3>1 DEF shot
  <2>2. CASE l # 0 /\ start + l <= c
    <3>1. shot = [i \in 1 .. l |-> d[start + i - 1]]
      BY <1>3, <2>2 DEF shot
    <3>2. l \in Nat /\ start \in Nat
      BY <1>1, <1>4
    <3>3. shot \in Seq(Bytes) /\ Len(shot) = l
      BY <1>1, <2>2, <3>1, <3>2, PieceIsSeq
    <3>4. \A i \in 1 .. l : shot[i] = d[At(c, start, i)]
      BY <1>1, <1>4, <2>2, <3>1 DEF At
    <3> QED BY <3>3, <3>4 DEF shot
  <2>3. CASE l # 0 /\ start + l > c
    <3>1. h \in Nat /\ h = start + l - c /\ l \in 1 .. c /\ start + l > c
      BY <1>1, <1>4, <2>3
    <3>2. ~(start + l <= c)
      BY <1>1, <1>4, <2>3
    <3> DEFINE A == [i \in 1 .. c - start |-> d[start + i - 1]]
               B == [i \in 1 .. h |-> d[0 + i - 1]]
    <3>3. shot = A \o B
      BY <1>3, <2>3, <3>2, Zenon DEF shot
    <3>4. A \in Seq(Bytes) /\ Len(A) = c - start /\ \A i \in 1 .. c - start : A[i] = d[start + i - 1]
      <4>1. start \in Nat /\ c - start \in Nat /\ start + (c - start) <= c
        BY <1>1, <1>4
      <4> QED BY <1>1, <4>1, PieceIsSeq
    <3>5. B \in Seq(Bytes) /\ Len(B) = h /\ \A i \in 1 .. h : B[i] = d[0 + i - 1]
      <4>1. 0 \in Nat /\ h \in Nat /\ 0 + h <= c
        BY <1>1
      <4> QED BY <1>1, <4>1, PieceIsSeq
    <3> HIDE DEF A, B
    <3>6. A \o B \in Seq(Bytes) /\ Len(A \o B) = l
      <4>1. A \o B \in Seq(Bytes) /\ Len(A \o B) = Len(A) + Len(B)
        BY <3>4, <3>5, ConcatLen, Zenon
      <4>2. Len(A) = c - start /\ Len(B) = h
        BY <3>4, <3>5, Zenon
      <4>3. Len(A) + Len(B) = l
        BY <1>1, <1>4, <3>1, <4>2
      <4> QED BY <4>1, <4>3, Zenon
    <3>7. ASSUME NEW i \in 1 .. l
          PROVE  (A \o B)[i] = d[At(c, start, i)]
      <4>1. A \in Seq(Bytes) /\ B \in Seq(Bytes) /\ Len(A) = c - start /\ Len(B) = h
        BY <3>4, <3>5, Zenon
      <4>2. i \in 1 .. Len(A) + Len(B)
        BY <1>1, <1>4, <3>1, <4>1
      <4>3. (A \o B)[i] = IF i <= Len(A) THEN A[i] ELSE B[i - Len(A)]
        BY <4>1, <4>2, ConcatAt, Zenon
      <4>4. CASE i <= c - start
        <5>1. (A \o B)[i] = A[i] /\ i \in 1 .. c - start
          BY <1>1, <1>4, <4>1, <4>3, <4>4
        <5>2. A[i] = d[start + i - 1]
          BY <3>4, <5>1, Zenon
        <5>3. At(c, start, i) = start + i - 1
          BY <1>1, <1>4, <4>4 DEF At
        <5> QED BY <5>1, <5>2, <5>3, Zenon
      <4>5. CASE i > c - start
        <5> DEFINE k == i - (c - start)
        <5>1. (A \o B)[i] = B[k] /\ k \in 1 .. h
          BY <1>1, <1>4, <3>1, <4>1, <4>3, <4>5
        <5>2. B[k] = d[0 + k - 1]
          <6> HIDE DEF k
          <6> QED BY <3>5, <5>1, Zenon
        <5>3. At(c, start, i) = 0 + k - 1
          BY <1>1, <1>4, <4>5 DEF At
        <5> QED BY <5>1, <5>2, <5>3, Zenon
      <4>6. i <= c - start \/ i > c - start
        BY <1>1, <1>4
      <4> QED BY <4>4, <4>5, <4>6, Zenon
    <3>8. P(shot)
      BY <3>3, <3>6, <3>7
    <3> QED BY <3>8 DEF shot
  <2> QED BY <1>1, <1>4, <2>1, <2>2, <2>3
<1> QED BY <1>4, <1>5

(* A set of natural numbers that is not empty has a smallest one. *)
LEMMA Smallest ==
  ASSUME NEW T, T \subseteq Nat, T # {}
  PROVE  \E x \in T : \A y \in T : x <= y
<1> DEFINE R == OpToRel(<, Nat)
<1>1. IsWellFoundedOn(R, Nat)
  BY NatLessThanWellFounded, Zenon
<1>2. PICK x \in T : \A y \in T : <<y, x>> \notin R
  <2> HIDE DEF R
  <2> QED BY <1>1, WFMin, Zenon
<1>3. \A y \in T : ~(y < x)
  BY <1>2, Zenon DEF OpToRel
<1> QED BY <1>3

(* findEvictPosition returns a position of the array, whatever bytes it meets. *)
LEMMA EvictInRange ==
  ASSUME NEW r \in Rings, NEW head \in 0 .. Capacity - 1
  PROVE  findEvictPosition(r, head) \in 0 .. Capacity - 1
<1> DEFINE Back(p, i) == (p - i + r.capacity) % r.capacity
           Pos(i) == Back(Back(head, 1), i)
           limit == IF SearchLimit > r.length THEN r.length ELSE SearchLimit
           safe == {i \in 0 .. limit - 1 : isANSIBoundary(r.data[Back(Pos(i), 1)])}
<1>1. limit \in Nat /\ Capacity \in Nat \ {0} /\ r.capacity = Capacity
  BY RingFields, CapacityAssumption
<1>2. \A p, i \in Int : Back(p, i) \in 0 .. Capacity - 1
  <2> SUFFICES ASSUME NEW p \in Int, NEW i \in Int PROVE Back(p, i) \in 0 .. Capacity - 1
    BY Zenon
  <2>1. p - i + Capacity \in Int
    BY <1>1
  <2>2. (p - i + Capacity) % Capacity \in 0 .. Capacity - 1
    BY <1>1, <2>1, ModRange, Zenon
  <2> QED BY <1>1, <2>2
<1>3. CASE safe = {}
  <2>1. findEvictPosition(r, head) = Back(head, limit)
    BY <1>3 DEF findEvictPosition
  <2> HIDE DEF Back, limit
  <2> QED BY <1>1, <1>2, <2>1
<1>4. CASE safe # {}
  <2> DEFINE k == CHOOSE i \in safe : \A j \in safe : i <= j
  <2>1. findEvictPosition(r, head) = Pos(k)
    BY <1>4 DEF findEvictPosition
  <2>2. safe \subseteq Nat
    BY <1>1
  <2>3. k \in Nat
    <3> HIDE DEF safe
    <3> QED BY <1>4, <2>2, Smallest, Zenon
  <2>4. Back(head, 1) \in Int
    <3> HIDE DEF Back
    <3> QED BY <1>1, <1>2
  <2> HIDE DEF Back, k
  <2> QED BY <1>1, <1>2, <2>1, <2>3, <2>4
<1> QED BY <1>3, <1>4
-----------------------------------------------------------------------------
(* The inductive invariant.  Before the buffer has been filled, byte i of  *)
(* what was written is in slot i - 1 and the head is behind the last; a    *)
(* buffer that was filled stays full.                                      *)
Filling ==
  /\ rb.length = Len(written)
  /\ rb.head = IF Len(written) = Capacity THEN 0 ELSE Len(written)
  /\ \A i \in 1 .. Len(written) : rb.data[i - 1] = written[i]

IInv ==
  /\ TypeOK
  /\ Len(written) <= Capacity => Filling
  /\ Len(written) > Capacity => rb.length = Capacity

(* A new buffer has nothing in it and nothing has been written. *)
LEMMA InitIInv == Init => IInv
<1> SUFFICES ASSUME Init PROVE IInv
  OBVIOUS
<1>1. Zero \in Bytes
  BY DEF Zero, Byte, Bytes
<1>2. rb \in Rings
  BY <1>1, CapacityAssumption DEF Init, NewRingBuffer, Rings
<1>3. written = <<>> /\ total = 0 /\ rb.length = 0 /\ rb.head = 0
  BY DEF Init, NewRingBuffer
<1>4. written \in Seq(Bytes) /\ Len(written) = 0
  BY <1>3
<1> QED BY <1>2, <1>3, <1>4, CapacityAssumption DEF IInv, TypeOK, Filling

(* A buffer that is not full takes the byte at its head; a full one        *)
(* somewhere.                                                              *)
LEMMA WriteKeeps ==
  ASSUME IInv, NEW cont \in BOOLEAN, Write(cont)
  PROVE  IInv'
<1> DEFINE b == Byte(total + 1, cont)
           n == Len(written)
<1>1. b \in Bytes /\ total' \in Nat
  BY DEF IInv, TypeOK, Write, Byte, Bytes
<1>2. rb \in Rings /\ written \in Seq(Bytes) /\ written' = Append(written, b) /\ rb' = WriteByte(rb, b)
  BY DEF IInv, TypeOK, Write
<1>3. /\ written' \in Seq(Bytes) /\ Len(written') = n + 1 /\ n \in Nat
      /\ \A i \in 1 .. n : written'[i] = written[i]
      /\ written'[n + 1] = b
  <2> HIDE DEF b
  <2> QED BY <1>1, <1>2, AppendProperties
<1>4. /\ rb.length \in 0 .. Capacity /\ rb.head \in 0 .. Capacity - 1 /\ rb.capacity = Capacity
      /\ rb.data \in [0 .. Capacity - 1 -> Bytes] /\ Capacity \in Nat \ {0}
  BY <1>2, RingFields
<1> DEFINE head == (rb.head + 1) % rb.capacity
           data == [rb.data EXCEPT ![rb.head] = b]
<1>5. head \in 0 .. Capacity - 1 /\ head = IF rb.head + 1 = Capacity THEN 0 ELSE rb.head + 1
  <2>1. CASE rb.head + 1 = Capacity
    <3>1. (rb.head + 1) % Capacity = rb.head + 1 - Capacity
      BY <1>4, <2>1, ModWrap
    <3> QED BY <1>4, <2>1, <3>1
  <2>2. CASE rb.head + 1 < Capacity
    <3>1. (rb.head + 1) % Capacity = rb.head + 1
      BY <1>4, <2>2, ModSmall
    <3> QED BY <1>4, <2>2, <3>1
  <2> QED BY <1>4, <2>1, <2>2
<1>6. data \in [0 .. Capacity - 1 -> Bytes]
  <2> HIDE DEF b
  <2> QED BY <1>1, <1>4
<1> DEFINE put == [rb EXCEPT !.data = [@ EXCEPT ![rb.head] = b]]
<1>0. put = [data |-> data, head |-> rb.head, length |-> rb.length, capacity |-> rb.capacity]
  <2> HIDE DEF b
  <2>1. rb = [data |-> rb.data, head |-> rb.head, length |-> rb.length, capacity |-> rb.capacity]
    BY <1>2, RingFields
  <2> QED BY <2>1
<1>7. CASE rb.length < Capacity
  <2>1. rb' = [data |-> data, head |-> head, length |-> rb.length + 1, capacity |-> rb.capacity]
    <3>1. rb' = [put EXCEPT !.head = head, !.length = @ + 1]
      BY <1>2, <1>4, <1>7 DEF WriteByte
    <3> HIDE DEF put, data, head
    <3> QED BY <1>0, <3>1, Zenon
  <2> HIDE DEF data, head
  <2>2. rb' \in Rings
    BY <1>4, <1>5, <1>6, <1>7, <2>1 DEF Rings
  <2>3. n = rb.length /\ Filling
    BY <1>3, <1>4, <1>7 DEF IInv, Filling
  <2>4. rb.head = n
    BY <1>4, <1>7, <2>3 DEF Filling
  <2>5. rb'.length = Len(written')
    BY <1>3, <2>1, <2>3
  <2>6. rb'.head = IF Len(written') = Capacity THEN 0 ELSE Len(written')
    BY <1>3, <1>4, <1>5, <2>1, <2>4
  <2>7. ASSUME NEW i \in 1 .. Len(written') PROVE rb'.data[i - 1] = written'[i]
    <3>1. CASE i = n + 1
      <4> HIDE DEF b
      <4> QED BY <1>3, <1>4, <2>1, <2>4, <3>1 DEF data
    <3>2. CASE i # n + 1
      <4>1. i \in 1 .. n /\ i - 1 \in 0 .. Capacity - 1 /\ i - 1 # rb.head
        BY <1>3, <1>4, <1>7, <2>3, <2>4, <3>2
      <4>2. rb'.data[i - 1] = rb.data[i - 1]
        <5> HIDE DEF b
        <5> QED BY <1>4, <2>1, <4>1 DEF data
      <4>3. rb.data[i - 1] = written[i]
        BY <2>3, <4>1 DEF Filling
      <4> QED BY <1>3, <4>1, <4>2, <4>3
    <3> QED BY <3>1, <3>2
  <2>8. Len(written') <= Capacity
    BY <1>3, <1>4, <1>7, <2>3
  <2> QED BY <1>1, <1>3, <1>4, <2>2, <2>5, <2>6, <2>7, <2>8 DEF IInv, TypeOK, Filling
<1>8. CASE rb.length = Capacity
  <2> DEFINE at == findEvictPosition(put, head)
  <2>2. put \in Rings
    <3> HIDE DEF put, data
    <3> QED BY <1>0, <1>4, <1>6 DEF Rings
  <2>3. at \in 0 .. Capacity - 1
    <3> HIDE DEF put, head
    <3> QED BY <1>5, <2>2, EvictInRange
  <2>4. rb' = [put EXCEPT !.head = at]
    BY <1>2, <1>4, <1>8 DEF WriteByte
  <2>5. rb' \in Rings /\ rb'.length = Capacity
    <3> HIDE DEF put, at
    <3>1. put.length = rb.length
      BY <1>0
    <3> QED BY <1>4, <1>8, <2>2, <2>3, <2>4, <3>1 DEF Rings
  <2>6. n >= Capacity
    BY <1>3, <1>4, <1>8 DEF IInv, Filling
  <2>7. Len(written') > Capacity
    BY <1>3, <1>4, <2>6
  <2> QED BY <1>1, <1>3, <1>4, <2>5, <2>7 DEF IInv, TypeOK
<1> QED BY <1>4, <1>7, <1>8

(* What ReadFromBinary makes of a snapshot: the same contents, from slot 0 *)
(* on.                                                                     *)
LEMMA HydratedRing ==
  ASSUME NEW r \in Rings, NEW h, h = ReadFromBinary(NewRingBuffer(Spare), BinarySnapshot(r))
  PROVE  /\ h \in Rings
         /\ h.length = r.length
         /\ h.head = IF r.length = Capacity THEN 0 ELSE r.length
         /\ \A i \in 1 .. r.length : h.data[i - 1] = Snapshot(r)[i]
<1> DEFINE shot == Snapshot(r)
           old == NewRingBuffer(Spare)
           rest == [i \in 0 .. Capacity - 1 |-> IF old.capacity < Capacity THEN Zero ELSE old.data[i]]
           data == [i \in 0 .. Capacity - 1 |-> IF i < r.length THEN shot[i + 1] ELSE rest[i]]
<1>1. r.length \in 0 .. Capacity /\ r.capacity = Capacity /\ Capacity \in Nat \ {0} /\ Spare \in Nat \ {0}
  BY RingFields, CapacityAssumption
<1>2. shot \in Seq(Bytes) /\ Len(shot) = r.length
  BY SnapshotReads
<1>3. Zero \in Bytes
  BY DEF Zero, Byte, Bytes
<1>4. rest \in [0 .. Capacity - 1 -> Bytes]
  <2>1. old.capacity = Spare /\ \A i \in 0 .. Spare - 1 : old.data[i] = Zero
    BY DEF NewRingBuffer
  <2>2. ASSUME NEW i \in 0 .. Capacity - 1 PROVE rest[i] \in Bytes
    <3>1. rest[i] = IF old.capacity < Capacity THEN Zero ELSE old.data[i]
      OBVIOUS
    <3> HIDE DEF old, rest
    <3> QED BY <1>1, <1>3, <2>1, <3>1
  <2> QED BY <2>2
<1>5. h = [data |-> data, head |-> r.length % Capacity, length |-> r.length, capacity |-> Capacity]
  BY <1>1, Zenon DEF ReadFromBinary, BinarySnapshot, HeadOf
<1>6. data \in [0 .. Capacity - 1 -> Bytes]
  <2> HIDE DEF shot, rest
  <2>1. ASSUME NEW i \in 0 .. Capacity - 1 PROVE data[i] \in Bytes
    <3>1. CASE i < r.length
      <4>1. i + 1 \in 1 .. Len(shot)
        BY <1>1, <1>2, <3>1
      <4>2. shot[i + 1] \in Bytes
        BY <1>2, <4>1, ElementOfSeq
      <4> QED BY <3>1, <4>2
    <3>2. CASE ~(i < r.length)
      BY <1>4, <3>2
    <3> QED BY <3>1, <3>2
  <2> QED BY <2>1
<1>7. r.length % Capacity \in 0 .. Capacity - 1 /\ r.length % Capacity = IF r.length = Capacity THEN 0 ELSE r.length
  <2>1. CASE r.length = Capacity
    <3>1. r.length % Capacity = r.length - Capacity
      BY <1>1, <2>1, ModWrap
    <3> QED BY <1>1, <2>1, <3>1
  <2>2. CASE r.length # Capacity
    <3>1. r.length % Capacity = r.length
      BY <1>1, <2>2, ModSmall
    <3> QED BY <1>1, <2>2, <3>1
  <2> QED BY <2>1, <2>2
<1>8. \A i \in 1 .. r.length : data[i - 1] = shot[i]
  <2> HIDE DEF shot, rest
  <2> SUFFICES ASSUME NEW i \in 1 .. r.length PROVE data[i - 1] = shot[i]
    OBVIOUS
  <2>1. i - 1 \in 0 .. Capacity - 1 /\ i - 1 < r.length /\ (i - 1) + 1 = i
    BY <1>1
  <2> QED BY <2>1
<1> HIDE DEF data
<1>9. h \in Rings /\ h.length = r.length
  BY <1>1, <1>5, <1>6, <1>7 DEF Rings
<1> QED BY <1>5, <1>7, <1>8, <1>9

(* Contents that start in slot 0 are read in order. *)
LEMMA SnapshotFromZero ==
  ASSUME NEW r \in Rings, NEW q \in Seq(Bytes), Len(q) = r.length,
         r.head = IF r.length = Capacity THEN 0 ELSE r.length,
         \A i \in 1 .. r.length : r.data[i - 1] = q[i]
  PROVE  Snapshot(r) = q
<1>1. r.length \in 0 .. Capacity /\ Capacity \in Nat \ {0}
  BY RingFields
<1>2. Oldest(r) = 0
  BY <1>1, SnapshotReads
<1>3. Snapshot(r) \in Seq(Bytes) /\ Len(Snapshot(r)) = Len(q)
  BY SnapshotReads
<1>4. ASSUME NEW i \in 1 .. Len(q) PROVE Snapshot(r)[i] = q[i]
  <2>1. At(Capacity, 0, i) = i - 1
    BY <1>1 DEF At
  <2>2. Snapshot(r)[i] = r.data[At(Capacity, Oldest(r), i)]
    BY SnapshotReads
  <2> QED BY <1>2, <2>1, <2>2
<1> QED BY <1>3, <1>4, SeqEqual

(* ReadFromBinary into a buffer of another size keeps the contents. *)
LEMMA HydratedSame ==
  ASSUME NEW r \in Rings
  PROVE  Snapshot(ReadFromBinary(NewRingBuffer(Spare), BinarySnapshot(r))) = Snapshot(r)
<1> DEFINE h == ReadFromBinary(NewRingBuffer(Spare), BinarySnapshot(r))
           q == Snapshot(r)
<1>1. /\ h \in Rings /\ h.length = r.length
      /\ h.head = IF r.length = Capacity THEN 0 ELSE r.length
      /\ \A i \in 1 .. r.length : h.data[i - 1] = q[i]
  BY HydratedRing
<1>2. q \in Seq(Bytes) /\ Len(q) = r.length
  BY SnapshotReads
<1> HIDE DEF h, q
<1>3. Snapshot(h) = q
  BY <1>1, <1>2, SnapshotFromZero
<1> QED BY <1>3 DEF h, q

(* Until it is full, a buffer that is filled in order holds all that was written. *)
LEMMA IInvKeepsAll == IInv => KeepsAll
<1> SUFFICES ASSUME IInv, Len(written) <= Capacity PROVE Snapshot(rb) = written
  BY DEF KeepsAll
<1>1. rb \in Rings /\ written \in Seq(Bytes) /\ Filling
  BY DEF IInv, TypeOK
<1>2. /\ Len(written) = rb.length
      /\ rb.head = IF rb.length = Capacity THEN 0 ELSE rb.length
      /\ \A i \in 1 .. rb.length : rb.data[i - 1] = written[i]
  BY <1>1 DEF Filling
<1> QED BY <1>1, <1>2, SnapshotFromZero

(* Clear starts over: IInv holds of the empty buffer. *)
LEMMA ClearKeeps == IInv /\ Clear => IInv'
<1> SUFFICES ASSUME IInv, Clear PROVE IInv'
  OBVIOUS
<1>1. rb \in Rings
  BY DEF IInv, TypeOK
<1>2. rb' = [rb EXCEPT !.head = 0, !.length = 0] /\ written' = <<>> /\ total' \in Nat
  BY DEF Clear, Reset, IInv, TypeOK
<1>3. rb' \in Rings /\ rb'.length = 0 /\ rb'.head = 0
  BY <1>1, <1>2, CapacityAssumption DEF Rings
<1>4. written' \in Seq(Bytes) /\ Len(written') = 0
  BY <1>2
<1> QED BY <1>2, <1>3, <1>4, CapacityAssumption DEF IInv, TypeOK, Filling

(* Hydrating a buffer from its own serialisation keeps IInv. *)
LEMMA HydrateKeeps == IInv /\ Hydrate => IInv'
<1> SUFFICES ASSUME IInv, Hydrate PROVE IInv'
  OBVIOUS
<1>1. rb \in Rings /\ written' = written /\ total' = total
  BY DEF IInv, TypeOK, Hydrate
<1>2. /\ rb' \in Rings /\ rb'.length = rb.length
      /\ rb'.head = IF rb.length = Capacity THEN 0 ELSE rb.length
      /\ \A i \in 1 .. rb.length : rb'.data[i - 1] = Snapshot(rb)[i]
  BY <1>1, HydratedRing DEF Hydrate
<1>3. CASE Len(written) <= Capacity
  <2>1. Snapshot(rb) = written
    BY <1>3, IInvKeepsAll DEF KeepsAll
  <2>2. rb.length = Len(written)
    BY <1>3 DEF IInv, Filling
  <2>3. Filling'
    BY <1>1, <1>2, <2>1, <2>2 DEF Filling
  <2> QED BY <1>1, <1>2, <1>3, <2>3, CapacityAssumption DEF IInv, TypeOK
<1>4. CASE ~(Len(written) <= Capacity)
  <2>1. Len(written) \in Nat /\ Len(written) > Capacity
    BY <1>4, CapacityAssumption, LenProperties DEF IInv, TypeOK
  <2> QED BY <1>1, <1>2, <1>4, <2>1, CapacityAssumption DEF IInv, TypeOK
<1> QED BY <1>3, <1>4

(* IInv holds in every state the buffer reaches. *)
LEMMA IInvAlways == Spec => []IInv
<1>1. IInv /\ [Next]_vars => IInv'
  <2> SUFFICES ASSUME IInv, [Next]_vars PROVE IInv'
    OBVIOUS
  <2>1. ASSUME NEW cont \in BOOLEAN, Write(cont) PROVE IInv'
    BY <2>1, WriteKeeps
  <2>2. CASE Clear
    BY <2>2, ClearKeeps
  <2>3. CASE Hydrate
    BY <2>3, HydrateKeeps
  <2>4. CASE UNCHANGED vars
    BY <2>4 DEF IInv, TypeOK, Filling, vars
  <2> QED BY <2>1, <2>2, <2>3, <2>4 DEF Next
<1> QED BY InitIInv, <1>1, PTL DEF Spec

(* The buffer keeps its shape, and holds no more than its capacity, for    *)
(* every capacity and search limit: wherever the eviction puts the head,   *)
(* it is in the array.                                                     *)
THEOREM RingTypes == Spec => []TypeOK
<1>1. IInv => TypeOK
  BY DEF IInv
<1> QED BY IInvAlways, <1>1, PTL

(* Before it has been filled, a buffer of any capacity gives back all that *)
(* was written, in order.                                                  *)
THEOREM NothingLostBeforeFull == Spec => []KeepsAll
BY IInvAlways, IInvKeepsAll, PTL

(* A buffer of any capacity, read from a binary snapshot into a buffer of  *)
(* any other, has the contents of the original.                            *)
THEOREM HydrationKeepsContents == Spec => []HydratedMatches
<1>1. IInv => HydratedMatches
  BY HydratedSame DEF IInv, TypeOK, HydratedMatches
<1> QED BY IInvAlways, <1>1, PTL
================================================================================
