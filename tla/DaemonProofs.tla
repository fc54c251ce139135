---------------------------- MODULE DaemonProofs ----------------------------
(* The daemon's own services: which daemon owns the socket, the dashboard's *)
(* token, the notifications it posts and the drift it looks for.           *)
EXTENDS Serve, DashboardSession, Notify, Drift, FiniteSetTheorems,
        SequenceTheorems, WellFoundedInduction, TLAPS

-----------------------------------------------------------------------------
(* Serve: a daemon that runs alone owns the file its clients connect to.   *)

Busy == Starting \cup Stopping

\* Where the processes and the files can be.
ServeTyped ==
    /\ step \in [Daemons -> {"unborn", "running", "ended"} \cup Busy]
    /\ bound \in [Daemons -> Inodes \cup {NoFile}]

\* Two that start or stop at a time know each other as raced.
BusyAreRaced ==
    \A d, e \in Daemons : d # e /\ step[d] \in Busy /\ step[e] \in Busy => d \in raced

\* The socket of one that started alone has an inode of its own: among those
\* that listen, and those that are about to compare theirs with the path's.
InodesDiffer ==
    \A d, e \in Daemons :
        d # e /\ step[d] \in Open /\ d \notin raced /\ step[e] \in Open \cup {"unbind"}
        => bound[d] # bound[e]

\* One that started alone: the path is its own from its bind on.
HoldsSocket(d) == sockFile # NoFile /\ sockFile.by = d /\ sockFile.inode = bound[d]

\* No other process gets past its probe, or past its looks at the two files,
\* while one that started alone runs.
OthersStayOut(d) ==
    \A e \in Daemons \ {d} :
        step[e] \notin {"unlink", "bind", "listen", "port", "unlinkOurs", "unlinkPort"}

AloneIsReachable ==
    \A d \in Daemons \ raced :
        /\ step[d] \in Open => HoldsSocket(d)
        /\ step[d] = "running" => portFile = d /\ OthersStayOut(d)

\* Inductive: what an unraced daemon can count on.
ServeInv == ServeTyped /\ BusyAreRaced /\ InodesDiffer /\ AloneIsReachable

LEMMA ServeInitInv == ServeInit => ServeInv
  BY DEF ServeInit, ServeInv, ServeTyped, BusyAreRaced, InodesDiffer, AloneIsReachable,
         Busy, Starting, Stopping, Open, Listening

\* The step of one process: who is busy at the same time is raced from then on.
LEMMA MovesRace ==
  ASSUME ServeTyped, BusyAreRaced,
         NEW d \in Daemons, NEW to \in {"running", "ended"} \cup Busy, Moves(d, to)
  PROVE  /\ step' \in [Daemons -> {"unborn", "running", "ended"} \cup Busy]
         /\ step'[d] = to
         /\ \A e \in Daemons \ {d} : step'[e] = step[e]
         /\ raced \subseteq raced'
         /\ BusyAreRaced'
<1>1. /\ step' \in [Daemons -> {"unborn", "running", "ended"} \cup Busy]
      /\ step'[d] = to
      /\ \A e \in Daemons \ {d} : step'[e] = step[e]
  BY DEF Moves, ServeTyped
<1> DEFINE busy == {e \in Daemons : step'[e] \in Busy}
<1>2. raced' = IF Cardinality(busy) > 1 THEN raced \cup busy ELSE raced
  BY DEF Moves, Busy
<1>3. raced \subseteq raced'
  BY <1>2
<1>4. ASSUME NEW e \in Daemons, NEW f \in Daemons, e # f, step'[e] \in Busy, step'[f] \in Busy
      PROVE  e \in raced'
  <2>1. {e, f} \subseteq busy /\ IsFiniteSet(busy)
    BY <1>4, ServeAssumption, FS_Subset
  <2>2. Cardinality({e, f}) = 2
    <3>1. IsFiniteSet({f}) /\ Cardinality({f}) = 1
      BY FS_Singleton
    <3>2. Cardinality({f} \cup {e}) = 2
      BY <1>4, <3>1, FS_AddElement
    <3>3. {f} \cup {e} = {e, f}
      OBVIOUS
    <3> QED
      BY <3>2, <3>3
  <2>3. Cardinality(busy) \in Nat /\ Cardinality({e, f}) <= Cardinality(busy)
    BY <2>1, FS_Subset, FS_CardinalityType
  <2> QED
    BY <1>2, <1>4, <2>2, <2>3
<1> QED
  BY <1>1, <1>3, <1>4 DEF BusyAreRaced

\* A process that moves without touching either file: it takes nothing from a
\* daemon that runs, unless it goes further than it may.
LEMMA QuietStepInv ==
  ASSUME ServeInv, NEW d \in Daemons, NEW to \in {"running", "ended"} \cup Busy, Moves(d, to),
         UNCHANGED <<bound, sockFile, portFile>>,
         to # "running",
         to \in Open => step[d] \in Open,
         to = "unbind" => step[d] = "running",
         to \in {"unlink", "bind", "listen", "port", "unlinkOurs", "unlinkPort"} =>
             \A e \in Daemons \ ({d} \cup raced) : step[e] # "running"
  PROVE  ServeInv'
<1>1. /\ step' \in [Daemons -> {"unborn", "running", "ended"} \cup Busy]
      /\ step'[d] = to
      /\ \A e \in Daemons \ {d} : step'[e] = step[e]
      /\ raced \subseteq raced'
      /\ BusyAreRaced'
  BY MovesRace DEF ServeInv
<1>2. InodesDiffer'
  BY <1>1 DEF ServeInv, InodesDiffer, Open, Listening
<1>3. ASSUME NEW e \in Daemons \ raced'
      PROVE  /\ step'[e] \in Open => HoldsSocket(e)'
             /\ step'[e] = "running" => portFile' = e /\ OthersStayOut(e)'
  BY <1>1, <1>3 DEF ServeInv, AloneIsReachable, HoldsSocket, OthersStayOut
<1> QED
  BY <1>1, <1>2, <1>3 DEF ServeInv, ServeTyped, AloneIsReachable

LEMMA ServeStepInv == ServeInv /\ [ServeNext]_serveVars => ServeInv'
<1> SUFFICES ASSUME ServeInv, [ServeNext]_serveVars
             PROVE  ServeInv'
  OBVIOUS
<1>0. CASE UNCHANGED serveVars
  BY <1>0 DEF serveVars, ServeInv, ServeTyped, BusyAreRaced, InodesDiffer, AloneIsReachable,
              HoldsSocket, OthersStayOut
<1> SUFFICES ASSUME NEW d \in Daemons,
                    \/ ServeCalled(d) \/ Probes(d) \/ UnlinksStale(d)
                    \/ \E i \in Inodes : BindsSocket(d, i)
                    \/ ListensOnSocket(d) \/ WritesPortFile(d)
                    \/ ClosesSocket(d) \/ StatsSocket(d) \/ UnlinksOurs(d)
                    \/ ReadsPortFile(d) \/ UnlinksPort(d) \/ ServeDies(d)
             PROVE  ServeInv'
  BY <1>0 DEF ServeNext
\* While one that started alone runs, the others stay out.
<1>a. \A e \in Daemons \ ({d} \cup raced) : step[e] = "running" =>
          /\ HoldsSocket(e) /\ portFile = e
          /\ step[d] \notin {"unlink", "bind", "listen", "port", "unlinkOurs", "unlinkPort"}
  BY DEF ServeInv, AloneIsReachable, OthersStayOut, Open, Listening
<1> USE DEF Busy, Starting, Stopping, Open, Listening
<1>1. CASE ServeCalled(d)
  BY <1>1, QuietStepInv DEF ServeCalled
<1>2. CASE Probes(d)
  <2>1. CASE Answered
    BY <1>2, <2>1, QuietStepInv DEF Probes
  <2>2. CASE ~Answered
    <3>1. \A e \in Daemons \ ({d} \cup raced) : step[e] # "running"
      BY <1>a, <2>2 DEF Answered, HoldsSocket
    <3> QED
      BY <1>2, <2>2, <3>1, QuietStepInv DEF Probes
  <2> QED
    BY <2>1, <2>2
<1>3. CASE UnlinksStale(d) \/ UnlinksOurs(d)
  <2>1. PICK to \in {"bind", "readPort"} :
            /\ Moves(d, to) /\ sockFile' = NoFile /\ UNCHANGED <<bound, portFile>>
            /\ step[d] \in {"unlink", "unlinkOurs"}
            /\ to = "bind" => step[d] = "unlink"
    BY <1>3 DEF UnlinksStale, UnlinksOurs
  <2>2. /\ step' \in [Daemons -> {"unborn", "running", "ended"} \cup Busy]
        /\ step'[d] = to
        /\ \A e \in Daemons \ {d} : step'[e] = step[e]
        /\ raced \subseteq raced'
        /\ BusyAreRaced'
    BY <2>1, MovesRace DEF ServeInv
  <2>3. \A e \in Daemons \ raced' : step'[e] \notin Open
    BY <1>a, <2>1, <2>2 DEF BusyAreRaced
  <2> QED
    BY <2>1, <2>2, <2>3 DEF ServeInv, ServeTyped, InodesDiffer, AloneIsReachable
<1>4. ASSUME NEW i \in Inodes, BindsSocket(d, i)
      PROVE  ServeInv'
  <2>1. CASE sockFile = NoFile
    <3>1. /\ Moves(d, "listen") /\ step[d] = "bind" /\ i \notin InUse
          /\ sockFile' = [by |-> d, inode |-> i]
          /\ bound' = [bound EXCEPT ![d] = i] /\ UNCHANGED portFile
      BY <1>4, <2>1 DEF BindsSocket
    <3>2. /\ step' \in [Daemons -> {"unborn", "running", "ended"} \cup Busy]
          /\ step'[d] = "listen"
          /\ \A e \in Daemons \ {d} : step'[e] = step[e]
          /\ raced \subseteq raced'
          /\ BusyAreRaced'
      BY <3>1, MovesRace DEF ServeInv
    <3>3. /\ bound' \in [Daemons -> Inodes \cup {NoFile}]
          /\ bound'[d] = i
          /\ \A e \in Daemons \ {d} : bound'[e] = bound[e]
      BY <3>1 DEF ServeInv, ServeTyped
    <3>4. \A e \in Daemons \ {d} : step'[e] \in Open => bound'[e] # i
      BY <3>1, <3>2, <3>3 DEF InUse, Within
    \* Whoever else is unraced is neither busy nor running.
    <3>5. \A e \in Daemons \ (raced' \cup {d}) : step'[e] \notin Open
      BY <1>a, <3>1, <3>2 DEF BusyAreRaced
    <3>6. d \notin raced' => \A e \in Daemons \ {d} : step'[e] # "unbind"
      BY <3>2 DEF BusyAreRaced
    <3>7. InodesDiffer'
      BY <3>2, <3>3, <3>4, <3>5, <3>6 DEF InodesDiffer
    <3>8. HoldsSocket(d)'
      <4>1. sockFile' # NoFile
        BY <3>1, ServeAssumption
      <4> QED
        BY <3>1, <3>3, <4>1 DEF HoldsSocket
    <3>9. AloneIsReachable'
      BY <3>2, <3>5, <3>8 DEF AloneIsReachable
    <3> QED
      BY <3>2, <3>3, <3>7, <3>9 DEF ServeInv, ServeTyped
  <2>2. CASE sockFile # NoFile
    BY <1>4, <2>2, QuietStepInv DEF BindsSocket
  <2> QED
    BY <2>1, <2>2
<1>5. CASE ListensOnSocket(d)
  BY <1>a, <1>5, QuietStepInv DEF ListensOnSocket
<1>6. CASE WritesPortFile(d)
  <2>1. /\ Moves(d, "running") /\ step[d] = "port" /\ portFile' = d
        /\ UNCHANGED <<bound, sockFile>>
    BY <1>6 DEF WritesPortFile
  <2>2. /\ step' \in [Daemons -> {"unborn", "running", "ended"} \cup Busy]
        /\ step'[d] = "running"
        /\ \A e \in Daemons \ {d} : step'[e] = step[e]
        /\ raced \subseteq raced'
        /\ BusyAreRaced'
    BY <2>1, MovesRace DEF ServeInv
  <2>3. \A e \in Daemons \ (raced' \cup {d}) : step'[e] \notin Open
    BY <1>a, <2>1, <2>2 DEF ServeInv, BusyAreRaced
  <2>4. d \notin raced' => HoldsSocket(d) /\ \A e \in Daemons \ {d} : step[e] \notin Busy
    BY <2>1, <2>2 DEF ServeInv, BusyAreRaced, AloneIsReachable
  <2>5. InodesDiffer'
    BY <2>1, <2>2, <2>3 DEF ServeInv, InodesDiffer
  <2>6. AloneIsReachable'
    BY <2>1, <2>2, <2>3, <2>4 DEF AloneIsReachable, HoldsSocket, OthersStayOut
  <2> QED
    BY <2>1, <2>2, <2>5, <2>6 DEF ServeInv, ServeTyped
<1>7. CASE ClosesSocket(d)
  BY <1>7, QuietStepInv DEF ClosesSocket
<1>8. CASE StatsSocket(d)
  <2>1. CASE sockFile # NoFile /\ IsOurs(d)
    <3>1. \A e \in Daemons \ ({d} \cup raced) : step[e] # "running"
      BY <1>a, <1>8, <2>1 DEF ServeInv, InodesDiffer, StatsSocket, IsOurs, HoldsSocket
    <3> QED
      BY <1>8, <2>1, <3>1, QuietStepInv DEF StatsSocket
  <2>2. CASE ~(sockFile # NoFile /\ IsOurs(d))
    BY <1>8, <2>2, QuietStepInv DEF StatsSocket
  <2> QED
    BY <2>1, <2>2
<1>9. CASE ReadsPortFile(d)
  <2>1. CASE portFile = d
    <3>1. \A e \in Daemons \ ({d} \cup raced) : step[e] # "running"
      BY <1>a, <2>1
    <3> QED
      BY <1>9, <2>1, <3>1, QuietStepInv DEF ReadsPortFile
  <2>2. CASE portFile # d
    BY <1>9, <2>2, QuietStepInv DEF ReadsPortFile
  <2> QED
    BY <2>1, <2>2
<1>10. CASE UnlinksPort(d)
  <2>1. /\ Moves(d, "ended") /\ step[d] = "unlinkPort" /\ UNCHANGED <<bound, sockFile>>
    BY <1>10 DEF UnlinksPort
  <2>2. /\ step' \in [Daemons -> {"unborn", "running", "ended"} \cup Busy]
        /\ step'[d] = "ended"
        /\ \A e \in Daemons \ {d} : step'[e] = step[e]
        /\ raced \subseteq raced'
        /\ BusyAreRaced'
    BY <2>1, MovesRace DEF ServeInv
  <2>3. \A e \in Daemons \ raced' : step'[e] # "running"
    BY <1>a, <2>1, <2>2
  <2> QED
    BY <2>1, <2>2, <2>3 DEF ServeInv, ServeTyped, InodesDiffer, AloneIsReachable, HoldsSocket
<1>11. CASE ServeDies(d)
  BY <1>11, QuietStepInv DEF ServeDies
<1> QED
  BY <1>1, <1>2, <1>3, <1>4, <1>5, <1>6, <1>7, <1>8, <1>9, <1>10, <1>11

\* For any number of daemons and of inodes, used again as they may be: a daemon
\* that started and ran while no other one started or stopped is the one that
\* the socket and the port file lead to.
THEOREM RunningDaemonIsReachable == ServeSpec => []RunningIsReachable
<1>1. ServeInv => RunningIsReachable
  BY DEF ServeInv, AloneIsReachable, HoldsSocket, RunningIsReachable, Within, Open, Listening
<1> QED
  BY <1>1, ServeInitInv, ServeStepInv, PTL DEF ServeSpec

-----------------------------------------------------------------------------
(* DashboardSession: a token that idled out is never accepted again.       *)

\* The numbers a session is made of.
ClockTyped ==
    /\ clock \in Nat
    /\ linking \in Nat \cup {NotLinking}
    /\ session.token \in Nat
    /\ session.lastActivity \in Nat
    /\ session = [token |-> session.token, lastActivity |-> session.lastActivity,
                  nonces |-> session.nonces]

\* No token is known to have idled out before it was made.
IdledOutIsPast == \A t \in idledOut : t \in Nat /\ t <= session.token

\* Once the token of now has idled out, it stays so, and a link in progress has
\* read the clock late enough to see it.
TokenStaysIdle ==
    session.token \in idledOut =>
        /\ Idle(clock)
        /\ linking # NotLinking => Idle(linking)

\* Inductive: what a token's death rests on.
DashboardInv == ClockTyped /\ IdledOutIsPast /\ TokenStaysIdle

LEMMA DashboardInitInv == DashboardInit => DashboardInv
  BY DashboardAssumption
     DEF DashboardInit, DashboardInv, ClockTyped, IdledOutIsPast, TokenStaysIdle, NotLinking

LEMMA DashboardStepInv == DashboardInv /\ [DashboardNext]_dashboardVars => DashboardInv'
<1> SUFFICES ASSUME DashboardInv, [DashboardNext]_dashboardVars
             PROVE  DashboardInv'
  OBVIOUS
<1> USE DashboardAssumption
    DEF DashboardInv, ClockTyped, IdledOutIsPast, TokenStaysIdle, Idle, NotLinking
<1>1. ASSUME NEW b \in Tabs, SendsRequest(b)
      PROVE  DashboardInv'
  BY <1>1 DEF SendsRequest, Accepts
<1>2. ASSUME NEW b \in Tabs, MintsNonce(b)
      PROVE  DashboardInv'
  BY <1>2 DEF MintsNonce, Accepts
<1>3. ASSUME NEW b \in Tabs, SetsCookie(b)
      PROVE  DashboardInv'
  BY <1>3 DEF SetsCookie
<1>4. ASSUME NEW b \in Tabs, NEW n \in 1..MaxNonces, ConsumesNonce(b, n)
      PROVE  DashboardInv'
  BY <1>4 DEF ConsumesNonce, Touched
<1>5. CASE LinkCalled
  BY <1>5 DEF LinkCalled
<1>6. CASE Relinks
  <2>1. /\ clock' = clock /\ idledOut' = idledOut
        /\ linking \in Nat /\ linking' = NotLinking
        /\ session'.lastActivity = linking
        /\ session' = [Renewed EXCEPT !.lastActivity = linking,
                                     !.nonces = @ \cup {minted + 1}]
    BY <1>6 DEF Relinks, Renewed
  <2>2. CASE Idle(linking)
    <3>1. session'.token = session.token + 1
      BY <2>1, <2>2 DEF Renewed
    <3>2. session.token + 1 \notin idledOut
      OBVIOUS
    <3>3. session' = [token |-> session.token + 1, lastActivity |-> linking,
                      nonces |-> {minted + 1}]
      <4>1. Renewed = [token |-> session.token + 1,
                       lastActivity |-> session.lastActivity, nonces |-> {}]
        BY <2>2 DEF Renewed
      <4> QED
        BY <2>1, <4>1
    <3>4. ClockTyped'
      <4>1. session'.token = session.token + 1 /\ session'.nonces = {minted + 1}
        BY <3>3
      <4>2. session' = [token |-> session'.token, lastActivity |-> session'.lastActivity,
                        nonces |-> session'.nonces]
        BY <2>1, <3>3, <4>1
      <4> QED
        BY <2>1, <4>1, <4>2
    <3>5. IdledOutIsPast' /\ TokenStaysIdle'
      BY <2>1, <3>1, <3>2
    <3> QED
      BY <3>4, <3>5
  <2>3. CASE ~Idle(linking)
    <3>1. session'.token = session.token /\ session.token \notin idledOut
      BY <2>1, <2>3 DEF Renewed
    <3> QED
      BY <2>1, <2>3, <3>1 DEF Renewed
  <2> QED
    BY <2>2, <2>3
<1>7. CASE ServeRestarts
  BY <1>7 DEF ServeRestarts
<1>8. CASE ClockTicks
  BY <1>8 DEF ClockTicks
<1>9. CASE UNCHANGED dashboardVars
  BY <1>9 DEF dashboardVars
<1> QED
  BY <1>1, <1>2, <1>3, <1>4, <1>5, <1>6, <1>7, <1>8, <1>9 DEF DashboardNext

\* "a token that leaked before the expiry stays dead": for any number of tabs,
\* nonces and restarts, and any timeout.
THEOREM IdledOutIsFinal == DashboardSpec => []IdledOutStaysOut
<1>1. DashboardInv => IdledOutStaysOut
  BY DEF DashboardInv, TokenStaysIdle, IdledOutStaysOut, Accepts
<1> QED
  BY <1>1, DashboardInitInv, DashboardStepInv, PTL DEF DashboardSpec

-----------------------------------------------------------------------------
(* Notify: the cursor passes nothing that was neither posted nor marked.   *)

Phases == {"resting", "select", "mark", "post", "sent", "failed"}

\* The log, what was posted of it, and how far each flusher is.
NotifyTyped ==
    /\ news \in Seq({"line", "retry"}) /\ Len(news) <= MaxNews
    /\ posted \in [1 .. MaxNews -> Nat]
    /\ cursor \in -1 .. Len(news)
    /\ marks \subseteq Nat
    /\ flusher \in [Flushers -> [at : Phases, upTo : -1 .. Len(news), ids : SUBSET DOMAIN news]]
    /\ \A f \in Flushers : flusher[f].at \notin {"resting", "select"} => flusher[f].upTo # None

\* The lines to send after which nobody need wait: posted, or before the end of
\* the log that a first flush marked.
Covered(i) == posted[i] > 0 \/ \E mark \in marks : i <= mark

\* The lines up to x are covered, but for those about to be posted.
SafeUpTo(x, ids) ==
    \A i \in DOMAIN news : news[i] = "line" /\ i <= x => Covered(i) \/ i \in ids

\* The cursor that f has read, or will record.
FlusherIsSafe(f) ==
    /\ flusher[f].at \in {"select", "sent", "failed"} => SafeUpTo(flusher[f].upTo, {})
    /\ flusher[f].at = "post" => SafeUpTo(flusher[f].upTo, flusher[f].ids)

\* Inductive: every cursor, recorded or on its way, is safe.
NotifyInv == NotifyTyped /\ SafeUpTo(cursor, {}) /\ \A f \in Flushers : FlusherIsSafe(f)

\* A batch ends where its last row does, or at the end of the log: it leaves out
\* no event before its end.
LEMMA BatchHasNoGap ==
  ASSUME news \in Seq({"line", "retry"}), NEW from \in 0 .. Len(news), Rows(from) # {}
  PROVE  /\ UpTo(Rows(from)) \in 0 .. Len(news)
         /\ \A i \in DOMAIN news : i <= UpTo(Rows(from)) => i <= from \/ i \in Rows(from)
<1> USE NotifyAssumption
<1>1. Len(news) \in Nat /\ DOMAIN news = 1 .. Len(news)
  BY LenProperties
<1>2. CASE from + BatchLimit <= Len(news)
  <2>1. Rows(from) = (from + 1) .. (from + BatchLimit)
    BY <1>1, <1>2 DEF Rows
  <2>2. Cardinality(Rows(from)) = BatchLimit
    BY <2>1, FS_Interval
  <2>3. Max(Rows(from)) = from + BatchLimit
    <3>1. /\ from + BatchLimit \in Rows(from)
          /\ \A y \in Rows(from) : from + BatchLimit >= y
      BY <2>1
    <3>2. Max(Rows(from)) \in Rows(from) /\ \A y \in Rows(from) : Max(Rows(from)) >= y
      BY <3>1, Zenon DEF Max
    <3> QED
      BY <2>1, <3>1, <3>2
  <2> QED
    BY <1>1, <1>2, <2>1, <2>2, <2>3 DEF UpTo
<1>3. CASE from + BatchLimit > Len(news)
  <2>1. Rows(from) = (from + 1) .. Len(news) /\ from < Len(news)
    BY <1>1, <1>3 DEF Rows
  <2>2. Cardinality(Rows(from)) = Len(news) - from
    BY <1>1, <2>1, FS_Interval
  <2>3. Cardinality(Rows(from)) # BatchLimit
    BY <1>1, <1>3, <2>1, <2>2
  <2> QED
    BY <1>1, <2>1, <2>3 DEF UpTo
<1> QED
  BY <1>1, <1>2, <1>3

LEMMA NotifyInitInv == NotifyInit => NotifyInv
<1> SUFFICES ASSUME NotifyInit PROVE NotifyInv
  OBVIOUS
<1>1. news \in Seq({"line", "retry"}) /\ Len(news) = 0 /\ DOMAIN news = {}
  BY EmptySeq DEF NotifyInit
<1> QED
  BY <1>1, NotifyAssumption
     DEF NotifyInit, NotifyInv, NotifyTyped, FlusherIsSafe, SafeUpTo, Resting, None, Phases

\* The log grows at its end, past every cursor.
LEMMA NewsInv ==
  ASSUME NotifyInv, NEW type \in {"line", "retry"}, NewsComes(type)
  PROVE  NotifyInv'
<1> DEFINE n == Len(news)
<1>1. n \in Nat /\ DOMAIN news = 1 .. n
  BY LenProperties DEF NotifyInv, NotifyTyped
<1>2. /\ news' = Append(news, type) /\ n < MaxNews
      /\ UNCHANGED <<cursor, marks, flusher, posted>>
  BY DEF NewsComes
<1>3. /\ news' \in Seq({"line", "retry"}) /\ Len(news') = n + 1
      /\ DOMAIN news' = 1 .. (n + 1)
      /\ \A i \in 1 .. n : news'[i] = news[i]
  BY <1>1, <1>2, AppendProperties, LenProperties DEF NotifyInv, NotifyTyped
<1>4. NotifyTyped'
  <2>1. \A f \in Flushers : flusher[f] \in [at : Phases, upTo : -1 .. (n + 1),
                                            ids : SUBSET (1 .. (n + 1))]
    <3> SUFFICES ASSUME NEW f \in Flushers
                 PROVE  flusher[f] \in [at : Phases, upTo : -1 .. (n + 1),
                                        ids : SUBSET (1 .. (n + 1))]
      OBVIOUS
    <3>1. flusher[f] \in [at : Phases, upTo : -1 .. n, ids : SUBSET (1 .. n)]
      BY <1>1 DEF NotifyInv, NotifyTyped
    <3>2. -1 .. n \subseteq -1 .. (n + 1) /\ 1 .. n \subseteq 1 .. (n + 1)
      BY <1>1
    <3> QED
      BY <3>1, <3>2
  <2> QED
    BY <1>1, <1>2, <1>3, <2>1, NotifyAssumption DEF NotifyInv, NotifyTyped
<1>5. ASSUME NEW x \in -1 .. n, NEW ids, SafeUpTo(x, ids)
      PROVE  SafeUpTo(x, ids)'
  BY <1>1, <1>2, <1>3, <1>5 DEF SafeUpTo, Covered
<1> QED
  BY <1>1, <1>2, <1>4, <1>5 DEF NotifyInv, NotifyTyped, FlusherIsSafe

\* A flusher that moves on without posting or recording.
LEMMA FlusherMoves ==
  ASSUME NotifyInv, NEW f \in Flushers,
         NEW to \in [at : Phases, upTo : -1 .. Len(news), ids : SUBSET DOMAIN news],
         flusher' = [flusher EXCEPT ![f] = to],
         to.at \notin {"resting", "select"} => to.upTo # None,
         UNCHANGED <<news, cursor, marks, posted>>,
         to.at \in {"select", "sent", "failed"} => SafeUpTo(to.upTo, {}),
         to.at = "post" => SafeUpTo(to.upTo, to.ids)
  PROVE  NotifyInv'
<1>1. /\ flusher' \in [Flushers -> [at : Phases, upTo : -1 .. Len(news), ids : SUBSET DOMAIN news]]
      /\ flusher'[f] = to
      /\ \A g \in Flushers \ {f} : flusher'[g] = flusher[g]
  BY DEF NotifyInv, NotifyTyped
<1>2. NotifyTyped'
  BY <1>1 DEF NotifyInv, NotifyTyped
<1>3. ASSUME NEW g \in Flushers
      PROVE  FlusherIsSafe(g)'
  <2>1. CASE g = f
    BY <1>1, <2>1 DEF FlusherIsSafe, SafeUpTo, Covered
  <2>2. CASE g # f
    BY <1>1, <2>2 DEF NotifyInv, FlusherIsSafe, SafeUpTo, Covered
  <2> QED
    BY <2>1, <2>2
<1> QED
  BY <1>2, <1>3 DEF NotifyInv, SafeUpTo, Covered

LEMMA FlushInv ==
  ASSUME NotifyInv, NEW f \in Flushers,
         FlusherStep(f) \/ FlusherDies(f)
  PROVE  NotifyInv'
<1>0. /\ Len(news) \in Nat /\ DOMAIN news = 1 .. Len(news) /\ Len(news) <= MaxNews
      /\ flusher[f] \in [at : Phases, upTo : -1 .. Len(news), ids : SUBSET DOMAIN news]
      /\ cursor \in -1 .. Len(news)
  BY LenProperties DEF NotifyInv, NotifyTyped
<1>1. CASE flusher' = [flusher EXCEPT ![f] = Resting] /\ UNCHANGED <<news, cursor, marks, posted>>
  <2>1. /\ Resting \in [at : Phases, upTo : -1 .. Len(news), ids : SUBSET DOMAIN news]
        /\ Resting.at = "resting"
    BY <1>0 DEF Resting, None, Phases
  <2> QED
    BY <1>1, <2>1, FlusherMoves
<1>2. CASE ReadsCursor(f)
  <2> DEFINE to == [at |-> "select", upTo |-> cursor, ids |-> {}]
  <2>1. /\ to \in [at : Phases, upTo : -1 .. Len(news), ids : SUBSET DOMAIN news]
        /\ to.at = "select" /\ to.upTo = cursor
    BY <1>0 DEF Phases
  <2>2. flusher' = [flusher EXCEPT ![f] = to] /\ UNCHANGED <<news, cursor, marks, posted>>
    BY <1>2 DEF ReadsCursor
  <2>3. SafeUpTo(cursor, {})
    BY DEF NotifyInv
  <2> HIDE DEF to
  <2> QED
    BY <2>1, <2>2, <2>3, FlusherMoves
<1>3. CASE Selects(f)
  <2> DEFINE from  == flusher[f].upTo
             rows  == Rows(from)
             lines == {i \in rows : news[i] = "line"}
  <2>1. /\ flusher[f].at = "select" /\ UNCHANGED <<news, cursor, marks, posted>>
        /\ flusher' = [flusher EXCEPT ![f] =
              IF from = None THEN [at |-> "mark", upTo |-> Len(news), ids |-> {}]
              ELSE IF rows = {} THEN Resting
              ELSE [at |-> IF lines = {} THEN "sent" ELSE "post",
                    upTo |-> UpTo(rows), ids |-> lines]]
    BY <1>0, <1>3 DEF Selects
  <2>2. CASE from = None
    <3> DEFINE to == [at |-> "mark", upTo |-> Len(news), ids |-> {}]
    <3>1. flusher' = [flusher EXCEPT ![f] = to]
      BY <2>1, <2>2
    <3>2. /\ to \in [at : Phases, upTo : -1 .. Len(news), ids : SUBSET DOMAIN news]
          /\ to.at = "mark" /\ to.upTo # None
      BY <1>0 DEF Phases, None
    <3> HIDE DEF to
    <3> QED
      BY <2>1, <3>1, <3>2, FlusherMoves
  <2>3. CASE from # None /\ rows = {}
    BY <1>1, <2>1, <2>3
  <2>4. CASE from # None /\ rows # {}
    <3> DEFINE at == IF lines = {} THEN "sent" ELSE "post"
               to == [at |-> at, upTo |-> UpTo(rows), ids |-> lines]
    <3>1. flusher' = [flusher EXCEPT ![f] = to]
      BY <2>1, <2>4
    <3>2. from \in 0 .. Len(news)
      BY <1>0, <2>4 DEF None
    <3>3. /\ UpTo(rows) \in 0 .. Len(news)
          /\ \A i \in DOMAIN news : i <= UpTo(rows) => i <= from \/ i \in rows
      BY <2>4, <3>2, BatchHasNoGap DEF NotifyInv, NotifyTyped
    <3>4. SafeUpTo(from, {})
      BY <2>1 DEF NotifyInv, FlusherIsSafe
    <3>5. SafeUpTo(UpTo(rows), lines)
      BY <3>3, <3>4 DEF SafeUpTo
    <3>6. at = "sent" => SafeUpTo(UpTo(rows), {})
      BY <3>5
    <3>7. /\ lines \in SUBSET DOMAIN news
          /\ UpTo(rows) \in -1 .. Len(news) /\ UpTo(rows) # None
          /\ at \in Phases /\ at \notin {"select", "failed"}
      BY <1>0, <3>3 DEF Rows, None, Phases
    <3>8. /\ to \in [at : Phases, upTo : -1 .. Len(news), ids : SUBSET DOMAIN news]
          /\ to.at = at /\ to.upTo = UpTo(rows) /\ to.ids = lines
      BY <3>7
    <3>9. /\ to.at \in {"select", "sent", "failed"} => SafeUpTo(to.upTo, {})
          /\ to.at = "post" => SafeUpTo(to.upTo, to.ids)
          /\ to.upTo # None
          /\ UNCHANGED <<news, cursor, marks, posted>>
      BY <2>1, <3>5, <3>6, <3>7, <3>8
    <3> HIDE DEF from, rows, lines, at, to
    <3> QED
      BY <3>1, <3>8, <3>9, FlusherMoves
  <2> QED
    BY <2>2, <2>3, <2>4
<1>4. CASE RecordsCursor(f)
  <2> DEFINE upTo == flusher[f].upTo
  <2>1. /\ flusher[f].at \in {"mark", "sent", "failed"}
        /\ cursor' = upTo
        /\ marks' = IF flusher[f].at = "mark" THEN marks \cup {upTo} ELSE marks
        /\ flusher' = [flusher EXCEPT ![f] = Resting]
        /\ UNCHANGED <<news, posted>>
    BY <1>4 DEF RecordsCursor
  <2>2. upTo \in 0 .. Len(news)
    <3>1. upTo # -1
      BY <2>1 DEF NotifyInv, NotifyTyped, None
    <3> QED
      BY <1>0, <3>1
  <2>3. SafeUpTo(cursor, {})'
    <3>1. CASE flusher[f].at = "mark"
      BY <1>0, <2>1, <2>2, <3>1 DEF SafeUpTo, Covered
    <3>2. CASE flusher[f].at # "mark"
      BY <2>1, <3>2 DEF SafeUpTo, Covered, NotifyInv, FlusherIsSafe
    <3> QED
      BY <3>1, <3>2
  <2>4. /\ flusher' \in [Flushers -> [at : Phases, upTo : -1 .. Len(news), ids : SUBSET DOMAIN news]]
        /\ flusher'[f].at = "resting"
        /\ \A g \in Flushers \ {f} : flusher'[g] = flusher[g]
    BY <1>0, <2>1 DEF NotifyInv, NotifyTyped, Resting, Phases, None
  <2>5. NotifyTyped'
    <3>1. marks' \subseteq Nat /\ cursor' \in -1 .. Len(news)
      <4>1. marks \subseteq Nat /\ upTo \in Nat /\ upTo \in -1 .. Len(news)
        BY <1>0, <2>2 DEF NotifyInv, NotifyTyped
      <4>2. marks' \in {marks, marks \cup {upTo}}
        BY <2>1
      <4> HIDE DEF upTo
      <4> QED
        BY <2>1, <4>1, <4>2
    <3>2. \A g \in Flushers :
              flusher'[g].at \notin {"resting", "select"} => flusher'[g].upTo # None
      BY <2>4 DEF NotifyInv, NotifyTyped
    <3> QED
      BY <2>1, <2>4, <3>1, <3>2 DEF NotifyInv, NotifyTyped
  <2>6. ASSUME NEW g \in Flushers
        PROVE  FlusherIsSafe(g)'
    <3>1. CASE g = f
      BY <2>4, <3>1 DEF FlusherIsSafe
    <3>2. CASE g # f
      <4>1. flusher'[g] = flusher[g] /\ FlusherIsSafe(g)
        BY <2>4, <3>2 DEF NotifyInv
      <4> QED
        BY <2>1, <4>1 DEF FlusherIsSafe, SafeUpTo, Covered
    <3> QED
      BY <3>1, <3>2
  <2> QED
    BY <2>3, <2>5, <2>6 DEF NotifyInv
<1>5. ASSUME NEW answer \in {"sent", "failed"}, Posts(f, answer)
      PROVE  NotifyInv'
  <2> DEFINE ids == flusher[f].ids
             upTo == flusher[f].upTo
  <2>1. /\ flusher[f].at = "post"
        /\ posted' = [i \in DOMAIN posted |->
                         IF i \in ids /\ posted[i] < 2 THEN posted[i] + 1 ELSE posted[i]]
        /\ flusher' = [flusher EXCEPT ![f].at = answer, ![f].ids = {}]
        /\ UNCHANGED <<news, cursor, marks>>
    BY <1>5 DEF Posts
  <2>2. /\ posted' \in [1 .. MaxNews -> Nat]
        /\ \A i \in DOMAIN news : /\ posted[i] > 0 => posted'[i] > 0
                                  /\ i \in ids => posted'[i] > 0
    BY <1>0, <2>1, NotifyAssumption DEF NotifyInv, NotifyTyped
  <2>3. flusher'[f] = [at |-> answer, upTo |-> upTo, ids |-> {}]
        /\ \A g \in Flushers \ {f} : flusher'[g] = flusher[g]
    BY <1>0, <2>1 DEF NotifyInv, NotifyTyped
  <2>4. flusher' \in [Flushers -> [at : Phases, upTo : -1 .. Len(news), ids : SUBSET DOMAIN news]]
    <3>1. flusher' = [flusher EXCEPT ![f] = [at |-> answer, upTo |-> upTo, ids |-> {}]]
      BY <1>0, <2>1, <2>3 DEF NotifyInv, NotifyTyped
    <3> QED
      BY <1>0, <3>1 DEF NotifyInv, NotifyTyped, Phases
  <2>5. NotifyTyped'
    BY <1>0, <2>1, <2>2, <2>3, <2>4 DEF NotifyInv, NotifyTyped
  <2>6. FlusherIsSafe(f)'
    <3>1. SafeUpTo(upTo, ids)
      BY <2>1 DEF NotifyInv, FlusherIsSafe
    <3>2. SafeUpTo(flusher[f].upTo, {})'
      BY <2>1, <2>2, <2>3, <3>1 DEF SafeUpTo, Covered
    <3>3. flusher'[f].at # "post"
      BY <2>3
    <3> QED
      BY <3>2, <3>3 DEF FlusherIsSafe
  <2>8. SafeUpTo(cursor, {})'
    <3>1. SafeUpTo(cursor, {}) /\ cursor \in Int
      BY <1>0 DEF NotifyInv
    <3> QED
      BY <2>1, <3>1, <2>2 DEF SafeUpTo, Covered
  <2>9. ASSUME NEW g \in Flushers
        PROVE  FlusherIsSafe(g)'
    <3>1. CASE g = f
      BY <2>6, <3>1
    <3>2. CASE g # f
      <4>1. flusher'[g] = flusher[g] /\ FlusherIsSafe(g)
        BY <2>3, <3>2 DEF NotifyInv
      <4> QED
        BY <2>1, <2>2, <4>1 DEF FlusherIsSafe, SafeUpTo, Covered
    <3> QED
      BY <3>1, <3>2
  <2> QED
    BY <2>5, <2>8, <2>9 DEF NotifyInv
<1>6. CASE FlusherDies(f)
  BY <1>1, <1>6 DEF FlusherDies
<1> QED
  BY <1>2, <1>3, <1>4, <1>5, <1>6 DEF FlusherStep

\* For any number of flushers and events, and any size of a batch: the cursor
\* passes no line that is due before it was posted.
THEOREM CursorSkipsNothing == NotifySpec => []NoneSkipped
<1>1. NotifyInv /\ [NotifyNext]_notifyVars => NotifyInv'
  <2> SUFFICES ASSUME NotifyInv, [NotifyNext]_notifyVars
               PROVE  NotifyInv'
    OBVIOUS
  <2>1. CASE UNCHANGED notifyVars
    BY <2>1 DEF notifyVars, NotifyInv, NotifyTyped, FlusherIsSafe, SafeUpTo, Covered
  <2> QED
    BY <2>1, NewsInv, FlushInv DEF NotifyNext
<1>2. NotifyInv => NoneSkipped
  BY DEF NotifyInv, SafeUpTo, Covered, NoneSkipped, Due, NotifyTyped
<1> QED
  BY <1>1, <1>2, NotifyInitInv, PTL DEF NotifySpec

-----------------------------------------------------------------------------
(* Drift: what is called current was verified against what is there.       *)

\* A non-empty set of numbers with a bound has a largest member.
LEMMA MaxIsTheLargest ==
  ASSUME NEW m \in Nat, NEW S, S \subseteq 0 .. m, S # {}
  PROVE  Max(S) \in S /\ \A y \in S : Max(S) >= y
<1> DEFINE T == {k \in Nat : m - k \in S}
<1>1. T \subseteq Nat /\ T # {}
  <2>1. PICK y \in S : TRUE
    OBVIOUS
  <2>2. m - y \in T
    BY <2>1
  <2> QED
    BY <2>2
<1>2. \E x \in T : \A y \in T : ~(<<y, x>> \in OpToRel(<, Nat))
  <2> HIDE DEF T
  <2> QED
    BY <1>1, NatLessThanWellFounded, WFMin
<1>3. PICK x \in T : \A y \in T : ~(y < x)
  BY <1>2 DEF OpToRel
<1>4. m - x \in S /\ \A y \in S : m - x >= y
  <2>1. ASSUME NEW y \in S PROVE m - x >= y
    <3>1. m - y \in T
      OBVIOUS
    <3>2. ~(m - y < x)
      BY <1>3, <3>1
    <3> QED
      BY <3>2
  <2> QED
    BY <2>1
<1> QED
  BY <1>4, Zenon DEF Max

Commits == [by : Authors, renames : BOOLEAN, path : Nat, content : Contents]

\* The commits, the row, how far the drain is, and what a verifier has hashed.
DriftTyped ==
    /\ history \in Seq(Commits) /\ Len(history) > 0
    /\ linked \in Nat /\ drained \in Nat /\ everLinked \in Nat
    /\ drained <= linked /\ linked <= everLinked /\ everLinked <= Len(history)
    /\ row \in [status : {"none", "stale", "current"}, path : Nat, hash : Nat, verified : Nat]
    /\ verifier \in [{"review", "close"} ->
                        [at : {"idle", "hashed"}, path : Nat, hash : Nat, sha : Nat]]
    /\ row.status = "current" => row.verified \in DOMAIN history
    /\ ~history[1].renames
    /\ masked \in BOOLEAN

\* As long as no commit renames it, the file has one path, and so has its anchor.
OnePath ==
    ~Moved =>
        /\ \A i \in DOMAIN history : history[i].path = history[1].path
        /\ row.status # "none" => row.path = history[1].path
        /\ \A v \in {"review", "close"} :
               verifier[v].at = "hashed" => verifier[v].path = history[1].path

\* A verifier holds the content that its commit gives the path.
HashedIsAnchored ==
    \A v \in {"review", "close"} : verifier[v].at = "hashed" =>
        /\ verifier[v].sha \in DOMAIN history
        /\ verifier[v].hash = BlobHash(verifier[v].sha, verifier[v].path)

\* Inductive: what the word current stands for.
DriftInv == DriftTyped /\ OnePath /\ HashedIsAnchored /\ VerifiedIsAnchored /\ CurrentIsCurrent

LEMMA HistoryLength ==
  ASSUME DriftTyped
  PROVE  /\ Len(history) \in Nat \ {0} /\ DOMAIN history = 1 .. Len(history)
         /\ \A i \in 1 .. Len(history) : history[i] \in Commits
         /\ \A i \in 1 .. Len(history) : history[i].content \in Nat \ {0} /\ history[i].path \in Nat
<1>1. /\ Len(history) \in Nat \ {0} /\ DOMAIN history = 1 .. Len(history)
      /\ \A i \in 1 .. Len(history) : history[i] \in Commits
  BY LenProperties, ElementOfSeq DEF DriftTyped
<1> QED
  BY <1>1, DriftAssumption DEF Commits

LEMMA DriftInitInv == DriftInit => DriftInv
<1> SUFFICES ASSUME DriftInit PROVE DriftInv
  OBVIOUS
<1> USE DriftAssumption
<1>1. PICK n \in Authors, c \in Contents :
          history = <<[by |-> n, renames |-> FALSE, path |-> 1, content |-> c]>>
  BY DEF DriftInit
<1>2. /\ history \in Seq(Commits) /\ Len(history) = 1 /\ DOMAIN history = {1}
      /\ history[1].renames = FALSE
  BY <1>1 DEF Commits
<1>3. /\ row.status = "none"
      /\ row \in [status : {"none", "stale", "current"}, path : Nat, hash : Nat, verified : Nat]
      /\ \A v \in {"review", "close"} : verifier[v].at = "idle"
      /\ verifier \in [{"review", "close"} ->
                          [at : {"idle", "hashed"}, path : Nat, hash : Nat, sha : Nat]]
  BY DEF DriftInit, Unanchored, Unoccupied
<1>4. DriftTyped
  <2>1. linked = 1 /\ drained = 1 /\ everLinked = 1 /\ masked \in BOOLEAN
    BY DEF DriftInit
  <2> QED
    BY <1>2, <1>3, <2>1 DEF DriftTyped
<1> QED
  BY <1>2, <1>3, <1>4 DEF DriftInv, OnePath, HashedIsAnchored, VerifiedIsAnchored,
                          CurrentIsCurrent

\* A commit comes after all that was verified and drained.
LEMMA CommitInv ==
  ASSUME DriftInv, NEW commit \in Commits, Committed(commit),
         commit.renames \/ commit.path = history[HeadSha].path
  PROVE  DriftInv'
<1> DEFINE n == Len(history)
<1>1. /\ n \in Nat \ {0} /\ DOMAIN history = 1 .. n
      /\ history \in Seq(Commits)
  BY HistoryLength DEF DriftInv, DriftTyped
<1>2. /\ history' = Append(history, commit)
      /\ UNCHANGED <<linked, drained, everLinked, row, verifier, masked>>
  BY DEF Committed
<1>3. /\ history' \in Seq(Commits) /\ Len(history') = n + 1 /\ DOMAIN history' = 1 .. (n + 1)
      /\ \A i \in 1 .. n : history'[i] = history[i]
      /\ history'[n + 1] = commit
  BY <1>1, <1>2, AppendProperties, LenProperties
<1>4. DriftTyped'
  BY <1>1, <1>2, <1>3 DEF DriftInv, DriftTyped
<1>5. ~Moved' => ~Moved /\ commit.path = history[1].path
  BY <1>1, <1>3 DEF Moved, HeadSha, DriftInv, OnePath
<1>6. OnePath'
  BY <1>1, <1>2, <1>3, <1>5 DEF DriftInv, OnePath
<1>7. HashedIsAnchored'
  BY <1>1, <1>2, <1>3 DEF DriftInv, HashedIsAnchored, BlobHash
<1>8. VerifiedIsAnchored'
  BY <1>1, <1>2, <1>3, <1>5 DEF DriftInv, DriftTyped, VerifiedIsAnchored
<1>9. CurrentIsCurrent'
  <2>1. drained' \in Nat /\ drained' <= n
    BY <1>1, <1>2 DEF DriftInv, DriftTyped
  <2>2. drained' # Len(history')
    BY <1>1, <1>3, <2>1
  <2> QED
    BY <2>2 DEF CurrentIsCurrent, HeadSha
<1> QED
  BY <1>4, <1>6, <1>7, <1>8, <1>9 DEF DriftInv

\* The drain's steps.
LEMMA DrainInv ==
  ASSUME DriftInv,
         LinksCommit \/ MarksStaleForCommit \/ \E to \in 0 .. MaxHistory : Rewinds(to)
  PROVE  DriftInv'
<1>0. /\ Len(history) \in Nat \ {0} /\ DOMAIN history = 1 .. Len(history)
      /\ \A i \in 1 .. Len(history) : history[i].content \in Nat \ {0} /\ history[i].path \in Nat
  BY HistoryLength DEF DriftInv
<1>1. CASE LinksCommit
  <2>1. /\ linked = drained /\ linked < Len(history) /\ linked' = linked + 1
        /\ everLinked' = IF linked + 1 > everLinked THEN linked + 1 ELSE everLinked
        /\ UNCHANGED <<history, drained, row, verifier, masked>>
    BY <1>1 DEF LinksCommit, HeadSha
  <2>2. DriftTyped'
    BY <1>0, <2>1 DEF DriftInv, DriftTyped
  <2> QED
    BY <2>1, <2>2 DEF DriftInv, OnePath, Moved, HashedIsAnchored, BlobHash, VerifiedIsAnchored,
                      CurrentIsCurrent, HeadSha
<1>2. ASSUME NEW to \in 0 .. MaxHistory, Rewinds(to)
      PROVE  DriftInv'
  <2>1. /\ to \in Nat /\ to < drained /\ linked' = to /\ drained' = to
        /\ UNCHANGED <<history, everLinked, row, verifier, masked>>
    BY <1>2, DriftAssumption DEF Rewinds
  <2>2. DriftTyped'
    BY <2>1 DEF DriftInv, DriftTyped
  <2>3. OnePath' /\ HashedIsAnchored' /\ VerifiedIsAnchored'
    BY <2>1 DEF DriftInv, OnePath, Moved, HashedIsAnchored, BlobHash, VerifiedIsAnchored
  <2>4. drained' # Len(history')
    <3>1. PICK n \in Nat : n = Len(history)
      BY <1>0
    <3>2. drained \in Nat /\ drained <= n
      BY <3>1 DEF DriftInv, DriftTyped
    <3>3. drained' # n
      BY <2>1, <3>1, <3>2
    <3> QED
      BY <2>1, <3>1, <3>3
  <2> QED
    BY <2>2, <2>3, <2>4 DEF DriftInv, CurrentIsCurrent, HeadSha
<1>3. CASE MarksStaleForCommit
  <2>1. /\ linked \in 1 .. Len(history) /\ drained' = linked /\ row' = MarkedFor(linked)
        /\ UNCHANGED <<history, linked, everLinked, verifier, masked>>
    BY <1>0, <1>3 DEF MarksStaleForCommit, DriftInv, DriftTyped
  \* The row is kept, follows a rename, or becomes stale.
  <2>2. CASE Renamed(linked) /\ row.status # "none"
    <3>1. row' = [row EXCEPT !.path = history[linked].path, !.hash = history[linked].content]
      BY <2>1, <2>2 DEF MarkedFor
    <3>2. /\ row'.status = row.status /\ row'.path = history[linked].path
          /\ row'.hash = history[linked].content /\ row'.verified = row.verified
          /\ row' \in [status : {"none", "stale", "current"}, path : Nat, hash : Nat, verified : Nat]
      BY <1>0, <2>1, <3>1 DEF DriftInv, DriftTyped
    <3>3. Moved
      BY <1>0, <2>1, <2>2 DEF Renamed, Moved
    <3>4. DriftTyped'
      BY <2>1, <3>2 DEF DriftInv, DriftTyped
    <3>5. OnePath' /\ VerifiedIsAnchored' /\ HashedIsAnchored'
      BY <2>1, <3>3 DEF OnePath, VerifiedIsAnchored, Moved, DriftInv, HashedIsAnchored, BlobHash
    <3>6. CurrentIsCurrent'
      BY <2>1, <3>2 DEF CurrentIsCurrent, HeadSha
    <3> QED
      BY <3>4, <3>5, <3>6 DEF DriftInv
  <2>3. CASE row.status = "none"
    <3>1. row' = row
      BY <2>1, <2>3 DEF MarkedFor
    <3> QED
      BY <2>1, <2>3, <3>1 DEF DriftInv, DriftTyped, OnePath, Moved, HashedIsAnchored, BlobHash,
                              VerifiedIsAnchored, CurrentIsCurrent
  <2>4. CASE /\ row.status # "none" /\ ~Renamed(linked)
             /\ row.path = history[linked].path /\ BlobHash(linked, row.path) # row.hash
    <3>1. row' = [row EXCEPT !.hash = BlobHash(linked, row.path), !.status = "stale"]
      BY <2>1, <2>4 DEF MarkedFor
    <3>2. BlobHash(linked, row.path) \in Nat
      BY <1>0, <2>1 DEF BlobHash, Missing
    <3>3. /\ row'.status = "stale" /\ row'.path = row.path
          /\ row' \in [status : {"none", "stale", "current"}, path : Nat, hash : Nat, verified : Nat]
      BY <3>1, <3>2 DEF DriftInv, DriftTyped
    <3> QED
      BY <2>1, <2>4, <3>3 DEF DriftInv, DriftTyped, OnePath, Moved, HashedIsAnchored, BlobHash,
                              VerifiedIsAnchored, CurrentIsCurrent
  <2>5. CASE /\ row.status # "none" /\ ~Renamed(linked)
             /\ ~(row.path = history[linked].path /\ BlobHash(linked, row.path) # row.hash)
    <3>1. row' = row
      BY <2>1, <2>5 DEF MarkedFor
    <3>2. CurrentIsCurrent'
      BY <2>1, <2>5, <3>1 DEF CurrentIsCurrent, HeadSha, BlobHash
    <3> QED
      BY <2>1, <3>1, <3>2 DEF DriftInv, DriftTyped, OnePath, Moved, HashedIsAnchored, BlobHash,
                              VerifiedIsAnchored
  <2> QED
    BY <2>2, <2>3, <2>4, <2>5
<1> QED
  BY <1>1, <1>2, <1>3

\* The steps of the review and the close.
LEMMA HashInv ==
  ASSUME DriftInv, NEW v \in {"review", "close"}, NEW sha \in DOMAIN history,
         HashesAnchors(v, sha)
  PROVE  DriftInv'
<1>0. /\ Len(history) \in Nat \ {0} /\ DOMAIN history = 1 .. Len(history)
      /\ \A i \in 1 .. Len(history) : history[i].content \in Nat \ {0} /\ history[i].path \in Nat
  BY HistoryLength DEF DriftInv
<1> DEFINE holds == [at |-> "hashed", path |-> row.path, hash |-> BlobHash(sha, row.path),
                     sha |-> sha]
<1>1. /\ row.status = "stale"
      /\ verifier' = [verifier EXCEPT ![v] = holds]
      /\ UNCHANGED <<history, linked, drained, everLinked, row, masked>>
  BY DEF HashesAnchors
<1>2. holds \in [at : {"idle", "hashed"}, path : Nat, hash : Nat, sha : Nat]
  BY <1>0 DEF BlobHash, Missing, DriftInv, DriftTyped
<1>3. /\ verifier' \in [{"review", "close"} ->
                          [at : {"idle", "hashed"}, path : Nat, hash : Nat, sha : Nat]]
      /\ verifier'[v] = holds
      /\ \A w \in {"review", "close"} \ {v} : verifier'[w] = verifier[w]
  <2> HIDE DEF holds
  <2> QED
    BY <1>1, <1>2 DEF DriftInv, DriftTyped
<1>4. DriftTyped'
  BY <1>1, <1>3 DEF DriftInv, DriftTyped
<1>5. OnePath'
  BY <1>1, <1>3 DEF DriftInv, OnePath, Moved
<1>6. HashedIsAnchored'
  BY <1>1, <1>3 DEF DriftInv, HashedIsAnchored, BlobHash
<1>7. VerifiedIsAnchored' /\ CurrentIsCurrent'
  BY <1>1 DEF VerifiedIsAnchored, CurrentIsCurrent
<1> QED
  BY <1>4, <1>5, <1>6, <1>7 DEF DriftInv

LEMMA VerifyInv ==
  ASSUME DriftInv, NEW v \in {"review", "close"}, WritesVerified(v)
  PROVE  DriftInv'
<1>0. /\ Len(history) \in Nat \ {0} /\ DOMAIN history = 1 .. Len(history)
      /\ \A i \in 1 .. Len(history) : history[i].content \in Nat \ {0} /\ history[i].path \in Nat
  BY HistoryLength DEF DriftInv
<1> DEFINE was == verifier[v]
<1>1. /\ was.at = "hashed"
      /\ row' = [status |-> "current", path |-> was.path, hash |-> was.hash, verified |-> was.sha]
      /\ masked' = (\E i \in was.sha + 1 .. everLinked : history[i].content # was.hash)
      /\ verifier' = [verifier EXCEPT ![v] = Unoccupied]
      /\ UNCHANGED <<history, linked, drained, everLinked>>
  BY DEF WritesVerified, Verified
<1>2. /\ was.sha \in 1 .. Len(history) /\ was.hash = BlobHash(was.sha, was.path)
      /\ was \in [at : {"idle", "hashed"}, path : Nat, hash : Nat, sha : Nat]
      /\ ~Moved => was.path = history[1].path
  BY <1>0, <1>1 DEF DriftInv, DriftTyped, HashedIsAnchored, OnePath
<1>3. /\ verifier' \in [{"review", "close"} ->
                          [at : {"idle", "hashed"}, path : Nat, hash : Nat, sha : Nat]]
      /\ verifier'[v].at = "idle"
      /\ \A w \in {"review", "close"} \ {v} : verifier'[w] = verifier[w]
  BY <1>1 DEF DriftInv, DriftTyped, Unoccupied
<1>4. /\ row'.status = "current" /\ row'.path = was.path /\ row'.hash = was.hash
      /\ row'.verified = was.sha
      /\ row' \in [status : {"none", "stale", "current"}, path : Nat, hash : Nat, verified : Nat]
  BY <1>1, <1>2
<1>5. DriftTyped'
  BY <1>0, <1>1, <1>2, <1>3, <1>4 DEF DriftInv, DriftTyped
<1>6. OnePath' /\ HashedIsAnchored'
  BY <1>1, <1>2, <1>3, <1>4 DEF DriftInv, OnePath, Moved, HashedIsAnchored, BlobHash
<1>7. VerifiedIsAnchored'
  BY <1>0, <1>1, <1>2, <1>4 DEF VerifiedIsAnchored, DriftInv, OnePath, Moved, BlobHash
\* Verified at HEAD, the row holds its content; verified before it, and not
\* masked, HEAD is among the commits that left the content as it was.
<1>8. CurrentIsCurrent'
  <2> SUFFICES ASSUME was.path = history[Len(history)].path, drained = Len(history), ~masked'
               PROVE  was.hash = history[Len(history)].content
    BY <1>1, <1>4 DEF CurrentIsCurrent, HeadSha
  <2>1. CASE was.sha = Len(history)
    BY <1>2, <2>1 DEF BlobHash
  <2>2. CASE was.sha # Len(history)
    <3>1. Len(history) \in was.sha + 1 .. everLinked
      BY <1>0, <1>2, <2>2 DEF DriftInv, DriftTyped
    <3> QED
      BY <1>1, <3>1
  <2> QED
    BY <2>1, <2>2
<1> QED
  BY <1>5, <1>6, <1>7, <1>8 DEF DriftInv

LEMMA CreateInv ==
  ASSUME DriftInv, CreatesAnchored
  PROVE  DriftInv'
<1>0. /\ Len(history) \in Nat \ {0} /\ DOMAIN history = 1 .. Len(history)
      /\ \A i \in 1 .. Len(history) : history[i].content \in Nat \ {0} /\ history[i].path \in Nat
  BY HistoryLength DEF DriftInv
<1>1. /\ row' = [status |-> "current", path |-> history[HeadSha].path,
                 hash |-> history[HeadSha].content, verified |-> HeadSha]
      /\ masked' = FALSE
      /\ UNCHANGED <<history, linked, drained, everLinked, verifier>>
  BY DEF CreatesAnchored
<1>2. /\ row'.status = "current" /\ row'.path = history[HeadSha].path
      /\ row'.hash = history[HeadSha].content /\ row'.verified = HeadSha
      /\ row' \in [status : {"none", "stale", "current"}, path : Nat, hash : Nat, verified : Nat]
  BY <1>0, <1>1 DEF HeadSha
<1>3. DriftTyped'
  <2>1. masked' \in BOOLEAN
    BY <1>1
  <2>2. HeadSha \in DOMAIN history
    BY <1>0 DEF HeadSha
  <2> QED
    BY <1>1, <1>2, <2>1, <2>2 DEF DriftInv, DriftTyped
<1>4. OnePath' /\ HashedIsAnchored'
  BY <1>0, <1>1, <1>2 DEF HeadSha, DriftInv, OnePath, Moved, HashedIsAnchored, BlobHash
<1>5. VerifiedIsAnchored' /\ CurrentIsCurrent'
  BY <1>1, <1>2 DEF HeadSha, VerifiedIsAnchored, CurrentIsCurrent
<1> QED
  BY <1>3, <1>4, <1>5 DEF DriftInv

LEMMA DriftStepInv == DriftInv /\ [DriftNext]_driftVars => DriftInv'
<1> SUFFICES ASSUME DriftInv, [DriftNext]_driftVars
             PROVE  DriftInv'
  OBVIOUS
<1>0. /\ Len(history) \in Nat \ {0} /\ DOMAIN history = 1 .. Len(history)
      /\ \A i \in 1 .. Len(history) : history[i].content \in Nat \ {0} /\ history[i].path \in Nat
  BY HistoryLength DEF DriftInv
<1>1. ASSUME NEW n \in Authors, NEW c \in Contents, CommitEdits(n, c) \/ CommitRenames(n, c)
      PROVE  DriftInv'
  <2> DEFINE path == history[HeadSha].path
             edit == [by |-> n, renames |-> FALSE, path |-> path, content |-> c]
             rename == [by |-> n, renames |-> TRUE, path |-> path + 1, content |-> c]
  <2>1. path \in Nat
    BY <1>0 DEF HeadSha
  <2>2. edit \in Commits /\ rename \in Commits
    BY <2>1 DEF Commits
  <2>3. edit.path = history[HeadSha].path /\ rename.renames
    OBVIOUS
  <2>4. Committed(edit) \/ Committed(rename)
    BY <1>1 DEF CommitEdits, CommitRenames
  <2> HIDE DEF edit, rename
  <2> QED
    BY <2>2, <2>3, <2>4, CommitInv
<1>2. ASSUME NEW n \in Authors, ReviewHashes(n)
      PROVE  DriftInv'
  <2>1. /\ CommitsOf(n) \subseteq 0 .. everLinked /\ CommitsOf(n) \subseteq DOMAIN history
        /\ everLinked \in Nat
    BY <1>0 DEF CommitsOf, DriftInv, DriftTyped
  <2>2. Max(CommitsOf(n)) \in DOMAIN history
    BY <1>2, <2>1, MaxIsTheLargest DEF ReviewHashes
  <2> QED
    BY <1>2, <2>2, HashInv DEF ReviewHashes
<1>3. CASE CloseHashes
  BY <1>0, <1>3, HashInv DEF CloseHashes, HeadSha
<1>4. CASE UNCHANGED driftVars
  BY <1>4 DEF driftVars, DriftInv, DriftTyped, OnePath, Moved, HashedIsAnchored, BlobHash,
              VerifiedIsAnchored, CurrentIsCurrent, HeadSha
<1> QED
  BY <1>1, <1>2, <1>3, <1>4, DrainInv, CreateInv, VerifyInv DEF DriftNext

\* For any history of edits: a component is current only with the content its
\* file had at the commit it names.
THEOREM CurrentIsVerified == DriftSpec => []VerifiedIsAnchored
<1>1. DriftInv => VerifiedIsAnchored
  BY DEF DriftInv
<1> QED
  BY <1>1, DriftInitInv, DriftStepInv, PTL DEF DriftSpec

\* For any history of edits and renames, and any order of drains, reviews and
\* closes: when the drain has caught up, current says what HEAD holds, but for
\* what a verification of an earlier commit wrote over.
THEOREM CurrentIsUpToDate == DriftSpec => []CurrentIsCurrent
<1>1. DriftInv => CurrentIsCurrent
  BY DEF DriftInv
<1> QED
  BY <1>1, DriftInitInv, DriftStepInv, PTL DEF DriftSpec

=============================================================================
