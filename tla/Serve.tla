-------------------------------- MODULE Serve --------------------------------
(***************************************************************************)
(* `muvue serve` and its two files, the control socket and the port file:  *)
(* cli/main.py serve, core/control.py and the port file of core/daemon.py. *)
(*                                                                         *)
(* Several serve processes of one repository start, stop and die.  Each    *)
(* binds a TCP port of its own, so that only the socket keeps them apart.  *)
(***************************************************************************)
EXTENDS Integers, FiniteSets

CONSTANTS
    Daemons,  \* serve processes
    Inodes,   \* inode numbers, which a file system uses again
    NoFile

ASSUME ServeAssumption ==
    /\ IsFiniteSet(Inodes) /\ IsFiniteSet(Daemons)
    /\ Cardinality(Daemons) < Cardinality(Inodes)
    /\ NoFile \notin [by : Daemons, inode : Inodes]

VARIABLES
    step,     \* where each process is
    bound,    \* _bound_id: the inode of its socket
    sockFile, \* the path of the socket: who bound it, and its inode
    portFile, \* the pid the port file names
    raced     \* history: started or stopped while another one did

serveVars == <<step, bound, sockFile, portFile, raced>>

Starting == {"probe", "unlink", "bind", "listen", "port"}
Stopping == {"unbind", "unlinkOurs", "readPort", "unlinkPort"}
Listening == {"port", "running"}
Open == {"listen"} \cup Listening

Within(phases) == {d \in Daemons : step[d] \in phases}

\* A process takes its next step; those that start or stop at a time are `raced`.
Moves(d, to) ==
    /\ step' = [step EXCEPT ![d] = to]
    /\ raced' = LET busy == {e \in Daemons : step'[e] \in Starting \cup Stopping} IN
                IF Cardinality(busy) > 1 THEN raced \cup busy ELSE raced

-----------------------------------------------------------------------------
(* Start.                                                                  *)

ServeCalled(d) ==
    /\ step[d] = "unborn"
    /\ Moves(d, "probe")
    /\ UNCHANGED <<bound, sockFile, portFile>>

\* Mutant of Answered: the probe is left out.
AnsweredByNobody == FALSE

\* Somebody accepts on the socket: bound, and listening.
Answered ==
    sockFile # NoFile /\ step[sockFile.by] \in Listening /\ bound[sockFile.by] = sockFile.inode

\* _refuse_if_live.
Probes(d) ==
    /\ step[d] = "probe"
    /\ Moves(d, IF Answered THEN "ended" ELSE "unlink")
    /\ UNCHANGED <<bound, sockFile, portFile>>

\* A crashed daemon's leftover.
UnlinksStale(d) ==
    /\ step[d] = "unlink"
    /\ sockFile' = NoFile
    /\ Moves(d, "bind")
    /\ UNCHANGED <<bound, portFile>>

InUse == {bound[d] : d \in Within(Open)} \cup (IF sockFile = NoFile THEN {} ELSE {sockFile.inode})

\* bind fails on a path that exists.
BindsSocket(d, i) ==
    /\ step[d] = "bind"
    /\ IF sockFile = NoFile
       THEN /\ i \in Inodes \ InUse
            /\ sockFile' = [by |-> d, inode |-> i]
            /\ bound' = [bound EXCEPT ![d] = i]
            /\ Moves(d, "listen")
       ELSE Moves(d, "ended") /\ UNCHANGED <<bound, sockFile>>
    /\ UNCHANGED portFile

ListensOnSocket(d) ==
    /\ step[d] = "listen"
    /\ Moves(d, "port")
    /\ UNCHANGED <<bound, sockFile, portFile>>

WritesPortFile(d) ==
    /\ step[d] = "port"
    /\ portFile' = d
    /\ Moves(d, "running")
    /\ UNCHANGED <<bound, sockFile>>

-----------------------------------------------------------------------------
(* Stop.                                                                   *)

\* The accept loop ends and the socket is closed.
ClosesSocket(d) ==
    /\ step[d] = "running"
    /\ Moves(d, "unbind")
    /\ UNCHANGED <<bound, sockFile, portFile>>

\* The device and inode that start saw.
IsOurs(d) == sockFile.inode = bound[d]

\* _unlink_if_ours looks first; an inode number may be another socket's by now.
StatsSocket(d) ==
    /\ step[d] = "unbind"
    /\ Moves(d, IF sockFile # NoFile /\ IsOurs(d) THEN "unlinkOurs" ELSE "readPort")
    /\ UNCHANGED <<bound, sockFile, portFile>>

UnlinksOurs(d) ==
    /\ step[d] = "unlinkOurs"
    /\ sockFile' = NoFile
    /\ Moves(d, "readPort")
    /\ UNCHANGED <<bound, portFile>>

\* remove_port_file, which looks first, too.
ReadsPortFile(d) ==
    /\ step[d] = "readPort"
    /\ Moves(d, IF portFile = d THEN "unlinkPort" ELSE "ended")
    /\ UNCHANGED <<bound, sockFile, portFile>>

UnlinksPort(d) ==
    /\ step[d] = "unlinkPort"
    /\ portFile' = NoFile
    /\ Moves(d, "ended")
    /\ UNCHANGED <<bound, sockFile>>

\* SIGKILL leaves both files.
ServeDies(d) ==
    /\ step[d] \in Starting \cup Stopping \cup {"running"}
    /\ Moves(d, "ended")
    /\ UNCHANGED <<bound, sockFile, portFile>>

-----------------------------------------------------------------------------
ServeInit ==
    /\ step = [d \in Daemons |-> "unborn"]
    /\ bound = [d \in Daemons |-> NoFile]
    /\ sockFile = NoFile /\ portFile = NoFile
    /\ raced = {}

ServeNext ==
    \E d \in Daemons :
        \/ ServeCalled(d) \/ Probes(d) \/ UnlinksStale(d)
        \/ \E i \in Inodes : BindsSocket(d, i)
        \/ ListensOnSocket(d) \/ WritesPortFile(d)
        \/ ClosesSocket(d) \/ StatsSocket(d) \/ UnlinksOurs(d)
        \/ ReadsPortFile(d) \/ UnlinksPort(d) \/ ServeDies(d)

ServeSpec == ServeInit /\ [][ServeNext]_serveVars

-----------------------------------------------------------------------------
(* Properties.                                                             *)

\* A daemon that runs is the one both files lead to, whatever other daemons
\* crashed, were refused or stopped before and since.  Those that started while
\* another one started or stopped are excepted: between the probe and the bind,
\* and between a look at a file and its removal, the file may be another's.
RunningIsReachable ==
    \A d \in Within({"running"}) \ raced :
        sockFile # NoFile /\ sockFile.by = d /\ portFile = d
=============================================================================
