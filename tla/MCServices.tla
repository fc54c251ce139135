----------------------------- MODULE MCServices ------------------------------
(***************************************************************************)
(* The services around the nodes, each on an instance of its own.  They    *)
(* share no state that the models keep: a behaviour runs one `part`, and   *)
(* the others stay as they began.                                          *)
(***************************************************************************)
EXTENDS HookSpool, Replay, Notify, TurnGate, Drift, Closing, Sessions, Serve,
        Asks, Requests, DashboardSession, TLC

CONSTANT Parts  \* the parts a run of TLC checks

VARIABLE part

allVars == <<part, spoolVars, replayVars, notifyVars, turnVars, driftVars,
             closingVars, sessionsVars, serveVars, asksVars, requestsVars,
             dashboardVars>>

\* A queue in which a commit of the agent is garbled or missing from git.
MCWorkloads  == {<<"commit", "session", "missing">>, <<"commit", "garbled", "session">>}
MCProjectOf  == <<1, 2>>
MCTouches    == <<{"C1"}>>
MCCloses     == "a" :> 1 @@ "b" :> 2
MCAgentLines == <<"session-start", "stop", "session-end">>

\* A part that does not run is in one of its initial states.
MCInit ==
    /\ part \in Parts
    /\ SpoolInit /\ ReplayInit /\ NotifyInit /\ TurnInit
    /\ DriftInit /\ ClosingInit /\ SessionsInit /\ ServeInit
    /\ AsksInit /\ RequestsInit /\ DashboardInit
    /\ part # "spool" => kind = CHOOSE k \in MCWorkloads : TRUE
    /\ part # "requests" => atomic
    /\ part # "drift" => history[1] = [by |-> 1, renames |-> FALSE, path |-> 1, content |-> 1]

Rests(name, vars) == IF part = name THEN TRUE ELSE UNCHANGED vars

Runs(name) ==
    /\ part = name /\ UNCHANGED part
    /\ Rests("spool", spoolVars) /\ Rests("replay", replayVars)
    /\ Rests("notify", notifyVars) /\ Rests("turn", turnVars)
    /\ Rests("drift", driftVars) /\ Rests("closing", closingVars)
    /\ Rests("sessions", sessionsVars) /\ Rests("serve", serveVars)
    /\ Rests("asks", asksVars) /\ Rests("requests", requestsVars)
    /\ Rests("dashboard", dashboardVars)

MCNext ==
    \/ Runs("spool") /\ SpoolNext
    \/ Runs("replay") /\ ReplayNext
    \/ Runs("notify") /\ NotifyNext
    \/ Runs("turn") /\ TurnNext
    \/ Runs("drift") /\ DriftNext
    \/ Runs("closing") /\ ClosingNext
    \/ Runs("sessions") /\ SessionsNext
    \/ Runs("serve") /\ ServeNext
    \/ Runs("asks") /\ AsksNext
    \/ Runs("requests") /\ RequestsNext
    \/ Runs("dashboard") /\ DashboardNext

\* SpoolFairness, NotifyFairness and TurnFairness, of the part that runs.
MCSpec ==
    /\ MCInit /\ [][MCNext]_allVars
    /\ WF_allVars(Runs("spool") /\ DrainCalled) /\ WF_allVars(Runs("spool") /\ DrainerStep)
    /\ SF_allVars(Runs("spool") /\ (AppliesLine \/ SkipsGarbled))
    /\ \A f \in Flushers : WF_allVars(Runs("notify") /\ FlusherStep(f))
    /\ WF_allVars(Runs("turn") /\ StopCalled) /\ WF_allVars(Runs("turn") /\ HookStep)
=============================================================================
