-------------------------- MODULE DashboardSession ---------------------------
(***************************************************************************)
(* The dashboard's session: SessionManager of core/daemon.py, the `link`   *)
(* of the control socket and the exchange of api/app.py.  One token lives  *)
(* in memory until it has been idle for too long; a tab gets it for a      *)
(* nonce that works once.                                                  *)
(***************************************************************************)
EXTENDS Integers, FiniteSets

CONSTANTS
    Tabs,
    IdleTimeout,  \* in ticks of the clock
    MaxTicks,     \* bound on the clock
    MaxNonces,    \* bound on the nonces ever minted
    MaxRestarts   \* bound on the restarts of `serve`

ASSUME DashboardAssumption ==
    /\ IdleTimeout \in Nat /\ MaxTicks \in Nat
    /\ MaxNonces \in Nat /\ MaxRestarts \in Nat

VARIABLES
    session,   \* SessionManager: the token, its last activity, the live nonces
    clock,
    tab,       \* the token each tab sends, 0 for none, and if it awaits one
    linking,   \* the time a `link` has read and not yet used, or -1
    minted,    \* nonces minted
    restarts,
    idledOut   \* tokens that were idle past the timeout, no `link` in progress

dashboardVars == <<session, clock, tab, linking, minted, restarts, idledOut>>

NotLinking == -1

Idle(current) == current - session.lastActivity > IdleTimeout

\* _check_locked, of the live token.
Accepts(t) == t = session.token /\ ~Idle(clock)

-----------------------------------------------------------------------------
\* check: only a token that works resets the idle clock, and not a background
\* read's.
SendsRequest(b) ==
    /\ Accepts(tab[b].token)
    /\ session' = [session EXCEPT !.lastActivity = clock]
    /\ UNCHANGED <<clock, tab, linking, minted, restarts, idledOut>>

\* mint_nonce, for a caller that sends the token.
MintsNonce(b) ==
    /\ Accepts(tab[b].token) /\ minted < MaxNonces
    /\ minted' = minted + 1
    /\ session' = [session EXCEPT !.lastActivity = clock, !.nonces = @ \cup {minted + 1}]
    /\ UNCHANGED <<clock, tab, linking, restarts, idledOut>>

\* Mutant of Touched: any nonce revives the session.
TouchedByAny(n) == [session EXCEPT !.nonces = @ \ {n}, !.lastActivity = clock]

\* consume_nonce: a real nonce is spent, and the idle clock reset if it worked.
Touched(n) ==
    [session EXCEPT !.nonces = @ \ {n},
                    !.lastActivity = IF Idle(clock) THEN @ ELSE clock]

ConsumesNonce(b, n) ==
    /\ n \in session.nonces /\ ~tab[b].awaits
    /\ session' = Touched(n)
    /\ tab' = [tab EXCEPT ![b].awaits = ~Idle(clock)]
    /\ UNCHANGED <<clock, linking, minted, restarts, idledOut>>

\* exchange_nonce reads the token again, without the lock, for the cookie.
SetsCookie(b) ==
    /\ tab[b].awaits
    /\ tab' = [tab EXCEPT ![b] = [token |-> session.token, awaits |-> FALSE]]
    /\ UNCHANGED <<session, clock, linking, minted, restarts, idledOut>>

\* relink reads the time before it has the lock.
LinkCalled ==
    /\ linking = NotLinking /\ minted < MaxNonces
    /\ linking' = clock
    /\ UNCHANGED <<session, clock, tab, minted, restarts, idledOut>>

\* Mutant of Renewed: a link revives the token, as the idle clock is reset.
RenewedNever == session

Renewed ==
    IF Idle(linking) THEN [session EXCEPT !.token = @ + 1, !.nonces = {}] ELSE session

Relinks ==
    /\ linking # NotLinking
    /\ session' = [Renewed EXCEPT !.lastActivity = linking, !.nonces = @ \cup {minted + 1}]
    /\ minted' = minted + 1
    /\ linking' = NotLinking
    /\ UNCHANGED <<clock, tab, restarts, idledOut>>

\* A new process has a token of its own; requests in progress are lost.
ServeRestarts ==
    /\ restarts < MaxRestarts
    /\ restarts' = restarts + 1
    /\ session' = [token |-> session.token + 1, lastActivity |-> clock, nonces |-> {}]
    /\ linking' = NotLinking
    /\ tab' = [b \in Tabs |-> [tab[b] EXCEPT !.awaits = FALSE]]
    /\ UNCHANGED <<clock, minted, idledOut>>

ClockTicks ==
    /\ clock < MaxTicks
    /\ clock' = clock + 1
    /\ idledOut' = IF Idle(clock + 1) /\ linking = NotLinking
                   THEN idledOut \cup {session.token} ELSE idledOut
    /\ UNCHANGED <<session, tab, linking, minted, restarts>>

-----------------------------------------------------------------------------
DashboardInit ==
    /\ session = [token |-> 1, lastActivity |-> 0, nonces |-> {}]
    /\ clock = 0 /\ minted = 0 /\ restarts = 0
    /\ tab = [b \in Tabs |-> [token |-> 0, awaits |-> FALSE]]
    /\ linking = NotLinking
    /\ idledOut = {}

DashboardNext ==
    \/ \E b \in Tabs : \/ SendsRequest(b) \/ MintsNonce(b) \/ SetsCookie(b)
                       \/ \E n \in 1..MaxNonces : ConsumesNonce(b, n)
    \/ LinkCalled \/ Relinks \/ ServeRestarts \/ ClockTicks

DashboardSpec == DashboardInit /\ [][DashboardNext]_dashboardVars

-----------------------------------------------------------------------------
(* Properties.                                                             *)

\* "a token that leaked before the expiry stays dead" (core/daemon.py): a token
\* that has been idle past the timeout is never accepted again, whatever links
\* are asked for, nonces are spent and processes restarted afterwards.  A link
\* that read the clock before the expiry and gets the lock after it is excepted.
IdledOutStaysOut == \A t \in idledOut : ~Accepts(t)
=============================================================================
