----------------------------- MODULE RateLimiter -----------------------------
(***************************************************************************)
(* The review service's fixed-window limiter                                *)
(* (src/firm_memory/review/throttle.py), called by the middleware of        *)
(* review/app.py for every request under /api/.  The middleware runs on the *)
(* event loop, so requests are taken one at a time.                         *)
(***************************************************************************)
EXTENDS Integers, Sequences, FiniteSets

CONSTANTS
    Clients,   \* socket addresses
    Limit,     \* requests per window; the settings insist on at least one
    Window,    \* WINDOW_SECONDS
    SweepAt,   \* _SWEEP_AT: a table larger than this is swept
    LastTick,  \* bound: the clock stops here
    Nothing    \* not in the table

ASSUME LimiterAssumption ==
    /\ IsFiniteSet(Clients)
    /\ Limit \in Nat \ {0}
    /\ Window \in Nat \ {0}
    /\ SweepAt \in Nat
    /\ LastTick \in Nat
    /\ Nothing \notin [started : Nat, count : Nat]

Entries == [started : Nat, count : Nat]

VARIABLES
    now,       \* monotonic()
    counts,    \* the table: client -> its window and count
    \* Observations.
    admitted,  \* by client, the requests let through: when, and in which window
    refused    \* whether the request just made was turned down, and whose it was

vars == <<now, counts, admitted, refused>>

TypeOK ==
    /\ now \in 0 .. LastTick
    /\ counts \in [Clients -> Entries \cup {Nothing}]
    /\ admitted \in [Clients -> Seq([at : Nat, window : Nat])]
    /\ refused \in Clients \cup {Nothing}

\* The machine may have been up for any time when the service starts.
Init ==
    /\ now \in 0 .. LastTick
    /\ counts = [c \in Clients |-> Nothing]
    /\ admitted = [c \in Clients |-> <<>>]
    /\ refused = Nothing

-----------------------------------------------------------------------------
Tracked == {c \in Clients : counts[c] # Nothing}

Closed(entry) == now - entry.started >= Window

\* A slip: the sweep drops the clients whose window is still open.
SweptOfOpen ==
    [c \in Clients |->
        IF counts[c] # Nothing /\ ~Closed(counts[c]) THEN Nothing ELSE counts[c]]

\* _sweep()
Swept ==
    [c \in Clients |->
        IF counts[c] # Nothing /\ Closed(counts[c]) THEN Nothing ELSE counts[c]]

\* A slip: the sweep is never called.
TableNeverSwept == counts

Table == IF Cardinality(Tracked) > SweepAt THEN Swept ELSE counts

\* The table is a defaultdict: a new client starts at zero in a window that
\* began when the clock did.
Entry(c) == IF Table[c] = Nothing THEN [started |-> 0, count |-> 0] ELSE Table[c]

Admit(c, entry) ==
    /\ counts' = [Table EXCEPT ![c] = entry]
    /\ admitted' = [admitted EXCEPT ![c] =
                        Append(@, [at |-> now, window |-> entry.started])]
    /\ refused' = Nothing
    /\ UNCHANGED now

\* allow(), the window over: a new one starts with this request.
OpenWindow(c) ==
    /\ Closed(Entry(c))
    /\ Admit(c, [started |-> now, count |-> 1])

\* Slips: a count of what is left, taken from zero; one request too many.
CountDown(c) ==
    /\ ~Closed(Entry(c))
    /\ Entry(c).count < Limit
    /\ Admit(c, [Entry(c) EXCEPT !.count = @ - 1])

CountOneMore(c) ==
    /\ ~Closed(Entry(c))
    /\ Entry(c).count <= Limit
    /\ Admit(c, [Entry(c) EXCEPT !.count = @ + 1])

\* allow(), within the window and the limit.
CountRequest(c) ==
    /\ ~Closed(Entry(c))
    /\ Entry(c).count < Limit
    /\ Admit(c, [Entry(c) EXCEPT !.count = @ + 1])

\* A slip in the comparison: the last request of the window refused.
RefuseEarly(c) ==
    /\ ~Closed(Entry(c))
    /\ Entry(c).count >= Limit - 1
    /\ counts' = [Table EXCEPT ![c] = Entry(c)]
    /\ refused' = c
    /\ UNCHANGED <<now, admitted>>

\* allow(), the limit reached.
Refuse(c) ==
    /\ ~Closed(Entry(c))
    /\ Entry(c).count >= Limit
    /\ counts' = [Table EXCEPT ![c] = Entry(c)]
    /\ refused' = c
    /\ UNCHANGED <<now, admitted>>

Tick ==
    /\ now < LastTick
    /\ now' = now + 1
    /\ refused' = Nothing
    /\ UNCHANGED <<counts, admitted>>

Next == Tick \/ \E c \in Clients : OpenWindow(c) \/ CountRequest(c) \/ Refuse(c)

Spec == Init /\ [][Next]_vars

-----------------------------------------------------------------------------
(* What the limit is worth.                                                 *)

\* A fixed window admits a burst at its end and another at the start of the
\* next, but no more: any 2 * Limit + 1 requests of a client that were let
\* through, sweeps and new windows included, took longer than a window.
BurstsBounded ==
    \A c \in Clients : \A i \in DOMAIN admitted[c] :
        i + 2 * Limit \in DOMAIN admitted[c] =>
            admitted[c][i + 2 * Limit].at - admitted[c][i].at > Window

\* Nobody is turned down who has not used up the limit within the last window:
\* a slow client never sees a 429.
RefusedForCause ==
    refused # Nothing =>
        LET log == admitted[refused]
        IN  /\ Len(log) >= Limit
            /\ now - log[Len(log) - Limit + 1].at < Window

\* throttle.py:22: the table is swept so that many addresses "cannot grow it
\* without limit".  What the sweep achieves: above its threshold the table only
\* holds clients of the last window and the one just served.
TableHoldsRecent ==
    [][\A c \in Clients :
        Cardinality(Tracked) > SweepAt /\ counts'[c] # Nothing /\ now' = now
            => ~Closed(counts'[c])]_vars

-----------------------------------------------------------------------------
(* The inductive invariant behind BurstsBounded.                            *)

\* A client's log is a run of windows that do not overlap, each with at most
\* Limit requests; the table's count is the length of the last run, and a
\* client that is not in the table has no open window.
Windowed(c) ==
    LET log == admitted[c]
    IN  /\ \A i \in DOMAIN log :
                /\ log[i].window <= log[i].at /\ log[i].at < log[i].window + Window
                /\ log[i].at <= now
        /\ \A i \in DOMAIN log : i + Limit \in DOMAIN log =>
                log[i].window + Window <= log[i + Limit].window
        /\ counts[c] = Nothing =>
                \A i \in DOMAIN log : log[i].window + Window <= now
        /\ counts[c] # Nothing =>
                /\ counts[c].count <= Limit /\ counts[c].count <= Len(log)
                /\ counts[c].started <= now
                /\ \A i \in DOMAIN log :
                        IF i > Len(log) - counts[c].count
                            THEN log[i].window = counts[c].started
                            ELSE log[i].window + Window <= counts[c].started

LimiterInv == TypeOK /\ \A c \in Clients : Windowed(c)
=============================================================================
