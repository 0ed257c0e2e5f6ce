-------------------------- MODULE RateLimiterProofs --------------------------
(***************************************************************************)
(* Proofs about the request limiter, for any number of clients, any limit,  *)
(* any window and any size of the table, and for logs of any length.        *)
(***************************************************************************)
EXTENDS RateLimiter, SequenceTheorems, TLAPS

Requests == [at : Nat, window : Nat]

-----------------------------------------------------------------------------
(* Facts about the table and the logs.                                      *)

\* What the entries of a log are.
LEMMA LogFacts ==
    ASSUME NEW log \in Seq(Requests)
    PROVE  /\ Len(log) \in Nat
           /\ DOMAIN log = 1 .. Len(log)
           /\ \A i \in DOMAIN log :
                    log[i] \in Requests /\ log[i].window \in Nat /\ log[i].at \in Nat
<1>1. Len(log) \in Nat /\ DOMAIN log = 1 .. Len(log)
  BY LenProperties
<1>2. \A i \in DOMAIN log : log[i] \in Requests
  BY <1>1, ElementOfSeq
<1>. QED
  BY <1>1, <1>2 DEF Requests

\* The sweep leaves an entry alone, or drops one whose window is over.
LEMMA TableOrSwept ==
    ASSUME TypeOK
    PROVE  /\ Table \in [Clients -> Entries \cup {Nothing}]
           /\ \A c \in Clients :
                \/ Table[c] = counts[c]
                \/ counts[c] # Nothing /\ Closed(counts[c]) /\ Table[c] = Nothing
BY DEF Table, Swept, TypeOK

\* A sweep, when there is one, leaves no entry whose window is over.
LEMMA SweptIsRecent ==
    ASSUME TypeOK, Cardinality(Tracked) > SweepAt,
           NEW c \in Clients, Table[c] # Nothing
    PROVE  ~Closed(Table[c])
BY DEF Table, Swept, TypeOK

\* What allow() works on is an entry: the client's own, or the default one of a
\* client that the table does not hold (any more).
LEMMA EntryType ==
    ASSUME TypeOK, NEW c \in Clients
    PROVE  /\ Entry(c) \in Entries
           /\ \/ Table[c] # Nothing /\ Entry(c) = counts[c]
              \/ /\ Table[c] = Nothing /\ Entry(c) = [started |-> 0, count |-> 0]
                 /\ counts[c] # Nothing => Closed(counts[c])
<1>1. [started |-> 0, count |-> 0] \in Entries
  BY DEF Entries
<1>2. Nothing \notin Entries
  BY LimiterAssumption DEF Entries
<1>. QED
  BY <1>1, <1>2, TableOrSwept DEF Entry

\* A log with one more request.
LEMMA Logged ==
    ASSUME NEW log \in Seq(Requests), NEW x \in Requests
    PROVE  /\ Append(log, x) \in Seq(Requests)
           /\ Len(log) \in Nat
           /\ DOMAIN log = 1 .. Len(log)
           /\ \A i \in DOMAIN log : log[i] \in Requests
           /\ Len(Append(log, x)) = Len(log) + 1
           /\ DOMAIN Append(log, x) = 1 .. Len(log) + 1
           /\ \A i \in 1 .. Len(log) : Append(log, x)[i] = log[i]
           /\ Append(log, x)[Len(log) + 1] = x
BY AppendProperties, LogFacts

-----------------------------------------------------------------------------
(* The inductive invariant.                                                 *)

\* Types after a request that was let through.
LEMMA AdmitTypes ==
    ASSUME TypeOK, NEW c \in Clients, NEW entry \in Entries, Admit(c, entry)
    PROVE  TypeOK'
<1>1. Table \in [Clients -> Entries \cup {Nothing}]
  BY TableOrSwept
<1>2. now \in Nat
  BY LimiterAssumption DEF TypeOK
<1>3. [at |-> now, window |-> entry.started] \in Requests
  BY <1>2 DEF Entries, Requests
<1>4. admitted \in [Clients -> Seq(Requests)]
  BY DEF TypeOK, Requests
<1>5. Append(admitted[c], [at |-> now, window |-> entry.started]) \in Seq(Requests)
  BY <1>3, <1>4, Logged
<1>6. admitted' \in [Clients -> Seq(Requests)]
  BY <1>4, <1>5 DEF Admit
<1>7. counts' \in [Clients -> Entries \cup {Nothing}]
  BY <1>1 DEF Admit
<1>. QED
  BY <1>6, <1>7 DEF Admit, TypeOK, Requests

\* A client that is not being served keeps its log and, unless its window is
\* over, its entry.
LEMMA OthersWindowed ==
    ASSUME TypeOK, NEW d \in Clients, Windowed(d),
           now' = now, admitted'[d] = admitted[d], counts'[d] = Table[d]
    PROVE  Windowed(d)'
<1>. DEFINE log == admitted[d]
<1>1. log \in Seq(Requests) /\ now \in Nat /\ Window \in Nat \ {0}
  BY LimiterAssumption DEF TypeOK, Requests
<1>2. /\ DOMAIN log = 1 .. Len(log) /\ Len(log) \in Nat
      /\ \A i \in DOMAIN log : log[i].window \in Nat /\ log[i].at \in Nat
  BY <1>1, LogFacts
<1>3. CASE counts'[d] = counts[d]
  BY <1>3 DEF Windowed
<1>4. CASE counts[d] # Nothing /\ Closed(counts[d]) /\ counts'[d] = Nothing
  <2>1. counts[d].started \in Nat /\ counts[d].started + Window <= now
        /\ counts[d].count \in Nat
    BY <1>1, <1>4 DEF TypeOK, Entries, Closed
  <2>2. \A i \in DOMAIN log : log[i].window + Window <= now
    BY <1>1, <1>2, <1>4, <2>1 DEF Windowed
  <2>. QED
    BY <1>4, <2>2 DEF Windowed
<1>. QED
  BY <1>3, <1>4, TableOrSwept

\* A request that is let through extends the log of its client by one, within
\* the window of the entry it leaves.
LEMMA AdmitWindowed ==
    ASSUME TypeOK, NEW c \in Clients, Windowed(c), NEW entry \in Entries,
           Admit(c, entry),
           entry.started <= now, now < entry.started + Window,
           entry.count \in 1 .. Limit, entry.count <= Len(admitted[c]) + 1,
           \A i \in DOMAIN admitted[c] :
                IF i > Len(admitted[c]) + 1 - entry.count
                    THEN admitted[c][i].window = entry.started
                    ELSE admitted[c][i].window + Window <= entry.started
    PROVE  Windowed(c)'
<1>. DEFINE log == admitted[c]
            x == [at |-> now, window |-> entry.started]
            new == Append(log, x)
<1>1. /\ log \in Seq(Requests) /\ now \in Nat
      /\ Window \in Nat \ {0} /\ Limit \in Nat \ {0}
      /\ entry.started \in Nat /\ entry.count \in Nat
  BY LimiterAssumption DEF TypeOK, Requests, Entries
<1>2. x \in Requests /\ x.at = now /\ x.window = entry.started
  BY <1>1 DEF Requests
<1>3. /\ new \in Seq(Requests) /\ Len(log) \in Nat
      /\ DOMAIN log = 1 .. Len(log) /\ DOMAIN new = 1 .. Len(log) + 1
      /\ Len(new) = Len(log) + 1
      /\ \A i \in 1 .. Len(log) : new[i] = log[i] /\ log[i] \in Requests
      /\ new[Len(log) + 1] = x
  BY <1>1, <1>2, Logged
<1>4. admitted'[c] = new /\ counts'[c] = entry /\ now' = now /\ counts'[c] # Nothing
  BY TableOrSwept, LimiterAssumption DEF Admit, TypeOK, Entries
<1>5. \A i \in 1 .. Len(log) :
            /\ log[i].window \in Nat /\ log[i].at \in Nat
            /\ log[i].window <= log[i].at /\ log[i].at < log[i].window + Window
            /\ log[i].at <= now
            /\ i + Limit \in 1 .. Len(log) =>
                    log[i].window + Window <= log[i + Limit].window
            /\ i > Len(log) + 1 - entry.count => log[i].window = entry.started
            /\ i <= Len(log) + 1 - entry.count =>
                    log[i].window + Window <= entry.started
  <2>1. \A i \in 1 .. Len(log) : log[i].window \in Nat /\ log[i].at \in Nat
    BY <1>1, LogFacts
  <2>2. \A i \in 1 .. Len(log) :
            /\ log[i].window <= log[i].at /\ log[i].at < log[i].window + Window
            /\ log[i].at <= now
            /\ i + Limit \in 1 .. Len(log) =>
                    log[i].window + Window <= log[i + Limit].window
    BY <1>3 DEF Windowed
  <2>3. \A i \in 1 .. Len(log) :
            /\ i > Len(log) + 1 - entry.count => log[i].window = entry.started
            /\ ~(i > Len(log) + 1 - entry.count) =>
                    log[i].window + Window <= entry.started
    BY <1>3
  <2>. HIDE DEF log
  <2>. QED
    BY <1>1, <1>3, <2>1, <2>2, <2>3
<1>. HIDE DEF log, x, new
<1>6. \A i \in DOMAIN new :
            /\ new[i].window <= new[i].at /\ new[i].at < new[i].window + Window
            /\ new[i].at <= now
  BY <1>1, <1>2, <1>3, <1>5
<1>7. \A i \in DOMAIN new : i + Limit \in DOMAIN new =>
            new[i].window + Window <= new[i + Limit].window
  <2>. SUFFICES ASSUME NEW i \in DOMAIN new, i + Limit \in DOMAIN new
                PROVE  new[i].window + Window <= new[i + Limit].window
    OBVIOUS
  <2>1. i \in 1 .. Len(log) /\ new[i] = log[i]
    BY <1>1, <1>3
  <2>2. CASE i + Limit \in 1 .. Len(log)
    BY <1>3, <1>5, <2>1, <2>2
  <2>3. CASE i + Limit = Len(log) + 1
    <3>1. i <= Len(log) + 1 - entry.count
      BY <1>1, <1>3, <2>1, <2>3
    <3>2. log[i].window + Window <= entry.started
      BY <1>5, <2>1, <3>1
    <3>3. new[i + Limit].window = entry.started
      BY <1>2, <1>3, <2>3
    <3>. QED
      BY <2>1, <3>2, <3>3
  <2>. QED
    BY <1>1, <1>3, <2>1, <2>2, <2>3
<1>8. \A i \in DOMAIN new :
            IF i > Len(new) - entry.count
                THEN new[i].window = entry.started
                ELSE new[i].window + Window <= entry.started
  <2>. SUFFICES ASSUME NEW i \in DOMAIN new
                PROVE  IF i > Len(new) - entry.count
                            THEN new[i].window = entry.started
                            ELSE new[i].window + Window <= entry.started
    OBVIOUS
  <2>1. CASE i \in 1 .. Len(log)
    <3>1. new[i] = log[i] /\ Len(new) - entry.count = Len(log) + 1 - entry.count
      BY <1>3, <2>1
    <3>2. /\ i > Len(log) + 1 - entry.count => log[i].window = entry.started
          /\ ~(i > Len(log) + 1 - entry.count) => log[i].window + Window <= entry.started
      BY <1>1, <1>3, <1>5, <2>1
    <3>. QED
      BY <3>1, <3>2
  <2>2. CASE i = Len(log) + 1
    BY <1>1, <1>2, <1>3, <2>2
  <2>. QED
    BY <1>3, <2>1, <2>2
<1>9. entry.count <= Limit /\ entry.count <= Len(new)
  BY <1>3 DEF log
<1>. QED
  BY <1>4, <1>6, <1>7, <1>8, <1>9 DEF Windowed

\* When the window of a client is over, so are those of all its requests.
LEMMA ClosedIsPast ==
    ASSUME LimiterInv, NEW c \in Clients,
           counts[c] # Nothing => Closed(counts[c])
    PROVE  \A i \in DOMAIN admitted[c] : admitted[c][i].window + Window <= now
<1>. DEFINE log == admitted[c]
<1>1. TypeOK /\ Windowed(c) /\ now \in Nat /\ log \in Seq(Requests) /\ Window \in Nat \ {0}
  BY LimiterAssumption DEF LimiterInv, TypeOK, Requests
<1>2. \A i \in DOMAIN log : log[i].window \in Nat
  BY <1>1, LogFacts
<1>3. CASE counts[c] = Nothing
  BY <1>1, <1>3 DEF Windowed
<1>4. CASE counts[c] # Nothing
  <2>. DEFINE started == counts[c].started
  <2>1. started \in Nat /\ started + Window <= now
    BY <1>1, <1>4 DEF TypeOK, Entries, Closed
  <2>2. \A i \in DOMAIN log : IF i > Len(log) - counts[c].count
                                  THEN log[i].window = started
                                  ELSE log[i].window + Window <= started
    BY <1>1, <1>4 DEF Windowed
  <2>3. \A i \in DOMAIN log : log[i].window = started \/ log[i].window + Window <= started
    BY <2>2
  <2>. HIDE DEF started, log
  <2>4. \A i \in DOMAIN log : log[i].window + Window <= now
    BY <1>1, <1>2, <2>1, <2>3
  <2>. QED
    BY <2>4 DEF log
<1>. QED
  BY <1>3, <1>4

\* A request that opens a window, or is counted in one, meets the conditions of
\* the lemma above.
LEMMA OpenWindowed ==
    ASSUME LimiterInv, NEW c \in Clients, OpenWindow(c)
    PROVE  TypeOK' /\ Windowed(c)'
<1>. DEFINE entry == [started |-> now, count |-> 1]
            log == admitted[c]
<1>1. /\ TypeOK /\ Windowed(c) /\ now \in Nat /\ log \in Seq(Requests)
      /\ Window \in Nat \ {0} /\ Limit \in Nat \ {0}
  BY LimiterAssumption DEF LimiterInv, TypeOK, Requests
<1>2. entry \in Entries /\ entry.started = now /\ entry.count = 1
  BY <1>1 DEF Entries
<1>3. /\ Len(log) \in Nat /\ DOMAIN log = 1 .. Len(log)
      /\ \A i \in DOMAIN log : log[i].window \in Nat /\ log[i].at \in Nat
  BY <1>1, LogFacts
<1>4. \A i \in DOMAIN log : log[i].window + Window <= now
  <2>1. counts[c] # Nothing => Closed(counts[c])
    BY <1>1, EntryType DEF OpenWindow
  <2>. QED
    BY <2>1, ClosedIsPast
<1>5. Admit(c, entry)
  BY DEF OpenWindow
<1>6. \A i \in DOMAIN log :
            IF i > Len(log) + 1 - entry.count
                THEN log[i].window = entry.started
                ELSE log[i].window + Window <= entry.started
  BY <1>2, <1>3, <1>4
<1>7. /\ entry.started <= now /\ now < entry.started + Window
      /\ entry.count \in 1 .. Limit /\ entry.count <= Len(log) + 1
  BY <1>1, <1>2, <1>3
<1>. HIDE DEF entry
<1>. QED
  BY <1>1, <1>2, <1>5, <1>6, <1>7, AdmitTypes, AdmitWindowed

LEMMA CountWindowed ==
    ASSUME LimiterInv, NEW c \in Clients, CountRequest(c)
    PROVE  TypeOK' /\ Windowed(c)'
<1>. DEFINE old == Entry(c)
            entry == [old EXCEPT !.count = @ + 1]
            log == admitted[c]
<1>1. /\ TypeOK /\ Windowed(c) /\ now \in Nat /\ log \in Seq(Requests)
      /\ Window \in Nat \ {0} /\ Limit \in Nat \ {0}
  BY LimiterAssumption DEF LimiterInv, TypeOK, Requests
<1>2. /\ old \in Entries /\ old.started \in Nat /\ old.count \in Nat
      /\ now < old.started + Window /\ old.count < Limit
  BY <1>1, EntryType DEF CountRequest, Closed, Entries
<1>3. /\ entry \in Entries /\ entry.started = old.started
      /\ entry.count = old.count + 1
  BY <1>2 DEF Entries
<1>4. /\ Len(log) \in Nat /\ DOMAIN log = 1 .. Len(log)
      /\ \A i \in DOMAIN log : log[i].window \in Nat /\ log[i].at \in Nat
  BY <1>1, LogFacts
<1>5. Admit(c, entry)
  BY DEF CountRequest
<1>. HIDE DEF entry
<1>6. /\ old.started <= now /\ old.count <= Len(log)
      /\ \A i \in DOMAIN log :
            IF i > Len(log) - old.count
                THEN log[i].window = old.started
                ELSE log[i].window + Window <= old.started
  <2>1. CASE Table[c] # Nothing
    <3>1. old = counts[c] /\ counts[c] # Nothing
      BY <1>1, <1>2, <2>1, EntryType, LimiterAssumption DEF Entries
    <3>. QED
      BY <1>1, <3>1 DEF Windowed
  <2>2. CASE Table[c] = Nothing
    <3>1. old.started = 0 /\ old.count = 0 /\ (counts[c] # Nothing => Closed(counts[c]))
      BY <1>1, <2>2, EntryType
    <3>2. \A i \in DOMAIN log : log[i].window + Window <= now
      BY <3>1, ClosedIsPast
    <3>3. now < Window
      BY <1>1, <1>2, <3>1
    <3>4. \A i \in DOMAIN log : FALSE
      BY <1>1, <1>4, <3>2, <3>3
    <3>. QED
      BY <1>1, <1>4, <3>1, <3>4
  <2>. QED
    BY <2>1, <2>2
<1>. HIDE DEF old
<1>7. \A i \in DOMAIN log :
            IF i > Len(log) + 1 - entry.count
                THEN log[i].window = entry.started
                ELSE log[i].window + Window <= entry.started
  BY <1>2, <1>3, <1>4, <1>6
<1>8. entry.count \in 1 .. Limit /\ entry.count <= Len(log) + 1
  BY <1>1, <1>2, <1>3, <1>4, <1>6
<1>. QED
  BY <1>1, <1>2, <1>3, <1>5, <1>6, <1>7, <1>8, AdmitTypes, AdmitWindowed

\* A request that is turned down leaves its client's entry as it found it, and
\* that entry explains the refusal.
LEMMA RefuseWindowed ==
    ASSUME LimiterInv, NEW c \in Clients, Refuse(c)
    PROVE  TypeOK' /\ Windowed(c)' /\ RefusedForCause'
<1>. DEFINE log == admitted[c]
<1>1. /\ TypeOK /\ Windowed(c) /\ now \in Nat /\ log \in Seq(Requests)
      /\ Window \in Nat \ {0} /\ Limit \in Nat \ {0}
  BY LimiterAssumption DEF LimiterInv, TypeOK, Requests
<1>2. /\ Len(log) \in Nat /\ DOMAIN log = 1 .. Len(log)
      /\ \A i \in DOMAIN log : log[i].window \in Nat /\ log[i].at \in Nat
  BY <1>1, LogFacts
<1>3. Entry(c) = counts[c] /\ counts[c] # Nothing /\ counts[c] \in Entries
  BY <1>1, EntryType, LimiterAssumption DEF Refuse, Entries
<1>4. /\ counts[c].count \in Nat /\ counts[c].started \in Nat
      /\ counts[c].count >= Limit /\ now < counts[c].started + Window
  BY <1>1, <1>3 DEF Refuse, Closed, Entries
<1>5. counts'[c] = counts[c] /\ UNCHANGED <<now, admitted>> /\ refused' = c
  BY <1>1, <1>3, TableOrSwept DEF Refuse
<1>6. TypeOK'
  <2>1. counts' \in [Clients -> Entries \cup {Nothing}]
    BY <1>1, <1>3, TableOrSwept DEF Refuse
  <2>. QED
    BY <1>1, <1>5, <2>1 DEF TypeOK
<1>7. Windowed(c)'
  BY <1>1, <1>5 DEF Windowed
<1>8. RefusedForCause'
  <2>. DEFINE k == Len(log) - Limit + 1
  <2>1. counts[c].count = Limit /\ Limit <= Len(log)
    BY <1>1, <1>2, <1>3, <1>4 DEF Windowed
  <2>2. k \in DOMAIN log
    BY <1>1, <1>2, <2>1
  <2>3. log[k].window = counts[c].started
    <3>1. IF k > Len(log) - counts[c].count
            THEN log[k].window = counts[c].started
            ELSE log[k].window + Window <= counts[c].started
      BY <1>1, <1>3, <2>2 DEF Windowed
    <3>2. k > Len(log) - counts[c].count
      BY <1>1, <1>2, <2>1
    <3>. HIDE DEF k, log
    <3>. QED
      BY <3>1, <3>2
  <2>4. counts[c].started <= log[k].at
    BY <1>1, <2>2, <2>3 DEF Windowed
  <2>5. now - log[k].at < Window
    <3>1. log[k].at \in Nat
      BY <1>2, <2>2
    <3>. HIDE DEF k, log
    <3>. QED
      BY <1>1, <1>4, <2>4, <3>1
  <2>6. (RefusedForCause <=>
            (refused # Nothing =>
                /\ Len(admitted[refused]) >= Limit
                /\ now - admitted[refused][Len(admitted[refused]) - Limit + 1].at < Window))'
    BY DEF RefusedForCause
  <2>. QED
    BY <1>1, <1>2, <1>5, <2>1, <2>5, <2>6
<1>. QED
  BY <1>6, <1>7, <1>8

\* The clock only closes windows.
LEMMA TickWindowed ==
    ASSUME LimiterInv, Tick
    PROVE  LimiterInv'
<1>1. TypeOK' /\ now \in Nat /\ now' = now + 1
  BY LimiterAssumption DEF LimiterInv, TypeOK, Tick
<1>2. ASSUME NEW c \in Clients PROVE Windowed(c)'
  <2>. DEFINE log == admitted[c]
  <2>1. log \in Seq(Requests) /\ Windowed(c) /\ Window \in Nat \ {0}
        /\ UNCHANGED <<admitted, counts>>
    BY LimiterAssumption DEF LimiterInv, TypeOK, Requests, Tick
  <2>2. \A i \in DOMAIN log : log[i].window \in Nat /\ log[i].at \in Nat
    BY <2>1, LogFacts
  <2>3. counts[c] # Nothing => counts[c].started \in Nat
    BY DEF LimiterInv, TypeOK, Entries
  <2>4. \A i \in DOMAIN log : log[i].at <= now => log[i].at <= now'
    BY <1>1, <2>2
  <2>5. \A i \in DOMAIN log :
            log[i].window + Window <= now => log[i].window + Window <= now'
    BY <1>1, <2>1, <2>2
  <2>6. counts[c] # Nothing /\ counts[c].started <= now => counts[c].started <= now'
    BY <1>1, <2>3
  <2>. QED
    BY <2>1, <2>4, <2>5, <2>6 DEF Windowed
<1>. QED
  BY <1>1, <1>2 DEF LimiterInv

\* The inductive invariant, with the reason for the last refusal.
Inv == LimiterInv /\ RefusedForCause

\* A clock that shows any time, and nobody served.
LEMMA InitInv == Init => Inv
<1>. SUFFICES ASSUME Init PROVE Inv
  OBVIOUS
<1>1. <<>> \in Seq(Requests) /\ DOMAIN <<>> = {}
  BY EmptySeq
<1>2. TypeOK
  BY <1>1 DEF Init, TypeOK, Requests
<1>3. \A c \in Clients : Windowed(c)
  BY <1>1 DEF Init, Windowed
<1>. QED
  BY <1>2, <1>3 DEF Inv, LimiterInv, RefusedForCause, Init

\* Every step keeps it.
LEMMA NextInv == Inv /\ [Next]_vars => Inv'
<1>. SUFFICES ASSUME Inv, [Next]_vars PROVE Inv'
  OBVIOUS
<1>0. LimiterInv /\ TypeOK /\ \A c \in Clients : Windowed(c)
  BY DEF Inv, LimiterInv
<1>1. CASE UNCHANGED vars
  BY <1>1 DEF vars, Inv, LimiterInv, TypeOK, Windowed, RefusedForCause
<1>2. CASE Tick
  BY <1>0, <1>2, TickWindowed DEF Tick, Inv, RefusedForCause
<1>3. ASSUME NEW c \in Clients, OpenWindow(c) \/ CountRequest(c) PROVE Inv'
  <2>1. TypeOK' /\ Windowed(c)'
    BY <1>0, <1>3, OpenWindowed, CountWindowed
  <2>2. \E entry : Admit(c, entry)
    BY <1>3 DEF OpenWindow, CountRequest
  <2>3. refused' = Nothing /\ now' = now
    BY <2>2 DEF Admit
  <2>4. \A d \in Clients : d # c => admitted'[d] = admitted[d] /\ counts'[d] = Table[d]
    BY <1>0, <2>2, TableOrSwept DEF Admit, TypeOK
  <2>5. \A d \in Clients : d # c => Windowed(d)'
    BY <1>0, <2>3, <2>4, OthersWindowed
  <2>. QED
    BY <2>1, <2>3, <2>5 DEF Inv, LimiterInv, RefusedForCause
<1>4. ASSUME NEW c \in Clients, Refuse(c) PROVE Inv'
  <2>1. TypeOK' /\ Windowed(c)' /\ RefusedForCause'
    BY <1>0, <1>4, RefuseWindowed
  <2>2. \A d \in Clients : d # c => admitted'[d] = admitted[d] /\ counts'[d] = Table[d]
    BY <1>0, <1>4, TableOrSwept DEF Refuse
  <2>3. \A d \in Clients : d # c => Windowed(d)'
    BY <1>0, <1>4, <2>2, OthersWindowed DEF Refuse
  <2>. QED
    BY <2>1, <2>3 DEF Inv, LimiterInv
<1>. QED
  BY <1>1, <1>2, <1>3, <1>4 DEF Next

LEMMA InvHolds == Spec => []Inv
BY InitInv, NextInv, PTL DEF Spec

-----------------------------------------------------------------------------
(* What follows.                                                            *)

\* Every log is a run of windows that do not overlap, each with at most Limit
\* requests, and the table counts the last of them.
THEOREM LimiterInvHolds == Spec => []LimiterInv
<1>1. Inv => LimiterInv
  BY DEF Inv
<1>. QED
  BY <1>1, InvHolds, PTL

\* The types of the clock, the table and the logs.
THEOREM LimiterTypes == Spec => []TypeOK
<1>1. Inv => TypeOK
  BY DEF Inv, LimiterInv
<1>. QED
  BY <1>1, InvHolds, PTL

\* A request of one window and a request of the next but one.
LEMMA TwoWindowsApart ==
    ASSUME NEW at \in Nat, NEW later \in Nat,
           NEW w1 \in Nat, NEW w2 \in Nat, NEW w3 \in Nat,
           at < w1 + Window, w1 + Window <= w2, w2 + Window <= w3, w3 <= later
    PROVE  later - at > Window
BY LimiterAssumption

\* Any 2 * Limit + 1 requests of a client that were let through took longer
\* than a window.
THEOREM BurstsBoundedHolds == Spec => []BurstsBounded
<1>1. LimiterInv => BurstsBounded
  <2>. SUFFICES ASSUME LimiterInv, NEW c \in Clients, NEW i \in DOMAIN admitted[c],
                       i + 2 * Limit \in DOMAIN admitted[c]
                PROVE  admitted[c][i + 2 * Limit].at - admitted[c][i].at > Window
    BY DEF BurstsBounded
  <2>. DEFINE log == admitted[c]
  <2>1. log \in Seq(Requests) /\ Windowed(c) /\ Limit \in Nat \ {0} /\ Window \in Nat \ {0}
    BY LimiterAssumption DEF LimiterInv, TypeOK, Requests
  <2>2. /\ Len(log) \in Nat /\ DOMAIN log = 1 .. Len(log)
        /\ \A j \in DOMAIN log : log[j].window \in Nat /\ log[j].at \in Nat
    BY <2>1, LogFacts
  <2>. DEFINE mid == i + Limit
              end == i + 2 * Limit
  <2>3. mid \in DOMAIN log /\ end \in DOMAIN log /\ mid + Limit = end
    BY <2>1, <2>2
  <2>4. log[i].at < log[i].window + Window
    BY <2>1 DEF Windowed
  <2>5. log[i].window + Window <= log[mid].window
    BY <2>1, <2>3 DEF Windowed
  <2>6. log[mid].window + Window <= log[mid + Limit].window
    BY <2>1, <2>3 DEF Windowed
  <2>7. log[end].window <= log[end].at
    BY <2>1, <2>3 DEF Windowed
  <2>8. /\ log[i].window \in Nat /\ log[i].at \in Nat
        /\ log[mid].window \in Nat /\ log[end].window \in Nat /\ log[end].at \in Nat
    BY <2>2, <2>3
  <2>9. log[mid].window + Window <= log[end].window
    BY <2>3, <2>6
  <2>10. log[end].at - log[i].at > Window
    <3>. HIDE DEF log, mid, end
    <3>. QED
      BY <2>4, <2>5, <2>7, <2>8, <2>9, TwoWindowsApart
  <2>. QED
    BY <2>10
<1>. QED
  BY <1>1, LimiterInvHolds, PTL

\* Nobody is turned down who has not used up the limit within a window.
THEOREM RefusedForCauseHolds == Spec => []RefusedForCause
<1>1. Inv => RefusedForCause
  BY DEF Inv
<1>. QED
  BY <1>1, InvHolds, PTL

\* Above its threshold the table is left with clients of the last window.
THEOREM TableHoldsRecentHolds == Spec => TableHoldsRecent
<1>. DEFINE Recent ==
        \A c \in Clients :
            Cardinality(Tracked) > SweepAt /\ counts'[c] # Nothing /\ now' = now
                => ~Closed(counts'[c])
<1>1. Inv /\ [Next]_vars => [Recent]_vars
  <2>. SUFFICES ASSUME TypeOK, Next, NEW d \in Clients, Cardinality(Tracked) > SweepAt,
                       counts'[d] # Nothing, now' = now
                PROVE  ~Closed(counts'[d])
    BY DEF Inv, LimiterInv
  <2>0. now \in Nat /\ Window \in Nat \ {0}
    BY LimiterAssumption DEF TypeOK
  <2>1. ~Tick
    BY <2>0 DEF Tick
  <2>2. PICK c \in Clients : OpenWindow(c) \/ CountRequest(c) \/ Refuse(c)
    BY <2>1 DEF Next
  <2>3. PICK entry \in Entries : counts' = [Table EXCEPT ![c] = entry] /\ ~Closed(entry)
    <3>1. CASE OpenWindow(c)
      <4>1. [started |-> now, count |-> 1] \in Entries
            /\ ~Closed([started |-> now, count |-> 1])
        BY <2>0 DEF Entries, Closed
      <4>. QED
        BY <3>1, <4>1 DEF OpenWindow, Admit
    <3>2. CASE CountRequest(c)
      <4>1. Entry(c) \in Entries
        BY EntryType
      <4>2. [Entry(c) EXCEPT !.count = @ + 1] \in Entries
            /\ [Entry(c) EXCEPT !.count = @ + 1].started = Entry(c).started
        BY <4>1 DEF Entries
      <4>. QED
        BY <3>2, <4>2 DEF CountRequest, Admit, Closed
    <3>3. CASE Refuse(c)
      BY <3>3, EntryType DEF Refuse
    <3>. QED
      BY <2>2, <3>1, <3>2, <3>3
  <2>4. counts'[d] = IF d = c THEN entry ELSE Table[d]
    BY <2>3, TableOrSwept
  <2>. QED
    BY <2>3, <2>4, SweptIsRecent
<1>. QED
  BY <1>1, InvHolds, PTL DEF Spec, TableHoldsRecent
=============================================================================
