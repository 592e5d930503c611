------------------------------ MODULE RateWindow ------------------------------
(***************************************************************************)
(* The limit on requests of one API key: a fixed window that starts with   *)
(* the first request after the last one ended.  With shared control state  *)
(* the window is in the key's row and all servers count in it; without,    *)
(* each server process has its own.                                        *)
(*                                                                         *)
(* The clock is the one of the server, taken to be the same for all, and   *)
(* reading it and counting are one step: the wait for the row's lock is    *)
(* short against the window.                                               *)
(***************************************************************************)
EXTENDS Naturals, FiniteSets, Sequences

CONSTANTS
  Servers,     \* server processes
  RateLimit,   \* rateLimitPerMinute
  Window       \* the length of a window, in ticks

ASSUME RateAssumption ==
  /\ RateLimit \in Nat \ {0} /\ Window \in Nat \ {0}
  /\ IsFiniteSet(Servers) /\ Servers # {}

VARIABLES
  windows,   \* by server: when its window started, and the count in it
  tick,      \* the clock
  admitted   \* the ticks of the requests let through, a history variable

rateVars == <<windows, tick, admitted>>

(* Where a server counts: in the row, or in its own memory.                *)
CountedAt(shared, server) == IF shared THEN Servers ELSE {server}

Starts(w) == tick >= w.started + Window

(* Mutant of Counted: the request that starts a window is not counted.     *)
CountedLater(w) ==
  IF Starts(w) THEN [started |-> tick, count |-> 0]
  ELSE [w EXCEPT !.count = @ + 1]

Counted(w) ==
  IF Starts(w) THEN [started |-> tick, count |-> 1]
  ELSE [w EXCEPT !.count = @ + 1]

(* Mutant of Admits: an off-by-one in the comparison.                      *)
AdmitsOneMore(w) == Starts(w) \/ w.count <= RateLimit

Admits(w) == Starts(w) \/ w.count < RateLimit

(* consumeRateLimit and FixedWindowRateLimiter.consume; a refused request  *)
(* is answered with a 429 and changes nothing.                             *)
ConsumeRateLimit(shared, server) ==
  /\ Admits(windows[server])
  /\ windows' = [s \in Servers |->
       IF s \in CountedAt(shared, server) THEN Counted(windows[s])
       ELSE windows[s]]
  /\ admitted' = Append(admitted, tick)
  /\ UNCHANGED tick

Tick == tick' = tick + 1 /\ UNCHANGED <<windows, admitted>>

RateInit ==
  /\ windows = [s \in Servers |-> [started |-> 0, count |-> 0]]
  /\ tick = 0 /\ admitted = <<>>

(* Whatever the moment a caller begins to count, no more than twice the    *)
(* limit gets through in the length of a window, on each counter: a window *)
(* may end right after it was filled and the next be filled at once.  With *)
(* shared state there is one counter however many servers there are.       *)
AdmittedPerWindow(shared) ==
  \A t \in 0..tick :
    Cardinality({i \in DOMAIN admitted : admitted[i] \in t..(t + Window - 1)})
      <= 2 * RateLimit * (IF shared THEN 1 ELSE Cardinality(Servers))
-----------------------------------------------------------------------------
(* The inductive invariant.                                                *)

RateTypeOK ==
  /\ windows \in [Servers -> [started : Nat, count : 0..RateLimit]]
  /\ tick \in Nat /\ admitted \in Seq(Nat)

(* The requests that one counter let through: since its window started,    *)
(* as many as it counted; before, no more than the limit close to it.      *)
LetThrough(w, admissions) ==
  /\ w.started <= tick
  /\ \A i \in admissions : admitted[i] <= tick /\ admitted[i] < w.started + Window
  /\ Cardinality({i \in admissions : w.started <= admitted[i]}) <= w.count
  /\ \A t \in 0..tick :
       /\ w.started < t + Window =>
            Cardinality({i \in admissions : t <= admitted[i] /\ admitted[i] < w.started})
              <= RateLimit
       /\ Cardinality({i \in admissions : admitted[i] \in t..(t + Window - 1)})
            <= 2 * RateLimit

(* Every request was let through by the row, or by one of the servers.     *)
RateInv(shared) ==
  /\ RateTypeOK
  /\ IF shared
     THEN \A r, s \in Servers :
            windows[r] = windows[s] /\ LetThrough(windows[s], DOMAIN admitted)
     ELSE \E counter \in [DOMAIN admitted -> Servers] : \A s \in Servers :
            LetThrough(windows[s], {i \in DOMAIN admitted : counter[i] = s})
=============================================================================
