---------------------------- MODULE LoginLimiter ----------------------------
(***************************************************************************)
(* The limiter of login attempts per source address, which the web         *)
(* administration and the staff login of the publisher service both use.   *)
(* A call of Allow reads the clock, waits for the mutex, and then forgets  *)
(* the attempts that have left the window and counts the rest.             *)
(*                                                                         *)
(* Instants are modelled by their ages, which grow when time passes, so    *)
(* that the clock needs no bound.  A call is one step, at the moment it    *)
(* has the mutex, with the age that its reading of the clock has by then.  *)
(***************************************************************************)
EXTENDS Integers, Sequences, FiniteSets

CONSTANTS
    IPs,             \* source addresses
    Limit,           \* attempts within the window
    Window,          \* length of the window
    MaxTrackedIPs,   \* addresses after which the map is cleared
    MaxWait          \* the longest a caller waits for the mutex

VARIABLES
    attempts,  \* attempts[ip]: the ages of the clock readings that were recorded
    granted    \* history, granted[ip]: the ages of the calls that returned true

limiterVars == <<attempts, granted>>

ASSUME LimiterAssumption ==
    /\ Limit \in Nat \ {0} /\ MaxTrackedIPs \in Nat
    /\ Window \in Nat /\ MaxWait \in Nat /\ MaxWait < Window

\* A reading that is this old is outside the window of every caller.
MaxAge == Window + MaxWait

LimiterTypeOK ==
    /\ attempts \in [IPs -> Seq(0..MaxAge)]
    /\ granted \in [IPs -> Seq(0..Window)]

LimiterInit ==
    /\ attempts = [ip \in IPs |-> <<>>]
    /\ granted = [ip \in IPs |-> <<>>]

\* Limit is positive, so an address in the map has attempts.
Tracked == {ip \in IPs : attempts[ip] # <<>>}

Full == Cardinality(Tracked) > MaxTrackedIPs
Cleared(a) == IF Full THEN [ip \in IPs |-> <<>>] ELSE a

\* Mutant: an attempt is forgotten an instant early.
EarlyCutoff(age) == age + Window - 1

\* The age of the cutoff of a caller whose reading of the clock has this age.
Cutoff(age) == age + Window

\* The loop that keeps the instants after a cutoff: the ages below limit, in order.
Younger(ages, limit) ==
    LET keep[i \in 0..Len(ages)] ==
            IF i = 0 THEN <<>>
            ELSE IF ages[i] < limit THEN Append(keep[i - 1], ages[i]) ELSE keep[i - 1]
    IN  keep[Len(ages)]

kept(ip, age) == Younger(Cleared(attempts)[ip], Cutoff(age))

Admits(ip, age) == Len(kept(ip, age)) < Limit

Allow(ip, age) ==
    /\ Admits(ip, age)
    /\ attempts' = [Cleared(attempts) EXCEPT ![ip] = Append(kept(ip, age), age)]
    /\ granted' = [Cleared(granted) EXCEPT ![ip] = Append(@, 0)]

Refuse(ip, age) ==
    /\ ~Admits(ip, age)
    /\ attempts' = [Cleared(attempts) EXCEPT ![ip] = kept(ip, age)]
    /\ granted' = Cleared(granted)

Older(ages, oldest) == [i \in DOMAIN ages |-> IF ages[i] < oldest THEN ages[i] + 1 ELSE oldest]

\* Time passes; history forgets what no window of RateBound reaches.
LimiterTick ==
    /\ attempts' = [ip \in IPs |-> Older(attempts[ip], MaxAge)]
    /\ granted' = [ip \in IPs |-> Younger(Older(granted[ip], Window), Window - MaxWait)]

-----------------------------------------------------------------------------
(* "No more than DefaultLoginRateLimit attempts within any window": since  *)
(* the map was last cleared, an address was let in at most Limit times in  *)
(* any stretch of time that is shorter than the window by as long as a     *)
(* caller may wait for the mutex with a reading of the clock in hand.      *)
RateBound == \A ip \in IPs : Len(granted[ip]) <= Limit
=============================================================================
