------------------------------- MODULE HttpClient -------------------------------
(***************************************************************************)
(* GET requests of the panel to the public web (http_client.py): the cache *)
(* on disk, the validation of every host, the slots that keep requests to  *)
(* one host apart, redirects and retries.  Threads share the lock and the  *)
(* time of the last slot of each host, and the cache.  An address is its   *)
(* host here; size and type of an answer are among the reasons for which   *)
(* it is refused.  A name is resolved when it is validated, and again by   *)
(* httpx whenever a request connects: what it stands for may change in     *)
(* between, and the client does not look again.                            *)
(***************************************************************************)
EXTENDS PanelThreads

CONSTANTS
  Host, Public,   \* hosts, and those with public addresses at first
  Allowed,        \* sets of hosts callers allow
  Spacing,        \* rate_limit_seconds
  MaxRedirects,   \* MAX_REDIRECTS
  HttpRetries,    \* retries of the client
  MaxClock,       \* bound on time
  MaxMoves        \* bound on how often hosts change their addresses

ASSUME HostsOK ==
  /\ Public \subseteq Host /\ \A a \in Allowed : a \subseteq Host
  /\ {Spacing, MaxRedirects, HttpRetries, MaxClock, MaxMoves} \subseteq Nat

VARIABLES
  clock,   \* time.monotonic()
  last,    \* time of the last slot of a host, for hosts that have had one
  slot,    \* holder of the lock of a host, or a set of none
  cached,  \* hosts with an answer on disk, by the host first asked
  early,   \* history: a slot was taken too soon
  public,  \* hosts that resolve to public addresses now
  moves,   \* number of changes of addresses
  moved    \* history: threads whose host has changed its addresses since it was validated

addresses == <<public, moves, moved>>
httpVars == <<clock, last, slot, cached, early, addresses>>

HttpInit ==
  /\ clock = 0 /\ last = [h \in {} |-> 0] /\ slot = [h \in Host |-> {}]
  /\ cached = {} /\ early = FALSE
  /\ public = Public /\ moves = 0 /\ moved = {}

\* _read_cache: by the address alone.  A file that is torn or too old is none.
Hit(h) == h \in cached

\* The test of a source makes a client that keeps no distance.
Distances == {0, Spacing}

\* The cache is asked first, and ends the call whatever the caller allows.
StartGet(t) ==
  /\ \E h \in Host, allowed \in Allowed, spacing \in Distances :
       \/ Begin(t, [op |-> "get", at |-> "validate", first |-> h, host |-> h, allowed |-> allowed,
                    spacing |-> spacing, redirects |-> 0, tries |-> 0, until |-> 0])
       \/ Hit(h) /\ Begin(t, Idle)
  /\ UNCHANGED httpVars

\* The files of the cache go one by one (one that stays may be too old at any
\* time); requests under way write theirs later.
ClearCache(t) ==
  /\ Begin(t, Idle)
  /\ cached' = {}
  /\ UNCHANGED <<clock, last, slot, early, addresses>>

\* The host is on the caller's list and its addresses are public as it is asked.
ValidUrl(c, h) == h \in c.allowed \cap public

Validate(t) ==
  /\ In(t, "get", "validate")
  /\ IF ValidUrl(call[t], call[t].host) THEN Goto(t, "slot") ELSE End(t)
  /\ UNCHANGED httpVars

\* Mutant: the lock guards nothing.
FreeAlways(h) == TRUE

Free(h) == slot[h] = {}

\* The lock of the host is taken; the wait counts from the last slot.
EnterSlot(t) ==
  /\ In(t, "get", "slot")
  /\ LET c == call[t]
         h == c.host
     IN /\ Free(h)
        /\ slot' = [slot EXCEPT ![h] = @ \cup {t}]
        /\ Become(t, [c EXCEPT !.at = "sleep",
                      !.until = IF h \in DOMAIN last THEN last[h] + c.spacing ELSE 0])
  /\ UNCHANGED <<clock, last, cached, early, addresses>>

\* Mutant: the lock of a host is never given back.
SlotKept(t) == slot

Unlocked(t) == [slot EXCEPT ![call[t].host] = @ \ {t}]

\* After the sleep the slot is dated and the lock given back.
LeaveSlot(t) ==
  /\ In(t, "get", "sleep") /\ clock >= call[t].until
  /\ LET h == call[t].host
     IN /\ early' = (early \/ (h \in DOMAIN last /\ clock < last[h] + call[t].spacing))
        /\ last' = [g \in DOMAIN last \cup {h} |-> IF g = h THEN clock ELSE last[g]]
        /\ slot' = Unlocked(t)
  /\ Become(t, [call[t] EXCEPT !.at = "send", !.until = 0])
  /\ UNCHANGED <<clock, cached, addresses>>

\* 429 or a fault of the server: the same request again after a pause of its own,
\* with no new slot and no new validation.
SendAgain(t) ==
  /\ In(t, "get", "send") /\ call[t].tries < HttpRetries
  /\ Become(t, [call[t] EXCEPT !.tries = @ + 1])
  /\ UNCHANGED httpVars

\* A redirect is validated here and, as the next request, once more.
Redirected(t) ==
  /\ In(t, "get", "send")
  /\ \E h \in Host :
       LET c == [call[t] EXCEPT !.host = h, !.redirects = @ + 1, !.tries = 0, !.at = "validate"]
       IN IF call[t].redirects < MaxRedirects /\ ValidUrl(c, h) THEN Become(t, c) ELSE End(t)
  /\ moved' = moved \ {t}
  /\ UNCHANGED <<clock, last, slot, cached, early, public, moves>>

\* _write_cache: under the address first asked, unless the disk fails.
Kept(c) == {cached, cached \cup {c.first}}

\* An answer of the type and size asked for is kept; any other ends the call.
Answered(t) ==
  /\ In(t, "get", "send")
  /\ cached' \in Kept(call[t])
  /\ End(t)
  /\ moved' = moved \ {t}
  /\ UNCHANGED <<clock, last, slot, early, public, moves>>

HttpStep(t) ==
  \/ StartGet(t) \/ ClearCache(t) \/ Validate(t) \/ EnterSlot(t) \/ LeaveSlot(t)
  \/ SendAgain(t) \/ Redirected(t) \/ Answered(t)

\* Time matters only to those who sleep.
Tick ==
  /\ clock < MaxClock
  /\ \E t \in Thread : call[t].op = "get" /\ call[t].at = "sleep"
  /\ clock' = clock + 1
  /\ UNCHANGED <<threads, last, slot, cached, early, addresses>>

\* A call between its validation and its answer.
Trusting(t) == call[t].op = "get" /\ call[t].at \in {"slot", "sleep", "send"}

\* The name service: a name gets other addresses, public ones or not.
Renumber(h) ==
  /\ moves < MaxMoves /\ moves' = moves + 1
  /\ public' \in {public \ {h}, public \cup {h}} /\ public' # public
  /\ moved' = moved \cup {t \in Thread : Trusting(t) /\ call[t].host = h}
  /\ UNCHANGED <<threads, clock, last, slot, cached, early>>

--------------------------------------------------------------------------------
HttpOK ==
  /\ clock \in 0..MaxClock /\ early \in BOOLEAN
  /\ DOMAIN last \subseteq Host /\ \A h \in DOMAIN last : last[h] \in 0..clock
  /\ cached \subseteq Host /\ public \subseteq Host
  /\ moves \in 0..MaxMoves /\ moved \subseteq Thread
  /\ \A h \in Host : slot[h] = {t \in Thread : call[t].op = "get" /\ call[t].at = "sleep" /\ call[t].host = h}

\* However threads crowd one host, by themselves or by redirects from others, a
\* client that keeps a distance takes its slot no sooner than that distance after
\* the last slot anyone had.  And whatever a request waited for, was redirected to
\* or was retried, it goes to a host its caller allows, one with public addresses
\* unless they have changed since its last validation: a change before that, as
\* between the validation of a redirect and that of the next request, is seen.
PolicyKept ==
  /\ ~early
  /\ \A t \in Thread : In(t, "get", "send") =>
       call[t].host \in call[t].allowed /\ (call[t].host \in public \/ t \in moved)
================================================================================
