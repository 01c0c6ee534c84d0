------------------------------- MODULE SignIn -------------------------------
(* The browser sign-in (auth.py: _BrowserSignIn, _SignInAttempt). The SDK   *)
(* asks for an authorization; one attempt per redirect opens a loopback     *)
(* listener and a thread that reads pasted lines, and the two race to       *)
(* deliver one address. Nothing interrupts a blocked read, so a reader      *)
(* outlives its attempt and still takes the next line of the terminal.      *)
(*                                                                          *)
(* A page is what arrives over either way: the address some attempt's URL   *)
(* led to, with a code or an error, or a stray one with neither. Outside    *)
(* the plugin: the SDK, which checks an address's state against the URL it  *)
(* printed last, the browser, and the user's terminal. Time is not kept.    *)
EXTENDS Integers, Sequences, FiniteSets

CONSTANTS
  MaxRounds,   \* bound: authorizations in one login (a 403 asks for a second)
  MaxResults   \* bound: addresses waiting in one attempt's queue

ASSUME SignInAssumption == MaxRounds \in Nat \ {0} /\ MaxResults \in Nat \ {0}

Attempts == 1..MaxRounds

VARIABLES
  flow,       \* "none", "authorizing", "waiting" in callback, "joining" in shutdown,
              \* "exchanging" the code, "in", "failed"
  round,      \* the attempt of the last redirect, 0 before the first
  listener,   \* of an attempt: "none", "open", "held" by a silent connection, "closed"
  reader,     \* of an attempt: "none", "reading", "over", "gone" with the terminal
  stopped,    \* the attempts whose _stop is set
  results,    \* the queue of attempt round; an ended attempt's is out of reach
  taken,      \* what callback took, or its failure
  signed      \* the login stored a pair

signIn == <<flow, round, listener, reader, stopped, results, taken, signed>>

Stray == [of |-> 0, kind |-> "stray"]
Failure == [of |-> 0, kind |-> "error"]
Addresses == [of : Attempts, kind : {"code", "error"}]
Pages == {page \in Addresses : page.of <= round} \cup {Stray}

SignInInit ==
  /\ flow = "none" /\ round = 0 /\ listener = [r \in Attempts |-> "none"]
  /\ reader = [r \in Attempts |-> "none"] /\ stopped = {} /\ results = <<>>
  /\ taken = Stray /\ signed = FALSE

(* The process of the login ends, its threads and its listener with it. *)
SignInGone ==
  /\ flow' = "none" /\ round' = 0 /\ listener' = [r \in Attempts |-> "none"]
  /\ reader' = [r \in Attempts |-> "none"] /\ stopped' = {} /\ results' = <<>>
  /\ taken' = Stray /\ signed' = signed

---------------------------------------------------------------------------
PortHeld == \E r \in Attempts : listener[r] \in {"open", "held"}

(* Mutant: the first attempt's reader serves every authorization. *)
RedirectOnce ==
  /\ flow = "authorizing" /\ round < MaxRounds
  /\ flow' = "waiting" /\ round' = round + 1 /\ results' = <<>>
  /\ \E free \in BOOLEAN :
       listener' = [listener EXCEPT ![round'] = IF free /\ ~PortHeld THEN "open" ELSE "none"]
  /\ reader' = IF round = 0 THEN [reader EXCEPT ![1] = "reading"] ELSE reader
  /\ UNCHANGED <<stopped, taken, signed>>

(* redirect: the listener binds (a busy port leaves the paste alone), the   *)
(* URL goes out, the reader starts.                                         *)
Redirect ==
  /\ flow = "authorizing" /\ round < MaxRounds
  /\ flow' = "waiting" /\ round' = round + 1 /\ results' = <<>>
  /\ \E free \in BOOLEAN :
       listener' = [listener EXCEPT ![round'] = IF free /\ ~PortHeld THEN "open" ELSE "none"]
  /\ reader' = [reader EXCEPT ![round'] = "reading"]
  /\ UNCHANGED <<stopped, taken, signed>>

(* Mutant: a stray page fails the login like an error does. *)
DeliveredAll(page) == <<page>>

(* What a page puts in the queue: nothing when it has no code and no error. *)
Delivered(page) == IF page.kind = "stray" THEN <<>> ELSE <<page>>

(* do_GET: the single-threaded listener answers one connection at a time.   *)
Arrives(r, page) ==
  /\ listener[r] = "open" /\ Len(results) < MaxResults
  /\ results' = IF r = round THEN results \o Delivered(page) ELSE results
  /\ UNCHANGED <<flow, round, listener, reader, stopped, taken, signed>>

(* A connection that sends nothing (a browser's preconnect) holds           *)
(* handle_request until it ends.                                            *)
Silent(r) ==
  /\ \/ listener[r] = "open" /\ listener' = [listener EXCEPT ![r] = "held"]
     \/ /\ listener[r] = "held"
        /\ listener' = [listener EXCEPT ![r] = IF r \in stopped THEN "closed" ELSE "open"]
  /\ UNCHANGED <<flow, round, reader, stopped, results, taken, signed>>

(* _serve sees the stop between two requests and closes the socket. *)
Serves(r) ==
  /\ listener[r] = "open" /\ r \in stopped
  /\ listener' = [listener EXCEPT ![r] = "closed"]
  /\ UNCHANGED <<flow, round, reader, stopped, results, taken, signed>>

(* Mutant: a stopped reader drops the line and reads on. *)
ReadsOn(r, page) ==
  /\ reader[r] = "reading" /\ Len(results) < MaxResults
  /\ LET put == IF r \in stopped THEN <<>> ELSE Delivered(page) IN
       /\ results' = results \o put
       /\ reader' = IF put = <<>> THEN reader ELSE [reader EXCEPT ![r] = "over"]
  /\ UNCHANGED <<flow, round, listener, stopped, taken, signed>>

(* _read_pastes, from one line to the next: a line read after the stop is   *)
(* dropped and ends the thread, a stray one is asked for again.             *)
Reads(r, page) ==
  /\ reader[r] = "reading" /\ Len(results) < MaxResults
  /\ LET put == IF r \in stopped THEN <<>> ELSE Delivered(page) IN
       /\ results' = results \o put
       /\ reader' = IF put = <<>> /\ r \notin stopped THEN reader
                    ELSE [reader EXCEPT ![r] = "over"]
  /\ UNCHANGED <<flow, round, listener, stopped, taken, signed>>

(* The read raises: the terminal is closed, and the listener is left alone. *)
ReadFails(r) ==
  /\ reader[r] = "reading" /\ reader' = [reader EXCEPT ![r] = "gone"]
  /\ UNCHANGED <<flow, round, listener, stopped, results, taken, signed>>

(* callback: the first address in the queue, or at the deadline a failure;  *)
(* both ways its finally runs shutdown, which sets _stop.                   *)
Callback ==
  /\ flow = "waiting" /\ flow' = "joining"
  /\ taken' = IF results = <<>> THEN Failure ELSE Head(results)
  /\ results' = IF results = <<>> THEN results ELSE Tail(results)
  /\ stopped' = stopped \cup {round}
  /\ UNCHANGED <<round, listener, reader, signed>>

(* Mutants: the join has no timeout; there is no join. *)
JoinedForever ==
  /\ flow = "joining" /\ listener[round] \in {"none", "closed"}
  /\ flow' = IF taken.kind = "code" THEN "exchanging" ELSE "failed"
  /\ UNCHANGED <<round, listener, reader, stopped, results, taken, signed>>

JoinedNever ==
  /\ flow = "joining"
  /\ flow' = IF taken.kind = "code" THEN "exchanging" ELSE "failed"
  /\ UNCHANGED <<round, listener, reader, stopped, results, taken, signed>>

(* shutdown's join: a listener that turns every 0.2 s ends within the 2 s,  *)
(* one that a silent connection holds is left behind.                       *)
Joined ==
  /\ flow = "joining" /\ listener[round] # "open"
  /\ flow' = IF taken.kind = "code" THEN "exchanging" ELSE "failed"
  /\ UNCHANGED <<round, listener, reader, stopped, results, taken, signed>>

(* The SDK exchanges the code of its own URL and stores the pair; the       *)
(* request that follows may be answered 403 and ask for another round.      *)
Exchange ==
  /\ flow = "exchanging"
  /\ \/ flow' = "failed" /\ signed' = signed
     \/ /\ taken.of = round /\ signed' = TRUE
        /\ flow' \in {"in", "failed"} \cup (IF round < MaxRounds THEN {"authorizing"} ELSE {})
  /\ UNCHANGED <<round, listener, reader, stopped, results, taken>>

(* What the sign-in does by itself; Reads waits for the terminal. *)
SignInStep ==
  \/ Redirect \/ Callback \/ Joined \/ Exchange
  \/ \E r \in Attempts : Silent(r) \/ Serves(r) \/ ReadFails(r) \/ (\E page \in Pages : Arrives(r, page))

---------------------------------------------------------------------------
SignInTypeOK ==
  /\ flow \in {"none", "authorizing", "waiting", "joining", "exchanging", "in", "failed"}
  /\ round \in 0..MaxRounds /\ stopped \subseteq 1..round /\ signed \in BOOLEAN
  /\ listener \in [Attempts -> {"none", "open", "held", "closed"}]
  /\ reader \in [Attempts -> {"none", "reading", "over", "gone"}]
  /\ results \in Seq(Addresses) /\ Len(results) <= MaxResults
  /\ taken \in Addresses \cup {Stray, Failure}

(* A login that waits with nothing delivered can still be answered: its own *)
(* reader reads, unless the terminal itself is gone, and has not been told  *)
(* to stop, in a second authorization as in the first.                      *)
StillListening ==
  flow = "waiting" /\ results = <<>> =>
    reader[round] \in {"reading", "gone"} /\ round \notin stopped

(* Between two authorizations and once a login is over, no listener waits   *)
(* for a redirect, and one that a silent connection holds has been told to  *)
(* stop: the port is bound no longer than that connection (shutdown).       *)
PortReleased ==
  flow \notin {"waiting", "joining"} =>
    \A r \in Attempts : listener[r] # "open" /\ (listener[r] = "held" => r \in stopped)
============================================================================
