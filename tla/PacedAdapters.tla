---------------------------- MODULE PacedAdapters ----------------------------
(***************************************************************************)
(* Searches of the OpenAlex and of the Reddit adapter in threads that      *)
(* share the adapter and its throttle.  Every request, a retry or a login  *)
(* included, is sent inside a with block of its own.                       *)
(*                                                                         *)
(* OpenAlex repeats a request that failed in transit or with a 5xx status. *)
(* Reddit logs in for a token, which the threads keep in a field without a *)
(* lock: it is tested and read again, stored before its expiry time, and   *)
(* dropped when a search is answered 401.                                  *)
(***************************************************************************)
EXTENDS ProviderThrottle

CONSTANTS Retries,   \* max_transient_retries
          MaxTokens  \* bound: tokens Reddit issues in one behaviour

ASSUME RetriesAssumption   == Retries \in 0..3
ASSUME MaxTokensAssumption == MaxTokens \in Nat

\* No token: the field is None.
NoToken == 0
Tokens  == 1..MaxTokens

VARIABLES site,     \* the adapter the threads share
          phase,    \* where each thread is in its search
          tries,    \* `attempt' of its request loop
          sends,    \* ghost: requests it has sent with the permit it holds
          token,    \* _token
          fresh,    \* monotonic() < _token_expires_at
          bearer,   \* the token its search goes on with
          issued,   \* tokens issued so far; they are numbered
          refused   \* ghost: tokens dropped after a 401

search == <<phase, tries, sends>>
login  == <<token, fresh, bearer, issued, refused>>
pvars  == <<vars, site, search, login>>

Phase == {"none", "check", "read", "login", "store", "stamp", "return", "request", "drop"}

PInit ==
  /\ Init
  /\ site \in {"openalex", "reddit"}
  /\ phase = [t \in Threads |-> "none"] /\ tries = [t \in Threads |-> 0]
  /\ sends = [t \in Threads |-> 0]
  /\ token = NoToken /\ fresh = FALSE
  /\ bearer = [t \in Threads |-> NoToken]
  /\ issued = 0 /\ refused = {}

At(t, p)   == phase[t] = p
Move(t, p) == phase' = [phase EXCEPT ![t] = p]

\* The search returns or raises, and its locals go.
Ends(t) ==
  /\ Move(t, "none")
  /\ tries' = [tries EXCEPT ![t] = 0]
  /\ bearer' = [bearer EXCEPT ![t] = NoToken]
field == <<token, fresh, issued>>

-----------------------------------------------------------------------------
(* with self.paced(): one request *)

Starts(t) ==
  /\ At(t, "none") /\ pc[t] = "idle"
  /\ Move(t, IF site = "reddit" THEN "check" ELSE "request")
  /\ UNCHANGED <<vars, site, tries, sends, login>>

Asks(t) ==
  /\ phase[t] \in {"login", "request"} /\ Enter(t)
  /\ UNCHANGED <<site, search, login>>

\* The request is sent as soon as the slot is granted.
Sending(t) == sends' = [sends EXCEPT ![t] = IF pc'[t] = "held" THEN 1 ELSE 0]
Waits(t) ==
  /\ Check(t) \/ Wake(t) \/ Grant(t)
  /\ Sending(t)
  /\ UNCHANGED <<site, phase, tries, login>>
Acquires(t) == Acquire(t) /\ Sending(t) /\ UNCHANGED <<site, phase, tries, login>>
Locks(t)    == Lock(t) /\ UNCHANGED <<site, search, login>>

\* The with block ends.
Leaves(t)       == Done(t) /\ sends' = [sends EXCEPT ![t] = 0]
Answered(t, p)  == At(t, p) /\ Leaves(t) /\ UNCHANGED site

Interrupted(t) ==
  /\ Interrupt(t) /\ Ends(t)
  /\ UNCHANGED <<site, sends, field, refused>>

-----------------------------------------------------------------------------
(* OpenAlex: _request_with_retry() *)

\* Mutated forms: the loop goes on inside the with block; attempts are not
\* counted.
InPlace(t) ==
  IF tries[t] < Retries
  THEN /\ sends' = [sends EXCEPT ![t] = @ + 1]
       /\ tries' = [tries EXCEPT ![t] = @ + 1]
       /\ UNCHANGED <<vars, phase, bearer>>
  ELSE Leaves(t) /\ Ends(t)
Uncounted(t) == Leaves(t) /\ UNCHANGED <<tries, phase, bearer>>

\* The next attempt waits for a slot again; the last failure is the answer.
TriesAgain(t) ==
  /\ Leaves(t)
  /\ IF tries[t] < Retries
     THEN tries' = [tries EXCEPT ![t] = @ + 1] /\ UNCHANGED <<phase, bearer>>
     ELSE Ends(t)

\* A TransportError or a 5xx status.
FailsInTransit(t) ==
  /\ site = "openalex" /\ At(t, "request") /\ pc[t] = "held"
  /\ TriesAgain(t)
  /\ UNCHANGED <<site, field, refused>>

\* Any other response, an error included, ends the search.
WorksAnswered(t) ==
  /\ site = "openalex" /\ Answered(t, "request")
  /\ Ends(t)
  /\ UNCHANGED <<field, refused>>

-----------------------------------------------------------------------------
(* Reddit: _access_token() *)

ChecksToken(t) ==
  /\ At(t, "check")
  /\ Move(t, IF token # NoToken /\ fresh THEN "read" ELSE "login")
  /\ UNCHANGED <<vars, site, tries, sends, login>>

\* The field is read again: by now it may hold another token, or none.
ReadsToken(t) ==
  /\ phase[t] \in {"read", "return"}
  /\ bearer' = [bearer EXCEPT ![t] = token]
  /\ Move(t, "request")
  /\ UNCHANGED <<vars, site, tries, sends, token, fresh, issued, refused>>

LoggedIn(t) ==
  /\ issued < MaxTokens /\ Answered(t, "login")
  /\ issued' = issued + 1
  /\ bearer' = [bearer EXCEPT ![t] = issued + 1]
  /\ Move(t, "store")
  /\ UNCHANGED <<tries, token, fresh, refused>>

\* A transport error, another status, or an answer without a token.
LoginFails(t) ==
  /\ Answered(t, "login")
  /\ Ends(t)
  /\ UNCHANGED <<field, refused>>

StoresToken(t) ==
  /\ At(t, "store")
  /\ token' = bearer[t]
  /\ Move(t, "stamp")
  /\ UNCHANGED <<vars, site, tries, sends, fresh, bearer, issued, refused>>

StampsToken(t) ==
  /\ At(t, "stamp")
  /\ fresh' = TRUE
  /\ Move(t, "return")
  /\ UNCHANGED <<vars, site, tries, sends, token, bearer, issued, refused>>

\* float() rejects `expires_in': the token is stored by now, and its expiry time is
\* still that of the token before it.
StampFails(t) ==
  /\ At(t, "stamp")
  /\ Ends(t)
  /\ UNCHANGED <<vars, site, sends, field, refused>>

-----------------------------------------------------------------------------
(* Reddit: search() *)

\* The answer is 401: always without a token, at any time with one.
Unauthorized(t) ==
  /\ site = "reddit" /\ Answered(t, "request")
  /\ Move(t, "drop")
  /\ UNCHANGED <<tries, login>>

PostsAnswered(t) ==
  /\ site = "reddit" /\ bearer[t] # NoToken /\ Answered(t, "request")
  /\ Ends(t)
  /\ UNCHANGED <<field, refused>>

\* Mutated form: the refused token stays.
Keeps(t) == UNCHANGED token

\* Whichever token the field holds by now goes.
Drops(t) == token' = NoToken

DropsToken(t) ==
  /\ At(t, "drop")
  /\ Drops(t)
  /\ refused' = refused \cup ({bearer[t]} \ {NoToken})
  /\ Ends(t)
  /\ UNCHANGED <<vars, site, sends, fresh, issued>>

\* The lifetime of the stored token ends.
Expires ==
  /\ fresh /\ fresh' = FALSE
  /\ UNCHANGED <<vars, site, search, token, bearer, issued, refused>>

-----------------------------------------------------------------------------
Computes(t) ==
  \/ Asks(t) \/ Waits(t)
  \/ FailsInTransit(t) \/ WorksAnswered(t)
  \/ ChecksToken(t) \/ ReadsToken(t) \/ LoggedIn(t) \/ LoginFails(t)
  \/ StoresToken(t) \/ StampsToken(t) \/ StampFails(t)
  \/ Unauthorized(t) \/ PostsAnswered(t) \/ DropsToken(t)

PTick  == Tick /\ UNCHANGED <<site, search, login>>
PReset == Reset /\ UNCHANGED <<site, search, login>>

PNext ==
  \/ \E t \in Threads : Starts(t) \/ Acquires(t) \/ Locks(t) \/ Computes(t) \/ Interrupted(t)
  \/ PReset \/ PTick \/ Expires

PSpec == PInit /\ [][PNext]_pvars

\* Time passes, a thread that can go on does, every request is answered or
\* times out, and neither the semaphore nor the lock passes a waiter over for ever.
PFairSpec ==
  /\ PSpec
  /\ WF_pvars(PTick)
  /\ \A t \in Threads : /\ WF_pvars(Computes(t))
                        /\ SF_pvars(Acquires(t)) /\ SF_pvars(Locks(t))

-----------------------------------------------------------------------------
(* Properties. *)

\* A grant covers one request: a repeated request and a login wait for a slot
\* of their own, so that what GrantsSpaced and ConcurrencyCapped say of grants
\* holds of all that is sent.
OneRequestPerGrant ==
  \A t \in Threads : sends[t] = (IF pc[t] = "held" THEN 1 ELSE 0)

\* A token that a search was refused with is out of the field for good, however
\* the logins and the refusals of the other threads interleave.
RefusedTokenDropped == token \notin refused

\* A search that has begun ends: the retries are bounded, and no thread waits
\* for a slot for ever.
SearchEnds == \A t \in Threads : phase[t] # "none" ~> phase[t] = "none"

=============================================================================
