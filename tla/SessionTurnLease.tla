-------------------------- MODULE SessionTurnLease --------------------------
(***************************************************************************)
(* The lease that lets one turn at a time write to a session               *)
(* (modules/storage/runtime/session_store/turn_leases.py).  The row holds  *)
(* the request that owns the session, a fence number and an expiry.  A     *)
(* lease that has expired or was released is replaced by one with the next *)
(* fence, and each write to the session asserts, inside its transaction,   *)
(* that its fence is still the one in the row.  An expired lease that      *)
(* nobody has replaced still lets its owner write, renew and release.      *)
(*                                                                         *)
(* The row goes away with its session (ON DELETE CASCADE), and a session   *)
(* created again under the same id counts fences from 1: life counts these *)
(* deletions.  left is how far expires_at lies ahead.                      *)
(***************************************************************************)
EXTENDS Naturals, Sequences

CONSTANTS Turn,      \* callers that acquire the lease, each once
          Request,   \* request ids; the lease owner is "gateway:<request>"
          request,   \* the request of each turn; a repeated call has the same
          NULL,
          TTL,       \* ttl_s
          MaxLife,   \* bound: deletions of the session
          MaxLog     \* bound: entries of the log

ASSUME LeaseAssumption ==
  /\ request \in [Turn -> Request]
  /\ NULL \notin Request
  /\ TTL \in Nat \ {0}
  /\ MaxLife \in Nat
  /\ MaxLog \in Nat

VARIABLES row,    \* the session_turn_leases row
          life,   \* history: how often the session was deleted
          token,  \* the lease object each turn was given, and in which life
          log     \* history: the turns whose writes were accepted, by fence

leaseVars == <<row, life, token, log>>

\* No row counts as a released one with fence 0: COALESCE(MAX(fence_token), 0).
NoRow == [request |-> NULL, fence |-> 0, left |-> 0, released |-> TRUE]
NoToken == [life |-> 0, fence |-> 0]

LeaseTypeOK ==
  /\ row \in [request : Request \union {NULL}, fence : Nat, left : 0..TTL,
              released : BOOLEAN]
  /\ life \in Nat
  /\ token \in [Turn -> [life : Nat, fence : Nat]]
  /\ log \in Seq([life : Nat, born : Nat, fence : Nat, by : Turn])

LeaseInit ==
  /\ row = NoRow
  /\ life = 0
  /\ token = [t \in Turn |-> NoToken]
  /\ log = <<>>

Active == ~row.released /\ row.left > 0

\* Another request holds the lease: RuntimeSessionTurnBusyError.
Busy(t) == Active /\ row.request # request[t]

\* Mutant: a lease that was replaced or released hands out its number again.
AcquireSameFence(t) ==
  /\ token[t] = NoToken
  /\ ~Busy(t)
  /\ row' = [request |-> request[t], fence |-> IF row.fence = 0 THEN 1 ELSE row.fence,
             left |-> TTL, released |-> FALSE]
  /\ token' = [token EXCEPT ![t] = [life |-> life, fence |-> row'.fence]]
  /\ UNCHANGED <<life, log>>

\* A second call of the request that holds the lease shares its fence.
acquire(t) ==
  /\ token[t] = NoToken
  /\ ~Busy(t)
  /\ row' = [request |-> request[t],
             fence |-> IF Active THEN row.fence ELSE row.fence + 1,
             left |-> TTL, released |-> FALSE]
  /\ token' = [token EXCEPT ![t] = [life |-> life, fence |-> row'.fence]]
  /\ UNCHANGED <<life, log>>

\* The row is the one the turn was given: owner, fence_token, released_at IS NULL.
Owns(t) ==
  /\ token[t] # NoToken
  /\ ~row.released /\ row.fence = token[t].fence /\ row.request = request[t]

\* Mutant: the time is added to what is left.
RenewAdds(t) ==
  /\ Owns(t)
  /\ row' = [row EXCEPT !.left = @ + TTL]
  /\ UNCHANGED <<life, token, log>>

renew(t) ==
  /\ Owns(t)
  /\ row' = [row EXCEPT !.left = TTL]
  /\ UNCHANGED <<life, token, log>>

release(t) ==
  /\ row' = [row EXCEPT !.released = @ \/ Owns(t)]
  /\ UNCHANGED <<life, token, log>>

\* Mutant: any row will do.
FenceIgnored(t) == token[t] # NoToken /\ ~row.released

\* The fence is the row's; neither the owner nor the expiry is looked at.
assert_fence(t) ==
  /\ token[t] # NoToken
  /\ ~row.released /\ row.fence = token[t].fence

\* A write of turn t is accepted.  The log gains an entry unless the turn has
\* one already and the fence has not changed since.
Logged(t) ==
  LET entry == [life |-> life, born |-> token[t].life, fence |-> token[t].fence, by |-> t]
      again == /\ \E i \in 1..Len(log) : log[i] = entry
               /\ log[Len(log)].life = life /\ log[Len(log)].fence = entry.fence
  IN  IF again THEN log ELSE Append(log, entry)

write(t) ==
  /\ assert_fence(t)
  /\ log' = Logged(t)
  /\ Len(log') <= MaxLog
  /\ UNCHANGED <<row, life, token>>

delete_session ==
  /\ life < MaxLife
  /\ row' = NoRow
  /\ life' = life + 1
  /\ UNCHANGED <<token, log>>

Tick ==
  /\ row' = [row EXCEPT !.left = IF @ > 0 THEN @ - 1 ELSE 0]
  /\ UNCHANGED <<life, token, log>>

LeaseNext ==
  \/ \E t \in Turn : acquire(t) \/ renew(t) \/ release(t) \/ write(t)
  \/ delete_session
  \/ Tick

LeaseSpec == LeaseInit /\ [][LeaseNext]_leaseVars

-----------------------------------------------------------------------------
(* Properties                                                              *)

\* Within one life of the session the writes come in the order of the fences:
\* a turn whose lease was taken over writes nothing after its successor,
\* however long it slept and whatever it still does.
FencesNeverGoBack ==
  \A i, j \in 1..Len(log) :
    i <= j /\ log[i].life = log[j].life => log[i].fence <= log[j].fence

\* A fence belongs to one request, as long as the turns that use it got it in
\* this life of the session: only repeated calls of one request write side by
\* side.
OneRequestPerFence ==
  \A i, j \in 1..Len(log) :
    /\ log[i].life = log[j].life /\ log[i].fence = log[j].fence
    /\ log[i].born = log[i].life /\ log[j].born = log[j].life
    => request[log[i].by] = request[log[j].by]

\* What the lease promises to those who assert their fence on each write.
WritesAreFenced == LeaseTypeOK /\ FencesNeverGoBack /\ OneRequestPerFence
=============================================================================
