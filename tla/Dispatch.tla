------------------------------ MODULE Dispatch ------------------------------
(***************************************************************************)
(* Inbound events of one recovery session: Server.dispatch (server.go)     *)
(* with the idempotency keys of keyWindow (internal/session.go).  The      *)
(* session's current connection and displaced ones whose ReadPump still    *)
(* runs dispatch concurrently.  Control and keyless events, which the      *)
(* window never sees, are left out.                                        *)
(***************************************************************************)
EXTENDS Integers, Sequences

CONSTANTS
  Keys,      \* idempotency keys
  NoKey,     \* "", a cleared element; no event
  Conns,     \* connections bound to the session
  MaxKeys,   \* keyWindow.max
  Compact,   \* claim compacts from this head on (64 in the code)
  MaxClaims  \* bound: keys accepted in one behaviour

ASSUME DispatchConstants ==
  /\ NoKey \notin Keys
  /\ MaxKeys \in Nat \ {0} /\ Compact \in Nat \ {0} /\ MaxClaims \in Nat

VARIABLES
  win,       \* keyWindow: [set, order, head]
  pc,        \* pc[c]: "read", "middleware", "claim" or "handler"
  key,       \* key[c]: the key of the event c dispatches
  accepted,  \* the keys claimed, in order (history)
  registered,\* Server.handlers has a handler for the event they carry
  fate       \* fate[i]: what became of accepted[i], "pending", its handler
             \* "called", or "none" found (history)

vars == <<win, pc, key, accepted, registered, fate>>

Init ==
  /\ win = [set |-> {}, order |-> << >>, head |-> 0]
  /\ pc = [c \in Conns |-> "read"] /\ key = [c \in Conns |-> NoKey]
  /\ accepted = << >> /\ registered \in BOOLEAN /\ fate = << >>

(* Mutants of claim: the window forgets a key too early; the evicted key   *)
(* stays in the set.                                                       *)
claimEvictsEarly(w, k) ==
  LET order == Append(w.order, k)
      h == w.head + 1
  IN  IF Len(order) - w.head < MaxKeys
      THEN [set |-> w.set \cup {k}, order |-> order, head |-> w.head]
      ELSE [set |-> (w.set \cup {k}) \ {order[h]}, order |-> [order EXCEPT ![h] = NoKey], head |-> h]

claimKeepsSet(w, k) ==
  LET order == Append(w.order, k)
      h == w.head + 1
  IN  IF Len(order) - w.head <= MaxKeys
      THEN [set |-> w.set \cup {k}, order |-> order, head |-> w.head]
      ELSE [set |-> w.set \cup {k}, order |-> [order EXCEPT ![h] = NoKey], head |-> h]

(* keyWindow.claim of a key that is not in the set. *)
claim(w, k) ==
  LET order == Append(w.order, k)
      h == w.head + 1
  IN  IF Len(order) - w.head <= MaxKeys
      THEN [set |-> w.set \cup {k}, order |-> order, head |-> w.head]
      ELSE LET set == (w.set \cup {k}) \ {order[h]}
           IN  IF h >= Compact /\ h * 2 >= Len(order)
               THEN [set |-> set, order |-> SubSeq(order, h + 1, Len(order)), head |-> 0]
               ELSE [set |-> set, order |-> [order EXCEPT ![h] = NoKey], head |-> h]
-----------------------------------------------------------------------------
Receive(c, k) ==
  /\ pc[c] = "read"
  /\ pc' = [pc EXCEPT ![c] = "middleware"]
  /\ key' = [key EXCEPT ![c] = k]
  /\ UNCHANGED <<win, accepted, registered, fate>>

done(c) == pc' = [pc EXCEPT ![c] = "read"] /\ key' = [key EXCEPT ![c] = NoKey]

(* A middleware returns an error (a rate limit) or panics. *)
Reject(c) == pc[c] = "middleware" /\ done(c) /\ UNCHANGED <<win, accepted, registered, fate>>

(* Mutant of the middleware step: the key is claimed before middleware ran. *)
PassClaimsEarly(c) ==
  /\ pc[c] = "middleware"
  /\ pc' = [pc EXCEPT ![c] = "claim"]
  /\ win' = IF key[c] \in win.set THEN win ELSE claim(win, key[c])
  /\ UNCHANGED <<key, accepted, registered, fate>>

Pass(c) ==
  /\ pc[c] = "middleware"
  /\ pc' = [pc EXCEPT ![c] = "claim"]
  /\ UNCHANGED <<win, key, accepted, registered, fate>>

(* Session.ClaimKey reports a duplicate: the event is dropped. *)
Duplicate(c) ==
  /\ pc[c] = "claim" /\ key[c] \in win.set
  /\ done(c)
  /\ UNCHANGED <<win, accepted, registered, fate>>

Claim(c) ==
  /\ pc[c] = "claim" /\ key[c] \notin win.set /\ Len(accepted) < MaxClaims
  /\ win' = claim(win, key[c])
  /\ accepted' = Append(accepted, key[c]) /\ fate' = Append(fate, "pending")
  /\ pc' = [pc EXCEPT ![c] = "handler"]
  /\ UNCHANGED <<key, registered>>

(* The handler is looked up and run; a panic, too, ends the event with the *)
(* key burned, and so does an event that nobody handles.                   *)
Handle(c) ==
  /\ pc[c] = "handler"
  /\ \E i \in DOMAIN accepted :
       /\ accepted[i] = key[c] /\ fate[i] = "pending"
       /\ fate' = [fate EXCEPT ![i] = IF registered THEN "called" ELSE "none"]
  /\ done(c)
  /\ UNCHANGED <<win, accepted, registered>>

(* Server.On, at any time; a nil handler takes the event's handler away. *)
On(h) == registered' = h /\ UNCHANGED <<win, pc, key, accepted, fate>>

Next ==
  \/ \E c \in Conns :
       (\E k \in Keys : Receive(c, k)) \/ Reject(c) \/ Pass(c) \/ Duplicate(c) \/ Claim(c) \/ Handle(c)
  \/ \E h \in BOOLEAN : On(h)

Spec == Init /\ [][Next]_vars
-----------------------------------------------------------------------------
(* "handler runs once per key per session window": two runs of a key are   *)
(* more than MaxKeys accepted keys apart, whatever connections they came   *)
(* from.                                                                   *)
OncePerWindow ==
  \A i, j \in DOMAIN accepted : i < j /\ accepted[i] = accepted[j] => j - i > MaxKeys

(* The set holds exactly the last MaxKeys accepted keys: no key is         *)
(* remembered for ever and none is lost to compaction.                     *)
WindowExact ==
  /\ win.set = {accepted[i] : i \in {j \in DOMAIN accepted : j > Len(accepted) - MaxKeys}}
  /\ SubSeq(win.order, win.head + 1, Len(win.order)) =
       SubSeq(accepted, Len(accepted) - (Len(win.order) - win.head) + 1, Len(accepted))

(* "Claimed after middleware so a rate-limited or rejected attempt can be  *)
(* retried with the same key": the event of a remembered key passed the    *)
(* middleware and went to its handler, or no handler was found for it, or  *)
(* it is about to be looked up.  No rejected attempt burns a key.          *)
BurnedIsHandled ==
  \A k \in win.set :
    \/ \E i \in DOMAIN accepted : accepted[i] = k /\ fate[i] \in {"called", "none"}
    \/ \E c \in Conns : pc[c] = "handler" /\ key[c] = k
=============================================================================
