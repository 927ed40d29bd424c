----------------------------- MODULE TokenRenewal -----------------------------
(***************************************************************************)
(* The token pair of one tracker as anistream's processes hold it: the     *)
(* terminal and the app keep one sign-in in one TokenStore                 *)
(* (crates/anistream-track/src/secret.rs), each holds a copy               *)
(* (crates/anistream-track/src/held.rs), and a renewal by either ends the  *)
(* access token the other holds.  A service may also replace the refresh   *)
(* token with each renewal (MyAnimeList, Kitsu), or keep it (Simkl).       *)
(*                                                                         *)
(* A renewal holds the write lock of its process's pair across the         *)
(* request; the store is the only thing the processes share, and nothing   *)
(* locks it.  Signing in and out write the store at once and the pair      *)
(* when the lock is free.                                                  *)
(*                                                                         *)
(* A pair is its grant (which sign-in it comes from) and its generation    *)
(* (how many renewals made it).                                            *)
(***************************************************************************)
EXTENDS Integers, FiniteSets, FiniteSetsExt

CONSTANTS
    Procs,       \* the processes signed in through one store
    Calls,       \* the requests a process may have under way
    Caller,      \* [Calls -> Procs]: whose they are
    Rotating,    \* whether a service may replace the refresh token, and whether it may not
    MaxGrants,   \* bound: sign-ins
    MaxGen,      \* bound: renewals of one sign-in
    MaxAged,     \* bound: generations that run out
    Limit,       \* bound: [Kind -> how often it may happen]
    MaxEvents    \* bound: how often anything does

ASSUME ConstantsAssumption ==
    /\ Caller \in [Calls -> Procs] /\ Rotating \subseteq BOOLEAN
    /\ MaxGrants \in Nat \ {0} /\ MaxGen \in Nat \ {0} /\ MaxAged \in Nat
    /\ \E K \in SUBSET {"signin", "signout", "unsaved", "unread", "lost", "restart"} :
         Limit \in [K -> Nat]
    /\ MaxEvents \in Nat

VARIABLES
    rotates,    \* whether a renewal replaces the refresh token
    grants,     \* how many sign-ins there have been
    latest,     \* [Grant -> generation]: the pair of each the service knows
    due,        \* SUBSET Token: those within a day of their end (needs_refresh)
    store,      \* the pair the TokenStore holds
    pair,       \* [Procs -> pair]: Held::pair
    pending,    \* [Procs -> pair]: Held::pending_save
    renewing,   \* [Procs -> Renewal]: the renewal under the write lock
    call,       \* [Calls -> Call]
    accepting,  \* [Procs -> SUBSET Token]: sign-ins on their way to the pair
    forgetting, \* [Procs -> BOOLEAN]: a sign-out on its way to the pair
    lost,       \* grants whose newest pair nobody was left with
    events      \* [Kind -> how often it has happened]

service == <<rotates, latest, due>>
memory  == <<pair, pending, renewing, call>>
person  == <<grants, accepting, forgetting>>
vars    == <<service, store, memory, person, lost, events>>

-----------------------------------------------------------------------------
(* Data. *)

Grant  == 1..MaxGrants
Token  == [grant : Grant, gen : 0..MaxGen]
NoPair == [grant |-> 0, gen |-> 0]
Pair   == Token \cup {NoPair}

(* The renewal in flight: for which call, and the pair it renews or, once renewed, the new
   one. *)
Idle    == [at |-> "idle"]
Renewal == {Idle} \cup
           [at : {"asked", "renewed"}, call : Calls, tok : Token]

(* A request: waiting for a renewal, with the token that was rejected if one was, or sent
   with a token.  again: it is the second and last time. *)
Resting == [at |-> "idle"]
Call    == {Resting} \cup [at : {"sent"}, tok : Token, again : BOOLEAN]
                     \cup [at : {"renew"}, tok : Pair, again : BOOLEAN]

Free(p)      == renewing[p] = Idle
Newest(g)    == [grant |-> g, gen |-> latest[g]]
Live(t)      == t = Newest(t.grant)

(* The person signs in or out; the store does not take a write or answer a read; a request
   to the token endpoint, or its answer, is lost; a process ends. *)
Kind      == DOMAIN Limit
Strike(E) == /\ E \subseteq Kind
             /\ events' = [k \in Kind |-> events[k] + (IF k \in E THEN 1 ELSE 0)]
             /\ \A k \in E : events[k] < Limit[k]
             /\ MapThenSumSet(LAMBDA k : events[k], Kind) + Cardinality(E) <= MaxEvents

(* TokenStore::set_pair: the store takes the pair, or fails. *)
StorePair(t) == /\ store' = t
                /\ UNCHANGED events
StoreFails   == Strike({"unsaved"}) /\ UNCHANGED store

-----------------------------------------------------------------------------
(* A call: access, send, renew. *)

(* Held::access: the token held, or a renewal first when it is close to its end. *)
Access(c) ==
    LET p == Caller[c] IN
    /\ call[c] = Resting /\ Free(p) /\ pair[p] # NoPair
    /\ call' = [call EXCEPT ![c] =
                  IF pair[p] \in due
                  THEN [at |-> "renew", tok |-> NoPair, again |-> FALSE]
                  ELSE [at |-> "sent", tok |-> pair[p], again |-> FALSE]]
    /\ UNCHANGED <<service, store, pair, pending, renewing, person, lost, events>>

(* Held::send: a rejected request waits for a renewal, the first time. *)
Answer(c) ==
    /\ call[c].at = "sent"
    /\ call' = [call EXCEPT ![c] =
                  IF Live(@.tok) \/ @.again THEN Resting
                  ELSE [at |-> "renew", tok |-> @.tok, again |-> TRUE]]
    /\ UNCHANGED <<service, store, pair, pending, renewing, person, lost, events>>

(* Held::stored: what the store holds now, or what is held when it does not answer. *)
Stored(p, s) == \/ s = store /\ UNCHANGED events
                \/ s = pair[p] /\ Strike({"unread"})

(* Held::renew under the lock, up to the request.  What the store holds is adopted; it is
   renewed when it is the token that was rejected, or close to its end. *)
Renewed(p, c, s) ==
    LET sent  == [call EXCEPT ![c] = [at |-> "sent", tok |-> s, again |-> @.again]]
        asked == [renewing EXCEPT ![p] = [at |-> "asked", call |-> c, tok |-> s]]
    IN IF call[c].tok = s \/ s \in due
       THEN renewing' = asked /\ UNCHANGED call
       ELSE call' = sent /\ UNCHANGED renewing

(* Mutation: an empty store is taken for a pair. *)
AdoptEmpty(p, c, s) == Renewed(p, c, s)

(* Signed out elsewhere ends the call; renewing would sign the other back in. *)
Adopt(p, c, s) ==
    IF s = NoPair
    THEN call' = [call EXCEPT ![c] = Resting] /\ UNCHANGED renewing
    ELSE Renewed(p, c, s)

(* Mutation: the pair held is renewed without looking at the store. *)
RenewUnread(c) ==
    LET p == Caller[c] IN
    /\ call[c].at = "renew" /\ Free(p)
    /\ Adopt(p, c, pair[p])
    /\ UNCHANGED <<service, store, pair, pending, person, lost, events>>

Renew(c) ==
    LET p == Caller[c]
        movedOn == call[c].tok # NoPair /\ pair[p] # call[c].tok
    IN
    /\ call[c].at = "renew" /\ Free(p)
    /\ \/ /\ pair[p] = NoPair
          /\ call' = [call EXCEPT ![c] = Resting]
          /\ UNCHANGED <<pair, renewing, events>>
       \/ /\ pair[p] # NoPair /\ movedOn
          /\ call' = [call EXCEPT ![c] = [at |-> "sent", tok |-> pair[p], again |-> TRUE]]
          /\ UNCHANGED <<pair, renewing, events>>
       \/ /\ pair[p] # NoPair /\ ~movedOn
          /\ \E s \in {store, pair[p]} :
               /\ Stored(p, s)
               /\ pair' = [pair EXCEPT ![p] = s]
               /\ Adopt(p, c, s)
    /\ UNCHANGED <<service, store, pending, person, lost>>

-----------------------------------------------------------------------------
(* The token endpoint.  A refresh token is good for the newest pair of its grant only,
   where the service replaces it, and for every one where it does not.  The answer, or its
   absence, ends a renewal that failed. *)

Issue(g) == latest' = [latest EXCEPT ![g] = @ + 1]

Serve(p) ==
    LET r == renewing[p]
        g == r.tok.grant
        good == rotates => r.tok = Newest(g)
        Fails == /\ renewing' = [renewing EXCEPT ![p] = Idle]
                 /\ call' = [call EXCEPT ![r.call] = Resting]
    IN
    /\ r.at = "asked"
    /\ \/ /\ good /\ latest[g] < MaxGen
          /\ Issue(g)
          /\ renewing' = [renewing EXCEPT ![p].at = "renewed", ![p].tok.gen = latest[g] + 1]
          /\ UNCHANGED <<call, lost, events>>
       \/ ~good /\ Fails /\ UNCHANGED <<latest, lost, events>>
       \/ Strike({"lost"}) /\ Fails /\ UNCHANGED <<latest, lost>>
       \/ /\ good /\ latest[g] < MaxGen
          /\ Strike({"lost"}) /\ Fails
          /\ Issue(g)
          /\ lost' = lost \cup {g}
    /\ UNCHANGED <<rotates, due, store, pair, pending, person>>

(* The end of Held::renew: whatever became of the save, the pair is held. *)
Hold(p) ==
    LET r == renewing[p] IN
    /\ pair'     = [pair EXCEPT ![p] = r.tok]
    /\ renewing' = [renewing EXCEPT ![p] = Idle]
    /\ call'     = [call EXCEPT ![r.call] =
                      [at |-> "sent", tok |-> r.tok, again |-> @.again]]
    /\ UNCHANGED <<service, person, lost>>

(* Mutation: a pair the store does not take is left at that. *)
SaveOnce(p) ==
    /\ renewing[p].at = "renewed"
    /\ StorePair(renewing[p].tok) \/ StoreFails
    /\ Hold(p)
    /\ UNCHANGED pending

(* Mutation: the renewed pair is left to the next drain. *)
SaveLater(p) ==
    /\ renewing[p].at = "renewed"
    /\ pending' = [pending EXCEPT ![p] = renewing[p].tok]
    /\ Hold(p)
    /\ UNCHANGED <<store, events>>

(* Held::save: the renewed pair is stored at once, or left to the next drain. *)
Save(p) ==
    /\ renewing[p].at = "renewed"
    /\ \/ StorePair(renewing[p].tok) /\ UNCHANGED pending
       \/ StoreFails /\ pending' = [pending EXCEPT ![p] = renewing[p].tok]
    /\ Hold(p)

(* persist_renewed_tokens, at the start of a drain: the pair is taken, and stored or not. *)
Persist(p) ==
    /\ pending[p] # NoPair
    /\ pending' = [pending EXCEPT ![p] = NoPair]
    /\ StorePair(pending[p]) \/ StoreFails
    /\ UNCHANGED <<service, pair, renewing, call, person, lost>>
-----------------------------------------------------------------------------
(* Signing in and out, and the process. *)

(* connect_kitsu and the flows like it: the pair is stored, then handed to the live tracker
   (activate).  A device sign-in the store does not take goes on; the others end there. *)
SignIn(p) ==
    LET t == [grant |-> grants + 1, gen |-> 0] IN
    /\ grants < MaxGrants
    /\ grants' = grants + 1
    /\ \/ /\ Strike({"signin"}) /\ store' = t
          /\ accepting' = [accepting EXCEPT ![p] = @ \cup {t}]
       \/ /\ Strike({"signin", "unsaved"}) /\ UNCHANGED store
          /\ \/ accepting' = [accepting EXCEPT ![p] = @ \cup {t}]
             \/ UNCHANGED accepting
    /\ UNCHANGED <<service, memory, forgetting, lost>>

(* Held::accept. *)
Accept(p, t) ==
    /\ t \in accepting[p] /\ Free(p)
    /\ pair' = [pair EXCEPT ![p] = t]
    /\ accepting' = [accepting EXCEPT ![p] = @ \ {t}]
    /\ UNCHANGED <<service, store, pending, renewing, call, grants, forgetting, lost, events>>

(* disconnect: the store is cleared at once, whatever comes of it; the pair by a task. *)
SignOut(p) ==
    /\ store # NoPair \/ pair[p] # NoPair
    /\ \/ Strike({"signout"}) /\ store' = NoPair
       \/ Strike({"signout", "unsaved"}) /\ UNCHANGED store
    /\ forgetting' = [forgetting EXCEPT ![p] = TRUE]
    /\ UNCHANGED <<service, memory, grants, accepting, lost>>

(* Mutation: the pair is cleared under a renewal in flight. *)
ForgetAtOnce(p) ==
    /\ forgetting[p]
    /\ pair'    = [pair EXCEPT ![p] = NoPair]
    /\ pending' = [pending EXCEPT ![p] = NoPair]
    /\ forgetting' = [forgetting EXCEPT ![p] = FALSE]
    /\ UNCHANGED <<service, store, renewing, call, grants, accepting, lost, events>>

(* Held::forget. *)
Forget(p) ==
    /\ forgetting[p] /\ Free(p)
    /\ pair'    = [pair EXCEPT ![p] = NoPair]
    /\ pending' = [pending EXCEPT ![p] = NoPair]
    /\ forgetting' = [forgetting EXCEPT ![p] = FALSE]
    /\ UNCHANGED <<service, store, renewing, call, grants, accepting, lost, events>>

(* Where the newest pair of a grant is: the store, or a process. *)
HeldBy(p, t) == \/ t \in {pair[p], pending[p]}
                \/ renewing[p].at = "renewed" /\ renewing[p].tok = t

(* A process ends, and begins again with what the store holds.  A renewal that was asked
   for may have been served: nobody has its answer then. *)
Restart(p) ==
    LET g == renewing[p].tok.grant
        onlyHere == {h \in Grant : /\ HeldBy(p, Newest(h)) /\ store # Newest(h)
                                   /\ \A q \in Procs \ {p} : ~HeldBy(q, Newest(h))}
    IN
    /\ Strike({"restart"})
    /\ \/ lost' = lost \cup onlyHere /\ UNCHANGED latest
       \/ /\ renewing[p].at = "asked" /\ latest[g] < MaxGen
          /\ rotates => renewing[p].tok = Newest(g)
          /\ Issue(g)
          /\ lost' = lost \cup onlyHere \cup {g}
    /\ pair'     = [pair EXCEPT ![p] = store]
    /\ pending'  = [pending EXCEPT ![p] = NoPair]
    /\ renewing' = [renewing EXCEPT ![p] = Idle]
    /\ call'     = [c \in Calls |-> IF Caller[c] = p THEN Resting ELSE call[c]]
    /\ accepting'  = [accepting EXCEPT ![p] = {}]
    /\ forgetting' = [forgetting EXCEPT ![p] = FALSE]
    /\ UNCHANGED <<rotates, due, store, grants>>

(* Time: a pair comes within a day of its end, and an older one of its grant has before: it
   was issued earlier for as long.  A day is much longer than a request, the time to the
   next drain or a task's wait for the lock, so none of them is under way across it. *)
Pass(t) ==
    /\ t.grant <= grants /\ t.gen <= latest[t.grant] /\ t.gen < MaxAged
    /\ t \notin due
    /\ \A u \in Token : u.grant = t.grant /\ u.gen < t.gen => u \in due
    /\ \A p \in Procs : /\ Free(p) /\ pending[p] = NoPair
                         /\ accepting[p] = {} /\ ~forgetting[p]
    /\ due' = due \cup {t}
    /\ UNCHANGED <<rotates, latest, store, memory, person, lost, events>>

-----------------------------------------------------------------------------
Init ==
    LET first == [grant |-> 1, gen |-> 0] IN
    /\ rotates \in Rotating
    /\ grants = 1
    /\ latest = [g \in Grant |-> 0]
    /\ due    = {}
    /\ store  = first
    /\ pair   = [p \in Procs |-> first]
    /\ pending    = [p \in Procs |-> NoPair]
    /\ renewing   = [p \in Procs |-> Idle]
    /\ call       = [c \in Calls |-> Resting]
    /\ accepting  = [p \in Procs |-> {}]
    /\ forgetting = [p \in Procs |-> FALSE]
    /\ lost   = {}
    /\ events = [k \in Kind |-> 0]

Ask(c)      == Access(c) \/ Answer(c) \/ Renew(c)
Request(p)  == Serve(p) \/ Save(p)
Told(p)     == Forget(p) \/ \E t \in accepting[p] : Accept(p, t)

Next == \/ \E c \in Calls : Ask(c)
        \/ \E p \in Procs : Request(p) \/ Persist(p) \/ Told(p)
        \/ \E p \in Procs : SignIn(p) \/ SignOut(p) \/ Restart(p)
        \/ \E t \in Token : Pass(t)

(* Drains and pulls come round on timers and go through persist_renewed_tokens, requests are
   answered or time out, and a task that waits for the lock gets it in its turn. *)
Fairness == /\ \A c \in Calls : WF_vars(Ask(c))
            /\ \A p \in Procs : WF_vars(Request(p)) /\ WF_vars(Persist(p)) /\ WF_vars(Told(p))

Spec == Init /\ [][Next]_vars /\ Fairness

-----------------------------------------------------------------------------
(* Properties. *)

(* Every variable holds values of its type; a call waits for the renewal made for it. *)
TypeOK ==
    /\ rotates \in BOOLEAN /\ grants \in Grant
    /\ latest \in [Grant -> 0..MaxGen] /\ due \in SUBSET Token
    /\ store \in Pair
    /\ pair \in [Procs -> Pair] /\ pending \in [Procs -> Pair]
    /\ renewing \in [Procs -> Renewal] /\ call \in [Calls -> Call]
    /\ accepting \in [Procs -> SUBSET Token] /\ forgetting \in [Procs -> BOOLEAN]
    /\ lost \in SUBSET Grant /\ events \in [Kind -> Nat]
    /\ \A p \in Procs : ~Free(p) => /\ Caller[renewing[p].call] = p
                                    /\ call[renewing[p].call].at = "renew"

(* Where the service replaces the refresh token, the newest pair is all that is left of a
   sign-in.  While the store says the person is signed in, that pair is in the store or with
   a process, unless it never arrived or was with a process that ended before storing it
   (held.rs: "the token it replaces no longer works"). *)
NewestPairKept ==
    LET g == store.grant IN
    rotates /\ store # NoPair /\ g \notin lost =>
        \/ store = Newest(g)
        \/ \E p \in Procs : HeldBy(p, Newest(g))

(* The store has taken what it was given so far. *)
Saving == "unsaved" \in Kind => events["unsaved"] = 0

(* A process never goes back from a pair to an older one of the same sign-in, though it
   adopts whatever the store holds: there the service would refuse it for good.  As long
   as the store takes what it is given, and but for a process that begins again. *)
NeverBackwards ==
    [][rotates /\ Saving => \A p \in Procs :
         pair'[p].grant = pair[p].grant => \/ pair'[p].gen >= pair[p].gen
                                           \/ Restart(p)]_vars

(* Once a sign-out has reached a process, it holds no pair until it is signed in again or
   begins again: a renewal that was in flight does not put one back. *)
ForgottenStays ==
    [][\A p \in Procs : pair[p] = NoPair /\ pair'[p] # NoPair =>
         \/ pair'[p] \in accepting[p]
         \/ Restart(p)]_vars

(* However the processes' renewals fall together, and though writes and answers get lost,
   in the end every process that holds a pair holds one that works, unless the grant's
   newest pair was lost. *)
Settled == \A p \in Procs : \/ pair[p] = NoPair
                            \/ Live(pair[p])
                            \/ pair[p].grant \in lost
RenewalsSettle == rotates => []<>Settled

=============================================================================
