-------------------------- MODULE TokenRenewalProofs --------------------------
(***************************************************************************)
(* Theorems of TokenRenewal, for any processes and requests, any sign-ins  *)
(* and renewals, and any number of faults.                                 *)
(***************************************************************************)
EXTENDS TokenRenewal, TLAPS

-----------------------------------------------------------------------------
(* Data. *)

Underway == [at : {"asked", "renewed"}, call : Calls, tok : Token]

LEMMA NoPairIsNoToken == /\ NoPair \notin Token /\ NoPair \in Pair
                         /\ \A t \in Pair : t # NoPair => t \in Token
BY ConstantsAssumption DEF NoPair, Token, Pair, Grant

LEMMA Renewals ==
    /\ Idle \in Renewal /\ Idle.at = "idle" /\ Underway \subseteq Renewal
    /\ \A r \in Renewal : r # Idle => r \in Underway
    /\ \A r \in Underway : r # Idle /\ r.at \in {"asked", "renewed"} /\ r.tok \in Token /\ r.call \in Calls
BY DEF Idle, Renewal, Underway

LEMMA Requests ==
    /\ Resting \in Call /\ Resting.at = "idle"
    /\ \A t \in Token, a \in BOOLEAN : [at |-> "sent", tok |-> t, again |-> a] \in Call
    /\ \A t \in Pair, a \in BOOLEAN : [at |-> "renew", tok |-> t, again |-> a] \in Call
    /\ \A r \in Call : r.at = "sent" => r.tok \in Token /\ r.again \in BOOLEAN
    /\ \A r \in Call : r.at = "renew" => r.tok \in Pair /\ r.again \in BOOLEAN
BY DEF Resting, Call

-----------------------------------------------------------------------------
(* Type correctness. *)

Endpoint  == rotates \in BOOLEAN /\ latest \in [Grant -> 0..MaxGen] /\ due \in SUBSET Token
Copies    == store \in Pair /\ pair \in [Procs -> Pair] /\ pending \in [Procs -> Pair]
Persons   == grants \in Grant /\ accepting \in [Procs -> SUBSET Token] /\ forgetting \in [Procs -> BOOLEAN]
Counted   == lost \in SUBSET Grant /\ events \in [Kind -> Nat]
(* A renewal is of a request that waits for it, and of a process that holds a pair: nothing
   takes the pair away while the lock is held. *)
Underways == /\ renewing \in [Procs -> Renewal] /\ call \in [Calls -> Call]
             /\ \A p \in Procs : ~Free(p) => /\ Caller[renewing[p].call] = p
                                             /\ call[renewing[p].call].at = "renew"
                                             /\ pair[p] # NoPair

Fits == Endpoint /\ Copies /\ Persons /\ Counted /\ Underways

LEMMA UnchangedFits ==
    ASSUME Fits
    PROVE  /\ UNCHANGED <<rotates, latest, due>> => Endpoint'
           /\ UNCHANGED <<store, pair, pending>> => Copies'
           /\ UNCHANGED person => Persons'
           /\ UNCHANGED <<lost, events>> => Counted'
           /\ UNCHANGED <<pair, renewing, call>> => Underways'
<1>1. UNCHANGED <<rotates, latest, due>> => Endpoint'
  BY DEF Fits, Endpoint
<1>2. UNCHANGED <<store, pair, pending>> => Copies'
  BY DEF Fits, Copies
<1>3. UNCHANGED person => Persons'
  BY DEF Fits, Persons, person
<1>4. UNCHANGED <<lost, events>> => Counted'
  BY DEF Fits, Counted
<1>5. UNCHANGED <<pair, renewing, call>> => Underways'
  BY DEF Fits, Underways, Free
<1> QED BY <1>1, <1>2, <1>3, <1>4, <1>5

(* The store has failed one write at most so far. *)
Spared == "unsaved" \in Kind => events["unsaved"] <= 1
Limited == "unsaved" \in Kind => events["unsaved"] <= Limit["unsaved"]
(* The events that strike are counted, those of the store's as well. *)
Counts == /\ events' \in [Kind -> Nat]
          /\ (Saving' => Saving) /\ (Spared' => Spared) /\ (Limited => Limited')

LEMMA StrikeCounts ==
    ASSUME Fits, NEW E, Strike(E)
    PROVE  Counts /\ ("unsaved" \in E => ~Saving' /\ (Spared' => Saving))
<1>1. events \in [Kind -> Nat] /\ E \subseteq Kind
  BY DEF Fits, Counted, Strike
<1>2. events' = [k \in Kind |-> events[k] + (IF k \in E THEN 1 ELSE 0)]
  BY DEF Strike
<1>3. \A k \in Kind : events'[k] \in Nat /\ events'[k] >= events[k] /\ (k \in E => events'[k] > 0)
  BY <1>1, <1>2
<1>4. events' \in [Kind -> Nat]
  BY <1>2, <1>3
<1>5. Saving' => Saving
  <2>1. CASE "unsaved" \in Kind
    <3>1. events["unsaved"] \in Nat /\ events'["unsaved"] \in Nat /\ events'["unsaved"] >= events["unsaved"]
      BY <1>1, <1>3, <2>1
    <3> QED BY <3>1 DEF Saving
  <2>2. CASE "unsaved" \notin Kind
    BY <2>2 DEF Saving
  <2> QED BY <2>1, <2>2
<1>6. "unsaved" \in E => ~Saving' /\ (Spared' => Saving)
  <2>1. CASE "unsaved" \in E
    <3>1. /\ "unsaved" \in Kind /\ events["unsaved"] \in Nat
          /\ events'["unsaved"] = events["unsaved"] + 1
      BY <1>1, <1>2, <2>1
    <3> QED BY <3>1 DEF Saving, Spared
  <2> QED BY <2>1
<1>7. Spared' => Spared
  <2>1. CASE "unsaved" \in Kind
    <3>1. events["unsaved"] \in Nat /\ events'["unsaved"] \in Nat /\ events'["unsaved"] >= events["unsaved"]
      BY <1>1, <1>3, <2>1
    <3> QED BY <3>1 DEF Spared
  <2>2. CASE "unsaved" \notin Kind
    BY <2>2 DEF Spared
  <2> QED BY <2>1, <2>2
<1>8. Limited => Limited'
  <2>1. CASE "unsaved" \in E
    <3>1. /\ "unsaved" \in Kind /\ events["unsaved"] \in Nat /\ Limit["unsaved"] \in Nat
          /\ events["unsaved"] < Limit["unsaved"] /\ events'["unsaved"] = events["unsaved"] + 1
      BY <1>1, <1>2, <2>1, ConstantsAssumption DEF Strike, Kind
    <3> QED BY <3>1 DEF Limited
  <2>2. CASE "unsaved" \notin E
    <3>1. "unsaved" \in Kind => events'["unsaved"] = events["unsaved"] + 0 /\ events["unsaved"] \in Nat
      BY <1>1, <1>2, <2>2
    <3> QED BY <3>1 DEF Limited
  <2> QED BY <2>1, <2>2
<1> QED BY <1>4, <1>5, <1>6, <1>7, <1>8 DEF Counts

LEMMA QuietCounts == ASSUME Fits, UNCHANGED events PROVE Counts
BY DEF Counts, Fits, Counted, Saving, Spared, Limited

(* One request goes on, whose process holds no renewal of its own. *)
LEMMA OneCall ==
    ASSUME Fits, NEW c \in Calls, NEW d \in Call, call' = [call EXCEPT ![c] = d],
           UNCHANGED <<pair, renewing>>,
           \A p \in Procs : ~Free(p) => renewing[p].call # c
    PROVE  Underways'
<1>1. call \in [Calls -> Call] /\ renewing \in [Procs -> Renewal]
  BY DEF Fits, Underways
<1>2. call' \in [Calls -> Call] /\ \A e \in Calls \ {c} : call'[e] = call[e]
  BY <1>1
<1>3. ASSUME NEW p \in Procs, ~Free(p)
      PROVE  /\ Caller[renewing[p].call] = p /\ pair[p] # NoPair
             /\ call'[renewing[p].call].at = "renew"
  <2>1. /\ Caller[renewing[p].call] = p /\ pair[p] # NoPair
        /\ call[renewing[p].call].at = "renew" /\ renewing[p].call # c
    BY <1>3 DEF Fits, Underways
  <2>2. renewing[p].call \in Calls
    BY <1>1, <1>3, Renewals DEF Free
  <2> QED BY <1>2, <2>1, <2>2
<1> QED BY <1>1, <1>2, <1>3 DEF Underways, Free

LEMMA AccessFits == ASSUME Fits, NEW c \in Calls, Access(c) PROVE Fits'
<1>1. /\ Caller[c] \in Procs /\ pair[Caller[c]] \in Pair /\ pair[Caller[c]] # NoPair
      /\ call[c] = Resting
  BY ConstantsAssumption DEF Access, Fits, Copies
<1>2. PICK d \in Call : call' = [call EXCEPT ![c] = d]
  <2>1. pair[Caller[c]] \in Token /\ NoPair \in Pair /\ FALSE \in BOOLEAN
    BY <1>1, NoPairIsNoToken
  <2>2. /\ [at |-> "renew", tok |-> NoPair, again |-> FALSE] \in Call
        /\ [at |-> "sent", tok |-> pair[Caller[c]], again |-> FALSE] \in Call
    BY <2>1, Requests
  <2> QED BY <2>2 DEF Access
<1>3. \A p \in Procs : ~Free(p) => renewing[p].call # c
  BY <1>1, Requests DEF Fits, Underways
<1>4. UNCHANGED <<service, store, pair, pending, renewing, person, lost, events>>
  BY DEF Access
<1>5. Underways'
  BY <1>2, <1>3, <1>4, OneCall
<1> QED BY <1>4, <1>5, UnchangedFits DEF Fits, service

LEMMA AnswerFits == ASSUME Fits, NEW c \in Calls, Answer(c) PROVE Fits'
<1>1. call \in [Calls -> Call] /\ call[c] \in Call /\ call[c].at = "sent"
  BY DEF Answer, Fits, Underways
<1>2. PICK d \in Call : call' = [call EXCEPT ![c] = d]
  <2>1. call[c].tok \in Pair
    BY <1>1, Requests DEF Pair
  <2>2. [at |-> "renew", tok |-> call[c].tok, again |-> TRUE] \in Call /\ Resting \in Call
    BY <2>1, Requests
  <2>3. call' = [call EXCEPT ![c] = IF Live(call[c].tok) \/ call[c].again THEN Resting
                                    ELSE [at |-> "renew", tok |-> call[c].tok, again |-> TRUE]]
    BY <1>1 DEF Answer
  <2> QED BY <2>2, <2>3
<1>3. \A p \in Procs : ~Free(p) => renewing[p].call # c
  BY <1>1 DEF Fits, Underways
<1>4. UNCHANGED <<service, store, pair, pending, renewing, person, lost, events>>
  BY DEF Answer
<1>5. Underways'
  BY <1>2, <1>3, <1>4, OneCall
<1> QED BY <1>4, <1>5, UnchangedFits DEF Fits, service

(* What Renew comes to: the call ends or is sent, with the pair held, or what the store holds
   is adopted and, if need be, renewed. *)
Adopts(p, c, s) ==
    /\ pair[p] # NoPair /\ Stored(p, s) /\ s \in {store, pair[p]}
    /\ pair' = [pair EXCEPT ![p] = s]
    /\ \/ /\ \E d \in Call : d.at # "renew" /\ (d.at = "sent" => d.tok = s /\ s # NoPair)
                               /\ call' = [call EXCEPT ![c] = d]
          /\ UNCHANGED renewing
       \/ /\ s # NoPair /\ (call[c].tok = s \/ s \in due)
          /\ renewing' = [renewing EXCEPT ![p] = [at |-> "asked", call |-> c, tok |-> s]]
          /\ UNCHANGED call
Renews(p, c) ==
    /\ Caller[c] = p /\ call[c].at = "renew" /\ Free(p)
    /\ \/ /\ \E d \in Call : d.at # "renew" /\ (d.at = "sent" => d.tok = pair[p] /\ pair[p] # NoPair)
                               /\ call' = [call EXCEPT ![c] = d]
          /\ UNCHANGED <<pair, renewing, events>>
       \/ \E s \in Pair : Adopts(p, c, s)

LEMMA RenewFacts ==
    ASSUME Fits, NEW c \in Calls, Renew(c)
    PROVE  Caller[c] \in Procs /\ Renews(Caller[c], c)
<1> DEFINE p == Caller[c]
<1>1. /\ p \in Procs /\ call[c] \in Call /\ call[c].at = "renew" /\ Free(p)
      /\ store \in Pair /\ pair[p] \in Pair /\ call \in [Calls -> Call]
  BY ConstantsAssumption DEF Renew, Fits, Copies, Underways
<1>2. call[c].again \in BOOLEAN /\ Resting \in Call /\ Resting.at = "idle"
  BY <1>1, Requests
<1>3. CASE pair[p] = NoPair /\ call' = [call EXCEPT ![c] = Resting] /\ UNCHANGED <<pair, renewing, events>>
  BY <1>1, <1>2, <1>3 DEF Renews
<1>4. CASE /\ pair[p] # NoPair
           /\ call' = [call EXCEPT ![c] = [at |-> "sent", tok |-> pair[p], again |-> TRUE]]
           /\ UNCHANGED <<pair, renewing, events>>
  <2> DEFINE d == [at |-> "sent", tok |-> pair[p], again |-> TRUE]
  <2>1. pair[p] \in Token
    BY <1>1, <1>4, NoPairIsNoToken
  <2>2. d \in Call /\ d.at = "sent" /\ d.tok = pair[p]
    BY <2>1, Requests
  <2> QED BY <1>1, <1>4, <2>2 DEF Renews
<1>5. ASSUME NEW s \in {store, pair[p]}, pair[p] # NoPair, Stored(p, s),
             pair' = [pair EXCEPT ![p] = s], Adopt(p, c, s)
      PROVE  Renews(p, c)
  <2>1. s \in Pair
    BY <1>1
  <2>2. CASE s = NoPair
    BY <1>1, <1>2, <1>5, <2>1, <2>2 DEF Adopt, Renews, Adopts
  <2>3. CASE s # NoPair /\ (call[c].tok = s \/ s \in due)
    BY <1>1, <1>5, <2>1, <2>3 DEF Adopt, Renewed, Renews, Adopts
  <2>4. CASE s # NoPair /\ ~(call[c].tok = s \/ s \in due)
    <3> DEFINE d == [at |-> "sent", tok |-> s, again |-> call[c].again]
    <3>1. s \in Token
      BY <2>1, <2>4, NoPairIsNoToken
    <3>2. d \in Call /\ d.at = "sent" /\ d.tok = s
      BY <1>2, <3>1, Requests
    <3>3. call' = [call EXCEPT ![c] = d] /\ UNCHANGED renewing
      BY <1>1, <1>5, <2>4 DEF Adopt, Renewed
    <3> HIDE DEF d
    <3>4. Adopts(p, c, s)
      BY <1>5, <2>4, <3>2, <3>3 DEF Adopts
    <3> QED BY <1>1, <2>1, <3>4 DEF Renews
  <2> QED BY <2>2, <2>3, <2>4
<1> QED BY <1>1, <1>3, <1>4, <1>5 DEF Renew

LEMMA RenewFits == ASSUME Fits, NEW c \in Calls, Renew(c) PROVE Fits'
<1>1. PICK p \in Procs : Renews(p, c)
  BY RenewFacts
<1>2. UNCHANGED <<service, store, pending, person, lost>>
  BY DEF Renew
<1>3. /\ renewing \in [Procs -> Renewal] /\ call \in [Calls -> Call]
      /\ pair \in [Procs -> Pair] /\ store \in Pair /\ pair[p] \in Pair
      /\ Caller[c] = p /\ call[c].at = "renew" /\ Free(p)
  BY <1>1 DEF Fits, Underways, Copies, Renews
<1>4. \A q \in Procs : ~Free(q) => renewing[q].call # c /\ q # p
  BY <1>3 DEF Fits, Underways
<1>5. Endpoint' /\ Persons'
  BY <1>2, UnchangedFits DEF service
<1>6. ASSUME NEW d \in Call, call' = [call EXCEPT ![c] = d], UNCHANGED <<pair, renewing, events>>
      PROVE  Fits'
  <2>1. Underways'
    BY <1>4, <1>6, OneCall
  <2> QED BY <1>2, <1>5, <1>6, <2>1, UnchangedFits DEF Fits
<1>7. ASSUME NEW s \in Pair, Adopts(p, c, s) PROVE Fits'
  <2>1. pair' = [pair EXCEPT ![p] = s] /\ Stored(p, s)
    BY <1>7 DEF Adopts
  <2>2. Copies'
    BY <1>2, <1>3, <2>1 DEF Fits, Copies
  <2>3. Counted'
    BY <1>2, <2>1, StrikeCounts, QuietCounts DEF Stored, Counts, Fits, Counted
  <2>4. \A q \in Procs \ {p} : pair'[q] = pair[q]
    BY <1>3, <2>1
  <2>5. CASE UNCHANGED renewing /\ \E d \in Call : call' = [call EXCEPT ![c] = d]
    <3>1. call' \in [Calls -> Call] /\ \A e \in Calls \ {c} : call'[e] = call[e]
      BY <1>3, <2>5
    <3>2. ASSUME NEW q \in Procs, ~Free(q)
          PROVE  /\ Caller[renewing[q].call] = q /\ pair'[q] # NoPair
                 /\ call'[renewing[q].call].at = "renew"
      <4>1. /\ Caller[renewing[q].call] = q /\ pair[q] # NoPair /\ renewing[q].call # c /\ q # p
            /\ call[renewing[q].call].at = "renew" /\ renewing[q].call \in Calls
        BY <1>3, <1>4, <3>2, Renewals DEF Fits, Underways, Free
      <4> QED BY <2>4, <3>1, <4>1
    <3>3. Underways'
      BY <1>3, <2>5, <3>1, <3>2 DEF Underways, Free
    <3> QED BY <1>5, <2>2, <2>3, <3>3 DEF Fits
  <2>6. CASE /\ s # NoPair /\ UNCHANGED call
             /\ renewing' = [renewing EXCEPT ![p] = [at |-> "asked", call |-> c, tok |-> s]]
    <3> DEFINE r == [at |-> "asked", call |-> c, tok |-> s]
    <3>1. s \in Token
      BY <2>6, NoPairIsNoToken
    <3>2. r \in Renewal /\ r.call = c
      BY <3>1, Renewals DEF Underway
    <3>3. renewing' = [renewing EXCEPT ![p] = r]
      BY <2>6
    <3> HIDE DEF r
    <3>4. /\ renewing' \in [Procs -> Renewal] /\ renewing'[p] = r
          /\ \A q \in Procs \ {p} : renewing'[q] = renewing[q]
      BY <1>3, <3>2, <3>3
    <3>5. ASSUME NEW q \in Procs, renewing'[q] # Idle
          PROVE  /\ Caller[renewing'[q].call] = q /\ pair'[q] # NoPair
                 /\ call'[renewing'[q].call].at = "renew"
      <4>1. CASE q = p
        BY <1>3, <2>1, <2>6, <3>2, <3>4, <4>1
      <4>2. CASE q # p
        BY <2>4, <2>6, <3>4, <3>5, <4>2 DEF Fits, Underways, Free
      <4> QED BY <4>1, <4>2
    <3>6. Underways'
      BY <1>3, <2>6, <3>4, <3>5 DEF Underways, Free
    <3> QED BY <1>5, <2>2, <2>3, <3>6 DEF Fits
  <2> QED BY <1>7, <2>5, <2>6 DEF Adopts
<1> QED BY <1>1, <1>6, <1>7 DEF Renews

(* A renewal ends, and what its request becomes. *)
LEMMA EndsRenewal ==
    ASSUME Fits, NEW p \in Procs, ~Free(p), NEW d \in Call,
           renewing' = [renewing EXCEPT ![p] = Idle],
           call' = [call EXCEPT ![renewing[p].call] = d],
           \A q \in Procs \ {p} : pair'[q] = pair[q]
    PROVE  Underways'
<1>1. renewing \in [Procs -> Renewal] /\ call \in [Calls -> Call]
  BY DEF Fits, Underways
<1>2. /\ renewing' \in [Procs -> Renewal] /\ call' \in [Calls -> Call] /\ renewing'[p] = Idle
      /\ \A q \in Procs \ {p} : renewing'[q] = renewing[q]
      /\ \A e \in Calls \ {renewing[p].call} : call'[e] = call[e]
  BY <1>1, Renewals
<1>3. ASSUME NEW q \in Procs, renewing'[q] # Idle
      PROVE  /\ Caller[renewing'[q].call] = q /\ pair'[q] # NoPair
             /\ call'[renewing'[q].call].at = "renew"
  <2>1. q # p /\ renewing'[q] = renewing[q] /\ ~Free(q)
    BY <1>2, <1>3 DEF Free
  <2>2. /\ Caller[renewing[q].call] = q /\ Caller[renewing[p].call] = p /\ pair[q] # NoPair
        /\ call[renewing[q].call].at = "renew"
    BY <2>1 DEF Fits, Underways
  <2>3. renewing[q].call \in Calls
    BY <1>1, <2>1, Renewals DEF Free
  <2> QED BY <1>2, <2>1, <2>2, <2>3
<1> QED BY <1>2, <1>3 DEF Underways, Free

(* What the token endpoint does: a new pair, an answer or none that ends the renewal. *)
Fails(p) == /\ renewing' = [renewing EXCEPT ![p] = Idle]
            /\ call' = [call EXCEPT ![renewing[p].call] = Resting]
Serves(p) ==
    LET r == renewing[p] IN
    /\ r \in Underway /\ r.at = "asked" /\ ~Free(p)
    /\ \/ /\ rotates => r.tok = Newest(r.tok.grant)
          /\ latest[r.tok.grant] < MaxGen /\ Issue(r.tok.grant)
          /\ \E s \in Underway : /\ s.at = "renewed" /\ s.call = r.call
                                 /\ s.tok = [grant |-> r.tok.grant, gen |-> latest[r.tok.grant] + 1]
                                 /\ renewing' = [renewing EXCEPT ![p] = s]
          /\ UNCHANGED <<call, lost, events>>
       \/ Fails(p) /\ UNCHANGED latest /\ lost' = lost /\ Counts
       \/ /\ rotates => r.tok = Newest(r.tok.grant)
          /\ latest[r.tok.grant] < MaxGen /\ Issue(r.tok.grant) /\ Fails(p)
          /\ lost' = lost \cup {r.tok.grant} /\ Counts

LEMMA ServeFacts == ASSUME Fits, NEW p \in Procs, Serve(p) PROVE Serves(p)
<1> DEFINE r == renewing[p]
           g == r.tok.grant
<1>1. r \in Renewal /\ r.at = "asked"
  BY DEF Fits, Underways, Serve
<1>2. r \in Underway /\ ~Free(p)
  BY <1>1, Renewals DEF Free, Idle
<1>3. g \in Grant /\ r.tok \in Token /\ r.tok.gen \in 0..MaxGen
  BY <1>2 DEF Underway, Token
<1>4. latest[g] \in 0..MaxGen
  BY <1>3 DEF Fits, Endpoint
<1>5. CASE /\ rotates => r.tok = Newest(g)
           /\ latest[g] < MaxGen /\ Issue(g)
           /\ renewing' = [renewing EXCEPT ![p].at = "renewed", ![p].tok.gen = latest[g] + 1]
           /\ UNCHANGED <<call, lost, events>>
  <2> DEFINE t == [grant |-> g, gen |-> latest[g] + 1]
             s == [at |-> "renewed", call |-> r.call, tok |-> t]
  <2>1. t \in Token
    BY <1>3, <1>4, <1>5, ConstantsAssumption DEF Token
  <2>2. s \in Underway /\ s.at = "renewed" /\ s.call = r.call /\ s.tok = t
    BY <1>2, <2>1 DEF Underway
  <2>3. [r.tok EXCEPT !.gen = latest[g] + 1] = t
    BY <1>3 DEF Token
  <2>4. [[r EXCEPT !.at = "renewed"] EXCEPT !.tok = t] = s
    <3> HIDE DEF r, t
    <3>1. \E x, a, b : r = [at |-> x, call |-> a, tok |-> b]
      BY <1>2 DEF Underway
    <3>2. PICK x, a, b : r = [at |-> x, call |-> a, tok |-> b]
      BY <3>1
    <3>3. r.call = a
      BY <3>2
    <3>4. [r EXCEPT !.at = "renewed"] = [at |-> "renewed", call |-> a, tok |-> b]
      BY <3>2
    <3>5. [[at |-> "renewed", call |-> a, tok |-> b] EXCEPT !.tok = t]
            = [at |-> "renewed", call |-> a, tok |-> t]
      OBVIOUS
    <3> QED BY <3>3, <3>4, <3>5
  <2>5. renewing' = [renewing EXCEPT ![p] = s]
    BY <1>2, <1>5, <2>3, <2>4 DEF Underway
  <2> HIDE DEF s
  <2> QED BY <1>1, <1>2, <1>5, <2>2, <2>5 DEF Serves
<1>6. CASE Fails(p) /\ UNCHANGED <<latest, lost, events>>
  BY <1>1, <1>2, <1>6, QuietCounts DEF Serves
<1>7. CASE Strike({"lost"}) /\ Fails(p) /\ UNCHANGED <<latest, lost>>
  BY <1>1, <1>2, <1>7, StrikeCounts DEF Serves
<1>8. CASE /\ rotates => r.tok = Newest(g)
           /\ latest[g] < MaxGen /\ Strike({"lost"}) /\ Fails(p) /\ Issue(g)
           /\ lost' = lost \cup {g}
  BY <1>1, <1>2, <1>8, StrikeCounts DEF Serves
<1> QED BY <1>5, <1>6, <1>7, <1>8 DEF Serve, Fails

LEMMA IssueFits ==
    ASSUME Fits, NEW g \in Grant, latest[g] < MaxGen, Issue(g), UNCHANGED <<rotates, due>>
    PROVE  Endpoint'
<1>1. latest[g] \in 0..MaxGen /\ MaxGen \in Nat
  BY ConstantsAssumption DEF Fits, Endpoint
<1>2. latest[g] + 1 \in 0..MaxGen
  BY <1>1
<1> QED BY <1>2 DEF Issue, Fits, Endpoint

LEMMA ServeFits == ASSUME Fits, NEW p \in Procs, Serve(p) PROVE Fits'
<1> DEFINE g == renewing[p].tok.grant
<1>1. Serves(p) /\ UNCHANGED <<rotates, due, store, pair, pending, person>>
  BY ServeFacts DEF Serve
<1>2. renewing[p] \in Underway /\ ~Free(p) /\ g \in Grant
  BY <1>1 DEF Serves, Underway, Token
<1>3. Copies' /\ Persons'
  BY <1>1, UnchangedFits
<1>4. Endpoint'
  BY <1>1, <1>2, IssueFits, UnchangedFits DEF Serves
<1>5. Counted'
  BY <1>1, <1>2 DEF Serves, Counts, Fits, Counted
<1>6. CASE Fails(p)
  <2>1. Underways'
    BY <1>1, <1>2, <1>6, EndsRenewal, Requests DEF Fails
  <2> QED BY <1>3, <1>4, <1>5, <2>1 DEF Fits
<1>7. ASSUME NEW s \in Underway, s.call = renewing[p].call,
             renewing' = [renewing EXCEPT ![p] = s], UNCHANGED call
      PROVE  Fits'
  <2>1. renewing \in [Procs -> Renewal] /\ call \in [Calls -> Call] /\ s \in Renewal
    BY Renewals DEF Fits, Underways
  <2>2. /\ renewing' \in [Procs -> Renewal] /\ renewing'[p] = s
        /\ \A q \in Procs \ {p} : renewing'[q] = renewing[q]
    BY <1>7, <2>1
  <2>3. ASSUME NEW q \in Procs, renewing'[q] # Idle
        PROVE  /\ Caller[renewing'[q].call] = q /\ pair'[q] # NoPair
               /\ call'[renewing'[q].call].at = "renew"
    <3>1. ~Free(q) /\ renewing'[q].call = renewing[q].call
      BY <1>2, <1>7, <2>2, <2>3 DEF Free
    <3> QED BY <1>1, <1>7, <3>1 DEF Fits, Underways
  <2>4. Underways'
    BY <1>7, <2>1, <2>2, <2>3 DEF Underways, Free
  <2> QED BY <1>3, <1>4, <1>5, <2>4 DEF Fits
<1> QED BY <1>1, <1>6, <1>7 DEF Serves

(* What a save comes to: the renewed pair is held, and stored or left to the next drain. *)
Saves(p) ==
    LET r == renewing[p] IN
    /\ r \in Underway /\ r.at = "renewed" /\ ~Free(p)
    /\ \/ store' = r.tok /\ UNCHANGED <<events, pending>>
       \/ /\ UNCHANGED store /\ pending' = [pending EXCEPT ![p] = r.tok]
          /\ Counts /\ ~Saving' /\ (Spared' => Saving)
    /\ pair' = [pair EXCEPT ![p] = r.tok]
    /\ renewing' = [renewing EXCEPT ![p] = Idle]
    /\ \E d \in Call : d.at = "sent" /\ d.tok = r.tok /\ call' = [call EXCEPT ![r.call] = d]

LEMMA SaveFacts == ASSUME Fits, NEW p \in Procs, Save(p) PROVE Saves(p)
<1> DEFINE r == renewing[p]
           d == [at |-> "sent", tok |-> r.tok, again |-> call[r.call].again]
<1>1. r \in Renewal /\ r.at = "renewed" /\ call \in [Calls -> Call]
  BY DEF Fits, Underways, Save
<1>2. r \in Underway /\ ~Free(p) /\ r.tok \in Token /\ r.call \in Calls
  BY <1>1, Renewals DEF Free, Idle
<1>3. call[r.call] \in Call /\ call[r.call].at = "renew"
  BY <1>1, <1>2 DEF Fits, Underways
<1>4. d \in Call /\ d.at = "sent" /\ d.tok = r.tok
  BY <1>2, <1>3, Requests
<1>5. /\ pair' = [pair EXCEPT ![p] = r.tok] /\ renewing' = [renewing EXCEPT ![p] = Idle]
      /\ call' = [call EXCEPT ![r.call] = d]
  BY <1>1, <1>2 DEF Save, Hold
<1>6. \/ store' = r.tok /\ UNCHANGED <<events, pending>>
      \/ /\ UNCHANGED store /\ pending' = [pending EXCEPT ![p] = r.tok]
         /\ Counts /\ ~Saving' /\ (Spared' => Saving)
  BY StrikeCounts DEF Save, StorePair, StoreFails
<1> HIDE DEF d
<1> QED BY <1>1, <1>2, <1>4, <1>5, <1>6 DEF Saves

LEMMA SaveFits == ASSUME Fits, NEW p \in Procs, Save(p) PROVE Fits'
<1>1. Saves(p) /\ UNCHANGED <<rotates, latest, due, grants, accepting, forgetting, lost>>
  BY SaveFacts DEF Save, Hold, service, person
<1>2. renewing[p].tok \in Pair /\ ~Free(p)
  BY <1>1, Renewals DEF Saves, Pair
<1>3. Copies'
  BY <1>1, <1>2 DEF Saves, Fits, Copies
<1>4. Counted'
  BY <1>1 DEF Saves, Counts, Fits, Counted
<1>5. Underways'
  <2>1. \A q \in Procs \ {p} : pair'[q] = pair[q]
    BY <1>1 DEF Saves, Fits, Copies
  <2> QED BY <1>1, <1>2, <2>1, EndsRenewal DEF Saves
<1> QED BY <1>1, <1>3, <1>4, <1>5, UnchangedFits DEF Fits, person

LEMMA PersistFacts ==
    ASSUME Fits, NEW p \in Procs, Persist(p)
    PROVE  /\ pending' = [pending EXCEPT ![p] = NoPair] /\ pending[p] # NoPair
           /\ \/ store' = pending[p] /\ UNCHANGED events
              \/ UNCHANGED store /\ Counts /\ (Spared' => Saving)
BY StrikeCounts DEF Persist, StorePair, StoreFails

LEMMA PersistFits == ASSUME Fits, NEW p \in Procs, Persist(p) PROVE Fits'
<1>1. UNCHANGED <<service, pair, renewing, call, person, lost>>
  BY DEF Persist
<1>2. Copies'
  BY <1>1, PersistFacts, NoPairIsNoToken DEF Fits, Copies
<1>3. Counted'
  BY <1>1, PersistFacts DEF Counts, Fits, Counted
<1> QED BY <1>1, <1>2, <1>3, UnchangedFits DEF Fits, service

LEMMA TaskFits ==
    ASSUME Fits, NEW p \in Procs, Forget(p) \/ \E t \in accepting[p] : Accept(p, t)
    PROVE  Fits'
<1>1. /\ Free(p) /\ UNCHANGED <<service, store, renewing, call, grants, lost, events>>
      /\ \A q \in Procs \ {p} : pair'[q] = pair[q]
  BY DEF Forget, Accept, Fits, Copies
<1>2. Underways'
  <2>1. ASSUME NEW q \in Procs, ~Free(q) PROVE pair'[q] = pair[q]
    BY <1>1, <2>1
  <2> QED BY <1>1, <2>1 DEF Fits, Underways, Free
<1>3. CASE Forget(p)
  <2>1. Copies'
    BY <1>1, <1>3, NoPairIsNoToken DEF Forget, Fits, Copies
  <2>2. Persons'
    BY <1>1, <1>3 DEF Forget, Fits, Persons
  <2> QED BY <1>1, <1>2, <2>1, <2>2, UnchangedFits DEF Fits, service
<1>4. ASSUME NEW t \in accepting[p], Accept(p, t) PROVE Fits'
  <2>1. t \in Pair
    BY DEF Fits, Persons, Pair
  <2>2. Copies'
    BY <1>1, <1>4, <2>1 DEF Accept, Fits, Copies
  <2>3. Persons'
    BY <1>1, <1>4 DEF Accept, Fits, Persons
  <2> QED BY <1>1, <1>2, <2>2, <2>3, UnchangedFits DEF Fits, service
<1> QED BY <1>3, <1>4

LEMMA SignInFacts ==
    ASSUME Fits, NEW p \in Procs, SignIn(p)
    PROVE  \E t \in Token : /\ t.grant = grants + 1 /\ t.gen = 0 /\ grants' = grants + 1
                            /\ grants' \in Grant
                            /\ store' \in {store, t} /\ Counts
                            /\ \/ accepting' = [accepting EXCEPT ![p] = @ \cup {t}]
                               \/ UNCHANGED accepting
<1> DEFINE t == [grant |-> grants + 1, gen |-> 0]
<1>1. grants \in Grant /\ grants < MaxGrants /\ grants' = grants + 1
  BY DEF SignIn, Fits, Persons
<1>2. t \in Token /\ grants' \in Grant
  BY <1>1, ConstantsAssumption DEF Token, Grant
<1>3. store' \in {store, t} /\ Counts
  BY StrikeCounts DEF SignIn
<1>4. accepting' = [accepting EXCEPT ![p] = @ \cup {t}] \/ UNCHANGED accepting
  BY DEF SignIn
<1> QED BY <1>1, <1>2, <1>3, <1>4

LEMMA SignInFits == ASSUME Fits, NEW p \in Procs, SignIn(p) PROVE Fits'
<1>1. PICK t \in Token : /\ grants' \in Grant /\ store' \in {store, t} /\ Counts
                         /\ \/ accepting' = [accepting EXCEPT ![p] = @ \cup {t}]
                            \/ UNCHANGED accepting
  BY SignInFacts
<1>2. UNCHANGED <<service, memory, forgetting, lost>>
  BY DEF SignIn
<1>3. Copies'
  BY <1>1, <1>2 DEF memory, Fits, Copies, Pair
<1>4. Persons'
  BY <1>1, <1>2 DEF Fits, Persons
<1>5. Counted'
  BY <1>1, <1>2 DEF Fits, Counted, Counts
<1> QED BY <1>2, <1>3, <1>4, <1>5, UnchangedFits DEF Fits, service, memory

LEMMA SignOutFacts ==
    ASSUME Fits, NEW p \in Procs, SignOut(p)
    PROVE  store' \in {store, NoPair} /\ Counts /\ (store' # NoPair => ~Saving' /\ (Spared' => Saving))
BY StrikeCounts DEF SignOut

LEMMA SignOutFits == ASSUME Fits, NEW p \in Procs, SignOut(p) PROVE Fits'
<1>1. UNCHANGED <<service, memory, grants, accepting, lost>> /\ forgetting' = [forgetting EXCEPT ![p] = TRUE]
  BY DEF SignOut
<1>2. Copies'
  BY <1>1, SignOutFacts, NoPairIsNoToken DEF memory, Fits, Copies
<1>3. Persons'
  BY <1>1 DEF Fits, Persons
<1>4. Counted'
  BY <1>1, SignOutFacts DEF Fits, Counted, Counts
<1> QED BY <1>1, <1>2, <1>3, <1>4, UnchangedFits DEF Fits, service, memory

(* What a restart comes to: as the store has it, the renewal served in the end or not. *)
Restarts(p) ==
    LET r == renewing[p] IN
    /\ Counts
    /\ \/ UNCHANGED latest
       \/ /\ r \in Underway /\ r.at = "asked" /\ latest[r.tok.grant] < MaxGen
          /\ rotates => r.tok = Newest(r.tok.grant)
          /\ Issue(r.tok.grant)
    /\ lost' \in SUBSET Grant
    /\ pair' = [pair EXCEPT ![p] = store] /\ pending' = [pending EXCEPT ![p] = NoPair]
    /\ renewing' = [renewing EXCEPT ![p] = Idle]
    /\ call' = [c \in Calls |-> IF Caller[c] = p THEN Resting ELSE call[c]]
    /\ accepting' = [accepting EXCEPT ![p] = {}] /\ forgetting' = [forgetting EXCEPT ![p] = FALSE]

LEMMA RestartFacts == ASSUME Fits, NEW p \in Procs, Restart(p) PROVE Restarts(p)
<1> DEFINE r == renewing[p]
           onlyHere == {h \in Grant : /\ HeldBy(p, Newest(h)) /\ store # Newest(h)
                                      /\ \A q \in Procs \ {p} : ~HeldBy(q, Newest(h))}
<1>1. r \in Renewal /\ lost \in SUBSET Grant /\ onlyHere \in SUBSET Grant
  BY DEF Fits, Underways, Counted
<1>2. r.at = "asked" => r \in Underway /\ r.tok.grant \in Grant
  BY <1>1, Renewals DEF Idle, Underway, Token
<1>3. Counts
  BY StrikeCounts DEF Restart
<1> HIDE DEF onlyHere
<1>4. \/ lost' = lost \cup onlyHere /\ UNCHANGED latest
      \/ /\ r.at = "asked" /\ latest[r.tok.grant] < MaxGen
         /\ rotates => r.tok = Newest(r.tok.grant)
         /\ Issue(r.tok.grant) /\ lost' = lost \cup onlyHere \cup {r.tok.grant}
  BY DEF Restart, onlyHere
<1>5. lost' \in SUBSET Grant
  BY <1>1, <1>2, <1>4
<1>6. /\ pair' = [pair EXCEPT ![p] = store] /\ pending' = [pending EXCEPT ![p] = NoPair]
      /\ renewing' = [renewing EXCEPT ![p] = Idle]
      /\ call' = [c \in Calls |-> IF Caller[c] = p THEN Resting ELSE call[c]]
      /\ accepting' = [accepting EXCEPT ![p] = {}] /\ forgetting' = [forgetting EXCEPT ![p] = FALSE]
  BY DEF Restart
<1> QED BY <1>2, <1>3, <1>4, <1>5, <1>6 DEF Restarts

LEMMA RestartFits == ASSUME Fits, NEW p \in Procs, Restart(p) PROVE Fits'
<1>1. Restarts(p) /\ UNCHANGED <<rotates, due, store, grants>>
  BY RestartFacts DEF Restart
<1>2. Endpoint'
  BY <1>1, IssueFits, UnchangedFits DEF Restarts, Underway, Token
<1>3. Copies'
  BY <1>1, NoPairIsNoToken DEF Restarts, Fits, Copies
<1>4. Persons'
  BY <1>1 DEF Restarts, Fits, Persons
<1>5. Counted'
  BY <1>1 DEF Restarts, Counted, Counts
<1>6. Underways'
  <2>1. renewing \in [Procs -> Renewal] /\ call \in [Calls -> Call] /\ pair \in [Procs -> Pair]
    BY DEF Fits, Underways, Copies
  <2>2. /\ renewing' \in [Procs -> Renewal] /\ renewing'[p] = Idle
        /\ \A q \in Procs \ {p} : renewing'[q] = renewing[q] /\ pair'[q] = pair[q]
    BY <1>1, <2>1, Renewals DEF Restarts
  <2>3. /\ call' \in [Calls -> Call] /\ \A c \in Calls : Caller[c] # p => call'[c] = call[c]
    BY <1>1, <2>1, Requests DEF Restarts
  <2>4. ASSUME NEW q \in Procs, renewing'[q] # Idle
        PROVE  /\ Caller[renewing'[q].call] = q /\ pair'[q] # NoPair
               /\ call'[renewing'[q].call].at = "renew"
    <3>1. q # p /\ renewing'[q] = renewing[q] /\ ~Free(q) /\ pair'[q] = pair[q]
      BY <2>2, <2>4 DEF Free
    <3>2. /\ Caller[renewing[q].call] = q /\ pair[q] # NoPair
          /\ call[renewing[q].call].at = "renew"
      BY <3>1 DEF Fits, Underways
    <3>3. renewing[q].call \in Calls
      BY <2>1, <3>1, Renewals DEF Free
    <3> QED BY <2>3, <3>1, <3>2, <3>3
  <2> QED BY <2>2, <2>3, <2>4 DEF Underways, Free
<1> QED BY <1>2, <1>3, <1>4, <1>5, <1>6 DEF Fits

LEMMA PassFits == ASSUME Fits, NEW t \in Token, Pass(t) PROVE Fits'
<1>1. due' = due \cup {t} /\ UNCHANGED <<rotates, latest, store, memory, person, lost, events>>
  BY DEF Pass
<1>2. Endpoint'
  BY <1>1 DEF Fits, Endpoint
<1> QED BY <1>1, <1>2, UnchangedFits DEF Fits, memory

LEMMA InitFits == Init => Fits
<1> SUFFICES ASSUME Init PROVE Fits
  OBVIOUS
<1> DEFINE first == [grant |-> 1, gen |-> 0]
<1>1. first \in Token /\ 1 \in Grant /\ 0 \in 0..MaxGen /\ 1 # 0
  BY ConstantsAssumption DEF Token, Grant
<1>2. first \in Pair /\ NoPair \in Pair
  BY <1>1, NoPairIsNoToken DEF Pair
<1>3. Endpoint
  BY <1>1, ConstantsAssumption DEF Init, Endpoint
<1>4. Copies
  BY <1>2 DEF Init, Copies
<1>5. Persons /\ Counted
  BY <1>1 DEF Init, Persons, Counted
<1>6. Underways
  BY Renewals, Requests DEF Init, Underways, Free
<1> QED BY <1>3, <1>4, <1>5, <1>6 DEF Fits

LEMMA NextFits == Fits /\ [Next]_vars => Fits'
<1> SUFFICES ASSUME Fits, [Next]_vars PROVE Fits'
  OBVIOUS
<1>1. CASE UNCHANGED vars
  BY <1>1, UnchangedFits DEF Fits, vars, service, memory, person
<1>2. ASSUME NEW c \in Calls, Ask(c) PROVE Fits'
  BY <1>2, AccessFits, AnswerFits, RenewFits DEF Ask
<1>3. ASSUME NEW p \in Procs, Request(p) \/ Persist(p) \/ Told(p) PROVE Fits'
  BY <1>3, ServeFits, SaveFits, PersistFits, TaskFits DEF Request, Told
<1>4. ASSUME NEW p \in Procs, SignIn(p) \/ SignOut(p) \/ Restart(p) PROVE Fits'
  BY <1>4, SignInFits, SignOutFits, RestartFits
<1>5. ASSUME NEW t \in Token, Pass(t) PROVE Fits'
  BY <1>5, PassFits
<1> QED BY <1>1, <1>2, <1>3, <1>4, <1>5 DEF Next

(* Every variable holds values of its type, and a renewal is of a request of its process
   that waits for it. *)
THEOREM TypeCorrect == Spec => []TypeOK
<1>1. Fits => TypeOK
  BY DEF Fits, Endpoint, Copies, Persons, Counted, Underways, TypeOK
<1> QED BY <1>1, InitFits, NextFits, PTL DEF Spec

(* A sign-out that has reached a process stands: the pair is put back by a sign-in or a
   restart only, since a renewal holds the lock that forget waits for, and none starts
   without a pair (Held::forget, Held::renew). *)
THEOREM Forgotten == Spec => ForgottenStays
<1>1. Fits /\ [Next]_vars =>
        [\A p \in Procs : pair[p] = NoPair /\ pair'[p] # NoPair =>
            \/ pair'[p] \in accepting[p]
            \/ Restart(p)]_vars
  <2> SUFFICES ASSUME Fits, Next, NEW p \in Procs, pair[p] = NoPair, pair'[p] # NoPair
               PROVE  pair'[p] \in accepting[p] \/ Restart(p)
    BY DEF vars, memory
  <2>1. ASSUME NEW c \in Calls, Ask(c) PROVE FALSE
    <3>1. CASE Access(c) \/ Answer(c)
      BY <3>1 DEF Access, Answer
    <3>2. CASE Renew(c)
      <4>1. PICK q \in Procs : Renews(q, c)
        BY <3>2, RenewFacts
      <4>2. PICK s \in Pair : pair[q] # NoPair /\ pair' = [pair EXCEPT ![q] = s]
        BY <4>1 DEF Renews, Adopts
      <4> QED BY <4>2 DEF Fits, Copies
    <3> QED BY <2>1, <3>1, <3>2 DEF Ask
  <2>2. ASSUME NEW q \in Procs, Request(q) PROVE FALSE
    <3>1. CASE Serve(q)
      BY <3>1 DEF Serve
    <3>2. CASE Save(q)
      <4>1. pair[q] # NoPair /\ pair' = [pair EXCEPT ![q] = renewing[q].tok]
        BY <3>2, SaveFacts DEF Saves, Fits, Underways
      <4> QED BY <4>1 DEF Fits, Copies
    <3> QED BY <2>2, <3>1, <3>2 DEF Request
  <2>3. ASSUME NEW q \in Procs, Persist(q) \/ SignIn(q) \/ SignOut(q) PROVE FALSE
    BY <2>3 DEF Persist, SignIn, SignOut, memory
  <2>4. ASSUME NEW q \in Procs, Told(q) PROVE pair'[p] \in accepting[p]
    BY <2>4, NoPairIsNoToken DEF Told, Forget, Accept, Fits, Copies
  <2>5. ASSUME NEW q \in Procs, Restart(q) PROVE Restart(p)
    BY <2>5 DEF Restart, Fits, Copies
  <2>6. ASSUME NEW t \in Token, Pass(t) PROVE FALSE
    BY <2>6 DEF Pass, memory
  <2> QED BY <2>1, <2>2, <2>3, <2>4, <2>5, <2>6 DEF Next
<1> QED BY <1>1, InitFits, NextFits, PTL DEF Spec, ForgottenStays

-----------------------------------------------------------------------------
(* Where pairs come from. *)

(* A pair some sign-in or renewal made. *)
Made(t)  == t.grant <= grants /\ t.gen <= latest[t.grant]
Trace(t) == t # NoPair => Made(t)

Fresh    == \A g \in Grant : g > grants => latest[g] = 0
Aged     == \A t \in due : Made(t)
Held     == Trace(store) /\ \A p \in Procs : Trace(pair[p]) /\ Trace(pending[p])
(* A renewal is asked of a pair close to its end, or of one that was rejected. *)
Asks(p)  == ~Free(p) =>
              /\ Made(renewing[p].tok)
              /\ renewing[p].at = "asked" => renewing[p].tok \in due \/ ~Live(renewing[p].tok)
Asking   == \A p \in Procs : Asks(p)
(* A sign-in still on its way to the pair has not been renewed by anyone. *)
Entering == \A p \in Procs : \A t \in accepting[p] :
              Made(t) /\ latest[t.grant] = 0 /\ t \notin due
(* A token was rejected because it no longer works. *)
Sound(c) == /\ call[c].at = "sent" => Made(call[c].tok)
            /\ call[c].at = "renew" /\ call[c].tok # NoPair =>
                 Made(call[c].tok) /\ ~Live(call[c].tok)
Calling  == \A c \in Calls : Sound(c)

Traced == Fresh /\ Aged /\ Held /\ Asking /\ Entering /\ Calling

LEMMA Numbers ==
    ASSUME Fits
    PROVE  /\ grants \in Nat /\ grants >= 1 /\ \A g \in Grant : g \in Nat /\ g >= 1 /\ latest[g] \in Nat
           /\ \A t \in Token : t.grant \in Grant /\ t.gen \in Nat
           /\ \A t \in Pair : t.grant \in Nat /\ t.gen \in Nat
           /\ \A t \in Pair : t # NoPair => t \in Token
           /\ NoPair.grant = 0 /\ NoPair.gen = 0
<1>1. MaxGen \in Nat /\ MaxGrants \in Nat
  BY ConstantsAssumption
<1>2. \A g \in Grant : g \in Nat /\ g >= 1
  BY <1>1 DEF Grant
<1>3. \A n \in 0..MaxGen : n \in Nat
  BY <1>1
<1>4. \A t \in Token : t.grant \in Grant /\ t.gen \in Nat
  BY <1>3 DEF Token
<1>5. \A g \in Grant : latest[g] \in Nat
  BY <1>3 DEF Fits, Endpoint
<1>6. NoPair.grant = 0 /\ NoPair.gen = 0
  BY DEF NoPair
<1>7. grants \in Nat /\ grants >= 1
  BY <1>2 DEF Fits, Persons
<1>8. \A t \in Pair : t.grant \in Nat /\ t.gen \in Nat
  BY <1>2, <1>4, <1>6 DEF Pair
<1> QED BY <1>2, <1>4, <1>5, <1>6, <1>7, <1>8, NoPairIsNoToken

LEMMA LiveIs ==
    /\ \A t \in Token : Live(t) <=> t.gen = latest[t.grant]
    /\ \A t \in Token : Live(t)' <=> t.gen = latest'[t.grant]
<1>1. \A t \in Token : \A n : t = [grant |-> t.grant, gen |-> n] <=> t.gen = n
  BY DEF Token
<1> QED BY <1>1 DEF Live, Newest

(* Sign-ins and renewals are only added. *)
Grows == grants' >= grants /\ \A g \in Grant : latest'[g] >= latest[g]

LEMMA MadeGrows ==
    ASSUME Fits, Fits', Grows, NEW t \in Token, Made(t)
    PROVE  Made(t)' /\ (~Live(t) => ~Live(t)')
<1>1. /\ t.grant \in Grant /\ t.gen \in Nat /\ t.grant \in Nat /\ grants \in Nat /\ grants' \in Nat
      /\ latest[t.grant] \in Nat /\ latest'[t.grant] \in Nat
  <2>1. /\ t.grant \in Grant /\ t.gen \in Nat /\ t.grant \in Nat /\ grants \in Nat
        /\ latest[t.grant] \in Nat
    BY Numbers
  <2>2. grants' \in Grant /\ latest'[t.grant] \in 0..MaxGen
    BY <2>1 DEF Fits, Persons, Endpoint
  <2> QED BY <2>1, <2>2, Numbers, ConstantsAssumption
<1>2. Made(t)'
  BY <1>1 DEF Made, Grows
<1>3. ~Live(t) => ~Live(t)'
  BY <1>1, LiveIs DEF Made, Grows
<1> QED BY <1>2, <1>3

LEMMA TraceGrows ==
    ASSUME Fits, Fits', Grows, NEW t \in Pair, Trace(t)
    PROVE  Trace(t)'
BY MadeGrows, NoPairIsNoToken DEF Trace

(* Who is where: the tokens of each part are tokens. *)
LEMMA Places ==
    ASSUME Fits
    PROVE  /\ due \subseteq Token /\ store \in Pair
           /\ \A p \in Procs : pair[p] \in Pair /\ pending[p] \in Pair /\ accepting[p] \subseteq Token
           /\ \A p \in Procs : ~Free(p) => renewing[p] \in Underway /\ renewing[p].tok \in Token
                                            /\ renewing[p].call \in Calls
           /\ \A c \in Calls : /\ call[c] \in Call
                               /\ call[c].at = "sent" => call[c].tok \in Token
                               /\ call[c].at = "renew" => call[c].tok \in Pair
<1>1. due \subseteq Token /\ store \in Pair
  BY DEF Fits, Endpoint, Copies
<1>2. \A p \in Procs : pair[p] \in Pair /\ pending[p] \in Pair /\ accepting[p] \subseteq Token
  BY DEF Fits, Copies, Persons
<1>3. \A p \in Procs : ~Free(p) => renewing[p] \in Underway /\ renewing[p].tok \in Token
                                   /\ renewing[p].call \in Calls
  BY Renewals DEF Fits, Underways, Free
<1>4. \A c \in Calls : call[c] \in Call
  BY DEF Fits, Underways
<1> QED BY <1>1, <1>2, <1>3, <1>4, Requests

LEMMA AsksKeeps ==
    ASSUME Fits, Fits', Grows, NEW p \in Procs, Asks(p), renewing'[p] = renewing[p],
           due \subseteq due'
    PROVE  Asks(p)'
<1> SUFFICES ASSUME ~Free(p)'
             PROVE  /\ Made(renewing[p].tok)'
                    /\ renewing'[p].at = "asked" => renewing'[p].tok \in due' \/ ~Live(renewing[p].tok)'
  BY DEF Asks
<1>1. ~Free(p) /\ renewing[p].tok \in Token
  BY Places DEF Free
<1> DEFINE t == renewing[p].tok
<1>2. t' = t /\ t \in Token /\ Made(t) /\ (renewing[p].at = "asked" => t \in due \/ ~Live(t))
  BY <1>1 DEF Asks
<1>3. Made(t)' /\ (~Live(t) => ~Live(t)')
  <2> HIDE DEF t
  <2>1. \A u \in Token : Made(u) => (u.grant <= grants' /\ u.gen <= latest'[u.grant])
                                    /\ (~Live(u) => u.gen # latest'[u.grant])
    BY MadeGrows, LiveIs DEF Made
  <2> QED BY <1>2, <2>1, LiveIs DEF Made, Live, Newest
<1> QED BY <1>2, <1>3

LEMMA SoundKeeps ==
    ASSUME Fits, Fits', Grows, NEW c \in Calls, Sound(c), call'[c] = call[c]
    PROVE  Sound(c)'
BY Places, NoPairIsNoToken, MadeGrows DEF Sound

LEMMA EntersKeeps ==
    ASSUME Fits, Fits', Traced, Grows, UNCHANGED <<accepting, latest, due>>
    PROVE  Entering'
BY Places, MadeGrows DEF Traced, Entering

LEMMA TracedKeeps ==
    ASSUME Fits, Fits', Traced, Grows
    PROVE  /\ UNCHANGED latest => Fresh'
           /\ UNCHANGED due => Aged'
           /\ UNCHANGED <<store, pair, pending>> => Held'
           /\ UNCHANGED <<renewing, due>> => Asking'
           /\ UNCHANGED <<accepting, latest, due>> => Entering'
           /\ UNCHANGED call => Calling'
<1>1. UNCHANGED latest => Fresh'
  <2>1. ASSUME NEW g \in Grant, g > grants' PROVE g > grants
    <3>1. g \in Nat /\ grants \in Nat /\ grants' \in Nat
      BY Numbers DEF Fits, Persons
    <3> QED BY <2>1, <3>1 DEF Grows
  <2> QED BY <2>1 DEF Traced, Fresh
<1>2. UNCHANGED due => Aged'
  BY Places, MadeGrows DEF Traced, Aged
<1>3. UNCHANGED <<store, pair, pending>> => Held'
  BY Places, TraceGrows DEF Traced, Held, Trace
<1>4. UNCHANGED <<renewing, due>> => Asking'
  BY AsksKeeps DEF Traced, Asking
<1>5. UNCHANGED call => Calling'
  BY SoundKeeps DEF Traced, Calling
<1> QED BY <1>1, <1>2, <1>3, <1>4, <1>5, EntersKeeps

LEMMA SameGrows == ASSUME Fits, UNCHANGED <<grants, latest>> PROVE Grows
BY Numbers DEF Grows

(* One request is sent with a pair that was made, or waits for another than was rejected. *)
LEMMA OneSound ==
    ASSUME Fits, Fits', Traced, UNCHANGED <<grants, latest>>, NEW c \in Calls, NEW d \in Call,
           call' = [call EXCEPT ![c] = d],
           d.at = "sent" => Made(d.tok),
           d.at = "renew" /\ d.tok # NoPair => Made(d.tok) /\ ~Live(d.tok)
    PROVE  Calling'
<1>1. call'[c] = d /\ \A e \in Calls \ {c} : call'[e] = call[e]
  BY DEF Fits, Underways
<1>2. Sound(c)'
  BY <1>1 DEF Sound, Made, Live, Newest
<1>3. \A e \in Calls \ {c} : Sound(e)'
  BY <1>1, SoundKeeps, SameGrows DEF Traced, Calling
<1> QED BY <1>2, <1>3 DEF Calling

LEMMA AccessTraced == ASSUME Fits, Fits', Traced, NEW c \in Calls, Access(c) PROVE Traced'
<1> DEFINE p == Caller[c]
<1>1. /\ p \in Procs /\ pair[p] \in Token /\ Made(pair[p])
      /\ UNCHANGED <<rotates, latest, due, store, pair, pending, renewing, grants, accepting, forgetting>>
  BY ConstantsAssumption, Places, NoPairIsNoToken DEF Access, service, person, Traced, Held, Trace
<1>2. Calling'
  <2>1. [at |-> "renew", tok |-> NoPair, again |-> FALSE] \in Call
    BY Requests, NoPairIsNoToken
  <2>2. [at |-> "sent", tok |-> pair[p], again |-> FALSE] \in Call
    BY <1>1, Requests
  <2>3. CASE pair[p] \in due
    <3>1. call' = [call EXCEPT ![c] = [at |-> "renew", tok |-> NoPair, again |-> FALSE]]
      BY <2>3 DEF Access
    <3> QED BY <1>1, <2>1, <3>1, OneSound
  <2>4. CASE pair[p] \notin due
    <3>1. call' = [call EXCEPT ![c] = [at |-> "sent", tok |-> pair[p], again |-> FALSE]]
      BY <2>4 DEF Access
    <3> QED BY <1>1, <2>2, <3>1, OneSound
  <2> QED BY <2>3, <2>4
<1> QED BY <1>1, <1>2, TracedKeeps, SameGrows DEF Traced

LEMMA AnswerTraced == ASSUME Fits, Fits', Traced, NEW c \in Calls, Answer(c) PROVE Traced'
<1>1. /\ call[c].tok \in Token /\ Made(call[c].tok)
      /\ UNCHANGED <<rotates, latest, due, store, pair, pending, renewing, grants, accepting, forgetting>>
  BY Places DEF Answer, service, person, Traced, Calling, Sound
<1>2. call' = [call EXCEPT ![c] = IF Live(call[c].tok) \/ call[c].again THEN Resting
                                  ELSE [at |-> "renew", tok |-> call[c].tok, again |-> TRUE]]
  BY DEF Answer, Fits, Underways
<1>3. Calling'
  <2>1. CASE Live(call[c].tok) \/ call[c].again
    <3>1. call' = [call EXCEPT ![c] = Resting]
      BY <1>2, <2>1
    <3> QED BY <1>1, <3>1, OneSound, Requests
  <2>2. CASE ~(Live(call[c].tok) \/ call[c].again)
    <3>1. call' = [call EXCEPT ![c] = [at |-> "renew", tok |-> call[c].tok, again |-> TRUE]]
      BY <1>2, <2>2
    <3>2. [at |-> "renew", tok |-> call[c].tok, again |-> TRUE] \in Call
      BY <1>1, Requests DEF Pair
    <3> QED BY <1>1, <2>2, <3>1, <3>2, OneSound
  <2> QED BY <2>1, <2>2
<1> QED BY <1>1, <1>3, TracedKeeps, SameGrows DEF Traced

LEMMA RenewTraced == ASSUME Fits, Fits', Traced, NEW c \in Calls, Renew(c) PROVE Traced'
<1>1. PICK p \in Procs : Renews(p, c)
  BY RenewFacts
<1>2. UNCHANGED <<latest, due, store, pending, grants, accepting>>
  BY DEF Renew, service, person
<1>3. Grows
  BY <1>2, SameGrows
<1>4. pair \in [Procs -> Pair] /\ renewing \in [Procs -> Renewal] /\ call[c] \in Call
  BY DEF Fits, Copies, Underways
<1>5. Fresh' /\ Aged' /\ Entering'
  BY <1>2, <1>3, TracedKeeps
<1>6. ASSUME NEW d \in Call, d.at # "renew", d.at = "sent" => d.tok = pair[p] /\ pair[p] # NoPair,
             call' = [call EXCEPT ![c] = d], UNCHANGED <<pair, renewing, events>>
      PROVE  Traced'
  <2>1. Calling'
    BY <1>2, <1>6, OneSound DEF Traced, Held, Trace
  <2> QED BY <1>2, <1>3, <1>5, <1>6, <2>1, TracedKeeps DEF Traced
<1>7. ASSUME NEW s \in Pair, Adopts(p, c, s) PROVE Traced'
  <2>1. Trace(s) /\ pair' = [pair EXCEPT ![p] = s]
    BY <1>7 DEF Adopts, Traced, Held
  <2>2. Held'
    <3>1. pair'[p] = s /\ \A q \in Procs \ {p} : pair'[q] = pair[q]
      BY <1>4, <2>1
    <3>2. Trace(pair[p])'
      BY <1>2, <2>1, <3>1 DEF Trace, Made
    <3>3. \A q \in Procs \ {p} : Trace(pair[q])'
      BY <1>2, <3>1 DEF Trace, Made, Traced, Held
    <3>4. Trace(store)' /\ \A q \in Procs : Trace(pending[q])'
      BY <1>2 DEF Trace, Made, Traced, Held
    <3> QED BY <3>2, <3>3, <3>4 DEF Held
  <2>3. CASE /\ UNCHANGED renewing
             /\ \E d \in Call : d.at # "renew" /\ (d.at = "sent" => d.tok = s /\ s # NoPair)
                                /\ call' = [call EXCEPT ![c] = d]
    <3>1. Calling'
      BY <1>2, <2>1, <2>3, OneSound DEF Trace
    <3> QED BY <1>2, <1>3, <1>5, <2>2, <2>3, <3>1, TracedKeeps DEF Traced
  <2>4. CASE /\ s # NoPair /\ (call[c].tok = s \/ s \in due) /\ UNCHANGED call
             /\ renewing' = [renewing EXCEPT ![p] = [at |-> "asked", call |-> c, tok |-> s]]
    <3>1. renewing'[p].tok = s /\ \A q \in Procs \ {p} : renewing'[q] = renewing[q]
      BY <1>4, <2>4
    <3>2. Made(s) /\ (s \in due \/ ~Live(s))
      <4>1. call[c].at = "renew" /\ (call[c].tok = s => ~Live(s))
        BY <1>1, <2>4 DEF Renews, Traced, Calling, Sound
      <4> QED BY <2>1, <2>4, <4>1 DEF Trace
    <3>3. Asks(p)'
      BY <1>2, <3>1, <3>2 DEF Asks, Made, Live, Newest
    <3>4. \A q \in Procs \ {p} : Asks(q)'
      BY <1>2, <1>3, <3>1, AsksKeeps DEF Traced, Asking
    <3> QED BY <1>3, <1>5, <2>2, <2>4, <3>3, <3>4, TracedKeeps DEF Traced, Asking
  <2> QED BY <1>7, <2>3, <2>4 DEF Adopts
<1> QED BY <1>1, <1>6, <1>7 DEF Renews

(* A renewal is served: nobody has yet to take in the sign-in it comes from. *)
LEMMA IssueTraced ==
    ASSUME Fits, Fits', Traced, NEW p \in Procs, renewing[p] \in Underway,
           renewing[p].at = "asked", Issue(renewing[p].tok.grant), UNCHANGED <<grants, due>>,
           \A q \in Procs : accepting'[q] \subseteq accepting[q]
    PROVE  /\ Grows /\ Fresh' /\ Entering'
           /\ latest'[renewing[p].tok.grant] = latest[renewing[p].tok.grant] + 1
           /\ \A h \in Grant \ {renewing[p].tok.grant} : latest'[h] = latest[h]
<1> DEFINE u == renewing[p].tok
           g == u.grant
<1>1. ~Free(p) /\ u \in Token /\ g \in Grant
  BY Renewals, Numbers DEF Free
<1>2. Made(u) /\ (u \in due \/ ~Live(u))
  BY <1>1 DEF Traced, Asking, Asks
<1> HIDE DEF u
<1>3. /\ latest'[g] = latest[g] + 1 /\ \A h \in Grant \ {g} : latest'[h] = latest[h]
      /\ latest[g] \in Nat /\ \A h \in Grant : latest[h] \in Nat
  BY <1>1, Numbers DEF Issue, Fits, Endpoint, u
<1>4. Grows
  BY <1>3, Numbers DEF Grows
<1>5. Fresh'
  <2>1. g <= grants /\ grants \in Nat /\ g \in Nat
    BY <1>1, <1>2, Numbers DEF Made
  <2> QED BY <1>3, <2>1 DEF Traced, Fresh
<1>6. ASSUME NEW q \in Procs, NEW t \in accepting'[q]
      PROVE  Made(t)' /\ latest'[t.grant] = 0 /\ t \notin due'
  <2>1. t \in Token /\ Made(t) /\ latest[t.grant] = 0 /\ t \notin due
    BY <1>6, Places DEF Traced, Entering
  <2>2. t.grant # g
    <3>1. SUFFICES ASSUME t.grant = g PROVE FALSE
      OBVIOUS
    <3>2. u.gen = 0 /\ t.gen = 0 /\ latest[g] = 0
      BY <1>1, <1>2, <2>1, <3>1, Numbers DEF Made
    <3>3. t = u
      BY <1>1, <2>1, <3>1, <3>2 DEF Token
    <3>4. Live(u)
      BY <1>1, <3>2, LiveIs
    <3> QED BY <1>2, <2>1, <3>3, <3>4
  <2>3. latest'[t.grant] = 0
    BY <1>3, <2>1, <2>2, Numbers
  <2> QED BY <1>4, <2>1, <2>3, MadeGrows
<1>7. Entering'
  BY <1>6 DEF Entering
<1> QED BY <1>3, <1>4, <1>5, <1>7 DEF u

LEMMA EndsTraced ==
    ASSUME Fits, Fits', Traced, Grows, NEW p \in Procs, UNCHANGED due,
           renewing' = [renewing EXCEPT ![p] = Idle]
    PROVE  Asking'
<1>1. renewing'[p] = Idle /\ \A q \in Procs \ {p} : renewing'[q] = renewing[q]
  BY DEF Fits, Underways
<1>2. Asks(p)'
  BY <1>1 DEF Asks, Free
<1> QED BY <1>1, <1>2, AsksKeeps DEF Traced, Asking

LEMMA ServeTraced == ASSUME Fits, Fits', Traced, NEW p \in Procs, Serve(p) PROVE Traced'
<1> DEFINE u == renewing[p].tok
           g == u.grant
<1>1. Serves(p) /\ UNCHANGED <<due, store, pair, pending, grants, accepting>>
  BY ServeFacts DEF Serve, person
<1>2. renewing[p] \in Underway /\ renewing[p].at = "asked" /\ ~Free(p) /\ u \in Token /\ g \in Grant
  BY <1>1, Renewals, Numbers DEF Serves
<1>3. /\ Grows /\ Fresh' /\ Entering'
      /\ Issue(g) => latest'[g] = latest[g] + 1
  <2>1. CASE UNCHANGED latest
    <3>1. Grows
      BY <1>1, <2>1, SameGrows
    <3>2. ~Issue(g)
      <4>1. latest[g] \in Nat /\ latest' = latest
        BY <1>2, <2>1, Numbers
      <4> QED BY <1>2, <4>1 DEF Issue, Fits, Endpoint
    <3> QED BY <1>1, <2>1, <3>1, <3>2, TracedKeeps
  <2>2. CASE Issue(g)
    BY <1>1, <1>2, <2>2, IssueTraced
  <2> QED BY <1>1, <2>1, <2>2 DEF Serves
<1>4. Aged' /\ Held'
  BY <1>1, <1>3, TracedKeeps
<1>5. CASE Fails(p)
  <2>1. Asking'
    BY <1>1, <1>3, <1>5, EndsTraced DEF Fails
  <2>2. PICK c \in Calls : /\ call'[c] = Resting
                           /\ \A e \in Calls \ {c} : call'[e] = call[e]
    BY <1>2, <1>5, Renewals DEF Fails, Fits, Underways
  <2>3. Sound(c)'
    BY <2>2, Requests DEF Sound
  <2>4. \A e \in Calls \ {c} : Sound(e)'
    BY <1>3, <2>2, SoundKeeps DEF Traced, Calling
  <2>5. Calling'
    BY <2>3, <2>4 DEF Calling
  <2> QED BY <1>3, <1>4, <2>1, <2>5 DEF Traced
<1>6. ASSUME NEW s \in Underway, s.at = "renewed", s.tok = [grant |-> g, gen |-> latest[g] + 1],
             Issue(g), renewing' = [renewing EXCEPT ![p] = s], UNCHANGED call
      PROVE  Traced'
  <2>1. renewing'[p] = s /\ \A q \in Procs \ {p} : renewing'[q] = renewing[q]
    BY <1>6 DEF Fits, Underways
  <2>2. Made(u) /\ g \in Nat /\ grants \in Nat /\ latest[g] \in Nat
    BY <1>2, Numbers DEF Traced, Asking, Asks
  <2>3. Made(s.tok)'
    <3>1. s.tok.grant = g /\ s.tok.gen = latest'[g] /\ g <= grants
      BY <1>3, <1>6, <2>2 DEF Made
    <3> HIDE DEF g
    <3> QED BY <1>1, <1>3, <1>6, <2>2, <3>1 DEF Made
  <2>4. Asks(p)'
    BY <1>6, <2>1, <2>3 DEF Asks, Made
  <2>5. \A q \in Procs \ {p} : Asks(q)'
    BY <1>1, <1>3, <2>1, AsksKeeps DEF Traced, Asking
  <2> QED BY <1>3, <1>4, <1>6, <2>4, <2>5, TracedKeeps DEF Traced, Asking
<1> QED BY <1>1, <1>5, <1>6 DEF Serves

LEMMA SaveTraced == ASSUME Fits, Fits', Traced, NEW p \in Procs, Save(p) PROVE Traced'
<1> DEFINE u == renewing[p].tok
<1>1. Saves(p) /\ UNCHANGED <<latest, due, grants, accepting>>
  BY SaveFacts DEF Save, Hold, service, person
<1>2. Grows /\ Fresh' /\ Aged' /\ Entering'
  BY <1>1, SameGrows, TracedKeeps
<1>3. u \in Token /\ Made(u) /\ Trace(u) /\ renewing[p].call \in Calls
  BY <1>1, Renewals DEF Saves, Traced, Asking, Asks, Trace
<1>4. Asking'
  BY <1>1, <1>2, EndsTraced DEF Saves
<1>5. Calling'
  BY <1>1, <1>3, OneSound DEF Saves
<1> HIDE DEF u
<1>6. /\ store' \in {store, u}
      /\ \A q \in Procs : pair'[q] \in {pair[q], u} /\ pending'[q] \in {pending[q], u}
  BY <1>1 DEF Saves, Fits, Copies, u
<1>7. Held'
  <2>1. \A t : Trace(t) => (t # NoPair => t.grant <= grants' /\ t.gen <= latest'[t.grant])
    BY <1>1 DEF Trace, Made
  <2>2. Trace(store) /\ Trace(u) /\ \A q \in Procs : Trace(pair[q]) /\ Trace(pending[q])
    BY <1>3 DEF Traced, Held
  <2> QED BY <1>6, <2>1, <2>2 DEF Held, Trace, Made
<1> QED BY <1>2, <1>4, <1>5, <1>7 DEF Traced

LEMMA PersistTraced == ASSUME Fits, Fits', Traced, NEW p \in Procs, Persist(p) PROVE Traced'
<1>1. UNCHANGED <<latest, due, pair, renewing, call, grants, accepting>>
  BY DEF Persist, service, person
<1>2. Grows
  BY <1>1, SameGrows
<1>3. store' \in {store, pending[p]} /\ \A q \in Procs : pending'[q] \in {pending[q], NoPair}
  BY PersistFacts DEF Fits, Copies
<1>4. Held'
  <2>1. \A t : Trace(t) => (t # NoPair => t.grant <= grants' /\ t.gen <= latest'[t.grant])
    BY <1>1 DEF Trace, Made
  <2>2. Trace(store) /\ \A q \in Procs : Trace(pair[q]) /\ Trace(pending[q])
    BY DEF Traced, Held
  <2> QED BY <1>1, <1>3, <2>1, <2>2 DEF Held, Trace, Made
<1> QED BY <1>1, <1>2, <1>4, TracedKeeps DEF Traced

LEMMA TaskTraced ==
    ASSUME Fits, Fits', Traced, NEW p \in Procs, Forget(p) \/ \E t \in accepting[p] : Accept(p, t)
    PROVE  Traced'
<1>1. UNCHANGED <<latest, due, store, renewing, call, grants>>
  BY DEF Forget, Accept, service
<1>2. Grows
  BY <1>1, SameGrows
<1>3. /\ \A q \in Procs : pair'[q] \in {pair[q], NoPair} \cup accepting[q]
      /\ \A q \in Procs : pending'[q] \in {pending[q], NoPair} /\ accepting'[q] \subseteq accepting[q]
  <2>1. CASE Forget(p)
    BY <2>1 DEF Forget, Fits, Copies
  <2>2. ASSUME NEW t \in accepting[p], Accept(p, t)
        PROVE  /\ \A q \in Procs : pair'[q] \in {pair[q], NoPair} \cup accepting[q]
               /\ \A q \in Procs : pending'[q] = pending[q] /\ accepting'[q] \subseteq accepting[q]
    BY <2>2 DEF Accept, Fits, Copies, Persons
  <2> QED BY <2>1, <2>2
<1>4. Held'
  <2>1. \A t : Trace(t) => (t # NoPair => t.grant <= grants' /\ t.gen <= latest'[t.grant])
    BY <1>1 DEF Trace, Made
  <2>2. /\ Trace(store) /\ \A q \in Procs : Trace(pair[q]) /\ Trace(pending[q])
        /\ \A q \in Procs : \A t \in accepting[q] : Trace(t)
    BY DEF Traced, Held, Entering, Trace
  <2> QED BY <1>1, <1>3, <2>1, <2>2 DEF Held, Trace, Made
<1>5. Entering'
  BY <1>1, <1>3 DEF Traced, Entering, Made
<1> QED BY <1>1, <1>2, <1>4, <1>5, TracedKeeps DEF Traced

LEMMA SignInTraced == ASSUME Fits, Fits', Traced, NEW p \in Procs, SignIn(p) PROVE Traced'
<1>1. PICK t \in Token : /\ t.grant = grants + 1 /\ t.gen = 0 /\ grants' = grants + 1
                         /\ store' \in {store, t}
                         /\ \/ accepting' = [accepting EXCEPT ![p] = @ \cup {t}]
                            \/ UNCHANGED accepting
  BY SignInFacts
<1>2. UNCHANGED <<latest, due, pair, pending, renewing, call>>
  BY DEF SignIn, service, memory
<1>3. grants \in Nat /\ t.grant \in Grant /\ \A g \in Grant : latest[g] \in Nat
  BY Numbers
<1>4. Grows
  BY <1>1, <1>2, <1>3 DEF Grows
<1>5. latest[t.grant] = 0 /\ t \notin due /\ Made(t)'
  <2>1. latest[t.grant] = 0
    BY <1>1, <1>3 DEF Traced, Fresh
  <2>2. t \notin due
    BY <1>1, <1>3 DEF Traced, Aged, Made
  <2> QED BY <1>1, <1>2, <1>3, <2>1, <2>2 DEF Made
<1>6. Held'
  <2>1. Trace(store)'
    <3>1. CASE store' = store
      <4>1. Trace(store) /\ store \in Pair
        BY Places DEF Traced, Held
      <4> QED BY <1>4, <3>1, <4>1, TraceGrows DEF Trace, Made
    <3>2. CASE store' = t
      BY <1>5, <3>2 DEF Trace, Made
    <3> QED BY <1>1, <3>1, <3>2
  <2>2. \A q \in Procs : Trace(pair[q])' /\ Trace(pending[q])'
    BY <1>2, <1>4, Places, TraceGrows DEF Traced, Held, Trace, Made
  <2> QED BY <2>1, <2>2 DEF Held
<1>7. Entering'
  <2>1. \A q \in Procs : accepting'[q] \subseteq accepting[q] \cup {t}
    BY <1>1 DEF Fits, Persons
  <2>2. ASSUME NEW q \in Procs, NEW v \in accepting[q]
        PROVE  v.grant <= grants' /\ v.gen <= latest'[v.grant] /\ latest'[v.grant] = 0 /\ v \notin due'
    BY <1>2, <1>4, Places, MadeGrows DEF Traced, Entering, Made
  <2> QED BY <1>2, <1>5, <2>1, <2>2 DEF Entering, Made
<1> QED BY <1>2, <1>4, <1>6, <1>7, TracedKeeps DEF Traced

LEMMA SignOutTraced == ASSUME Fits, Fits', Traced, NEW p \in Procs, SignOut(p) PROVE Traced'
<1>1. UNCHANGED <<latest, due, pair, pending, renewing, call, grants, accepting>>
  BY DEF SignOut, service, memory
<1>2. Grows
  BY <1>1, SameGrows
<1>3. Held'
  BY <1>1, SignOutFacts DEF Traced, Held, Trace, Made
<1> QED BY <1>1, <1>2, <1>3, TracedKeeps DEF Traced

LEMMA RestartTraced == ASSUME Fits, Fits', Traced, NEW p \in Procs, Restart(p) PROVE Traced'
<1>1. Restarts(p) /\ UNCHANGED <<due, store, grants>>
  BY RestartFacts DEF Restart
<1>2. \A q \in Procs : accepting'[q] \subseteq accepting[q]
  BY <1>1 DEF Restarts, Fits, Persons
<1>3. Grows /\ Fresh' /\ Entering'
  <2>1. CASE UNCHANGED latest
    <3>1. Grows
      BY <1>1, <2>1, SameGrows
    <3>2. Entering'
      BY <1>1, <1>2, <2>1 DEF Traced, Entering, Made
    <3> QED BY <1>1, <2>1, <3>1, <3>2, TracedKeeps
  <2>2. CASE /\ renewing[p] \in Underway /\ renewing[p].at = "asked"
             /\ Issue(renewing[p].tok.grant)
    BY <1>1, <1>2, <2>2, IssueTraced
  <2> QED BY <1>1, <2>1, <2>2 DEF Restarts
<1>4. Asking'
  BY <1>1, <1>3, EndsTraced DEF Restarts
<1>5. Held'
  <2>1. \A q \in Procs : pair'[q] \in {pair[q], store} /\ pending'[q] \in {pending[q], NoPair}
    BY <1>1 DEF Restarts, Fits, Copies
  <2>2. \A t \in Pair : Trace(t) => (t # NoPair => t.grant <= grants' /\ t.gen <= latest'[t.grant])
    BY <1>3, TraceGrows DEF Trace, Made
  <2>3. /\ Trace(store) /\ store \in Pair
        /\ \A q \in Procs : Trace(pair[q]) /\ Trace(pending[q]) /\ pair[q] \in Pair /\ pending[q] \in Pair
    BY Places DEF Traced, Held
  <2> QED BY <1>1, <2>1, <2>2, <2>3 DEF Held, Trace, Made
<1>6. Calling'
  <2>1. ASSUME NEW c \in Calls PROVE Sound(c)'
    <3>1. CASE call'[c] = call[c]
      BY <1>3, <3>1, SoundKeeps DEF Traced, Calling
    <3>2. CASE call'[c] = Resting
      BY <3>2, Requests DEF Sound
    <3> QED BY <1>1, <3>1, <3>2 DEF Restarts
  <2> QED BY <2>1 DEF Calling
<1> QED BY <1>1, <1>3, <1>4, <1>5, <1>6, TracedKeeps DEF Traced

LEMMA PassTraced == ASSUME Fits, Fits', Traced, NEW t \in Token, Pass(t) PROVE Traced'
<1>1. /\ due' = due \cup {t} /\ Made(t) /\ \A p \in Procs : accepting[p] = {}
      /\ UNCHANGED <<latest, store, pair, pending, renewing, call, grants, accepting>>
  BY DEF Pass, memory, person, Made
<1>2. Grows
  BY <1>1, SameGrows
<1>3. Aged'
  BY <1>1 DEF Traced, Aged, Made
<1>4. Asking'
  BY <1>1, <1>2, AsksKeeps DEF Traced, Asking
<1>5. Entering'
  BY <1>1 DEF Entering
<1> QED BY <1>1, <1>2, <1>3, <1>4, <1>5, TracedKeeps DEF Traced

LEMMA InitTraced == Init => Traced
<1> SUFFICES ASSUME Init PROVE Traced
  OBVIOUS
<1> DEFINE first == [grant |-> 1, gen |-> 0]
<1>1. first.grant = 1 /\ first.gen = 0 /\ 1 \in Grant
  BY ConstantsAssumption DEF Grant
<1>2. Trace(first) /\ Trace(NoPair)
  BY <1>1 DEF Init, Trace, Made
<1> HIDE DEF first
<1>3. /\ store = first /\ \A p \in Procs : pair[p] = first /\ pending[p] = NoPair /\ Free(p) /\ accepting[p] = {}
      /\ due = {} /\ \A c \in Calls : call[c] = Resting
  BY DEF Init, Free, first
<1>4. Fresh
  BY DEF Init, Fresh
<1>5. Held
  BY <1>2, <1>3 DEF Held
<1>6. Calling
  BY <1>3, Requests DEF Calling, Sound
<1>7. Aged /\ Asking /\ Entering
  BY <1>3 DEF Aged, Asking, Asks, Entering
<1> QED BY <1>4, <1>5, <1>6, <1>7 DEF Traced

LEMMA NextTraced == Fits /\ Fits' /\ Traced /\ [Next]_vars => Traced'
<1> SUFFICES ASSUME Fits, Fits', Traced, [Next]_vars PROVE Traced'
  OBVIOUS
<1>1. CASE UNCHANGED vars
  <2>1. UNCHANGED <<latest, due, store, pair, pending, renewing, call, grants, accepting>>
    BY <1>1 DEF vars, service, memory, person
  <2> QED BY <2>1, SameGrows, TracedKeeps DEF Traced
<1>2. ASSUME NEW c \in Calls, Ask(c) PROVE Traced'
  BY <1>2, AccessTraced, AnswerTraced, RenewTraced DEF Ask
<1>3. ASSUME NEW p \in Procs, Request(p) \/ Persist(p) \/ Told(p) PROVE Traced'
  BY <1>3, ServeTraced, SaveTraced, PersistTraced, TaskTraced DEF Request, Told
<1>4. ASSUME NEW p \in Procs, SignIn(p) \/ SignOut(p) \/ Restart(p) PROVE Traced'
  BY <1>4, SignInTraced, SignOutTraced, RestartTraced
<1>5. ASSUME NEW t \in Token, Pass(t) PROVE Traced'
  BY <1>5, PassTraced
<1> QED BY <1>1, <1>2, <1>3, <1>4, <1>5 DEF Next

-----------------------------------------------------------------------------
(* Never backwards. *)

(* A pair just renewed is the newest, and nobody else has it yet. *)
Sole(p) ==
    renewing[p].at = "renewed" =>
        LET t == renewing[p].tok IN
        /\ t.gen = latest[t.grant] /\ t.gen >= 1 /\ store # t
        /\ \A q \in Procs : pair[q] # t /\ (q # p /\ ~Free(q) => renewing[q].tok # t)
(* The store has no older pair than a process has, of the same sign-in. *)
Behind(p) == store.grant = pair[p].grant => pair[p].gen <= store.gen
Sorted    == \A p \in Procs : pending[p] = NoPair /\ Behind(p) /\ Sole(p)
Ordered   == rotates /\ Saving => Sorted

(* The pair of q is still the newest and its own. *)
Apart(q) ==
    /\ renewing'[q] = renewing[q]
    /\ renewing[q].at = "renewed" =>
         LET t == renewing[q].tok IN
         /\ latest'[t.grant] = latest[t.grant] /\ store' # t
         /\ \A r \in Procs : pair'[r] # t /\ (r # q /\ renewing'[r] # Idle => renewing'[r].tok # t)

LEMMA SoleStays == ASSUME NEW q \in Procs, Sole(q), Apart(q) PROVE Sole(q)'
BY DEF Sole, Apart, Free

LEMMA SoleIdle == ASSUME NEW q \in Procs, renewing'[q].at # "renewed" PROVE Sole(q)'
BY DEF Sole

LEMMA StillSorted ==
    ASSUME Sorted, UNCHANGED <<store, pair, pending, renewing, latest>>
    PROVE  Sorted'
BY DEF Sorted, Behind, Sole, Free

LEMMA RenewSorted ==
    ASSUME Fits, Fits', Traced, Sorted, NEW c \in Calls, Renew(c)
    PROVE  Sorted'
<1>1. PICK p \in Procs : Renews(p, c)
  BY RenewFacts
<1>2. UNCHANGED <<latest, store, pending>>
  BY DEF Renew, service
<1>3. CASE UNCHANGED <<pair, renewing>>
  BY <1>2, <1>3, StillSorted
<1>4. ASSUME NEW s \in Pair, Adopts(p, c, s) PROVE Sorted'
  <2>1. /\ s \in {store, pair[p]} /\ pair'[p] = s /\ \A q \in Procs \ {p} : pair'[q] = pair[q]
    BY <1>4 DEF Adopts, Fits, Copies
  <2>2. /\ \A q \in Procs \ {p} : renewing'[q] = renewing[q]
        /\ \/ renewing'[p] = renewing[p]
           \/ renewing'[p].at = "asked" /\ renewing'[p].tok = s
    BY <1>4 DEF Adopts, Fits, Underways
  <2>3. renewing[p] = Idle /\ Idle.at = "idle"
    BY <1>1, Renewals DEF Renews, Free
  <2>4. Sole(p)'
    BY <2>2, <2>3, SoleIdle
  <2>5. ASSUME NEW q \in Procs, q # p PROVE Sole(q)'
    <3>1. Sole(q)
      BY DEF Sorted
    <3>2. Apart(q)
      BY <1>2, <2>1, <2>2, <2>3, <2>5, <3>1 DEF Apart, Sole, Free
    <3> QED BY <3>1, <3>2, SoleStays
  <2>6. \A q \in Procs : Behind(q)'
    <3>1. \A q \in Procs : Behind(q) /\ pair[q] \in Pair
      BY Places DEF Sorted
    <3>2. store \in Pair /\ store.gen <= store.gen
      BY Places, Numbers
    <3> QED BY <1>2, <2>1, <3>1, <3>2 DEF Behind
  <2> QED BY <1>2, <2>4, <2>5, <2>6 DEF Sorted
<1> QED BY <1>1, <1>3, <1>4 DEF Renews

(* A renewal is served only of the newest pair, which no other renewed pair is. *)
LEMMA IssueApart ==
    ASSUME Fits, Fits', Traced, Sorted, NEW p \in Procs, renewing[p] \in Underway, renewing[p].at = "asked",
           renewing[p].tok = Newest(renewing[p].tok.grant), Issue(renewing[p].tok.grant),
           NEW q \in Procs, q # p, renewing[q].at = "renewed"
    PROVE  latest'[renewing[q].tok.grant] = latest[renewing[q].tok.grant]
<1> DEFINE u == renewing[p].tok
           t == renewing[q].tok
<1>1. ~Free(p) /\ ~Free(q) /\ u \in Token /\ t \in Token
  BY Renewals, Places DEF Free
<1>2. t # u /\ t.gen = latest[t.grant]
  BY <1>1 DEF Sorted, Sole
<1>3. u.gen = latest[u.grant]
  BY DEF Newest
<1>4. t.grant # u.grant
  BY <1>1, <1>2, <1>3 DEF Token
<1>5. t.grant \in Grant /\ u.grant \in Grant
  BY <1>1, Numbers
<1> QED BY <1>4, <1>5 DEF Issue, Fits, Endpoint

LEMMA ServeSorted ==
    ASSUME Fits, Fits', Traced, Sorted, rotates, NEW p \in Procs, Serve(p)
    PROVE  Sorted'
<1>1. Serves(p) /\ UNCHANGED <<store, pair, pending>>
  BY ServeFacts DEF Serve
<1>2. /\ renewing[p] \in Underway /\ renewing[p].at = "asked" /\ ~Free(p)
      /\ renewing[p].tok \in Token /\ renewing[p].tok.grant \in Grant
      /\ \A q \in Procs \ {p} : renewing'[q] = renewing[q]
  BY <1>1, Renewals, Numbers DEF Serves, Fails, Fits, Underways
<1>3. \A q \in Procs : Behind(q)' /\ pending'[q] = NoPair
  BY <1>1 DEF Sorted, Behind
<1>4. ASSUME NEW q \in Procs, q # p, renewing[q].at = "renewed"
      PROVE  latest'[renewing[q].tok.grant] = latest[renewing[q].tok.grant]
  BY <1>1, <1>2, <1>4, IssueApart DEF Serves
<1>5. ASSUME renewing'[p].at # "renewed", renewing'[p] # Idle => renewing'[p].tok = renewing[p].tok
      PROVE  Sorted'
  <2>1. ASSUME NEW q \in Procs, q # p PROVE Sole(q)'
    <3>1. Sole(q)
      BY DEF Sorted
    <3>2. Apart(q)
      BY <1>1, <1>2, <1>4, <1>5, <2>1, <3>1 DEF Apart, Sole, Free
    <3> QED BY <3>1, <3>2, SoleStays
  <2> QED BY <1>3, <1>5, <2>1, SoleIdle DEF Sorted
<1>6. CASE Fails(p)
  <2>1. renewing'[p] = Idle
    BY <1>6 DEF Fails, Fits, Underways
  <2> QED BY <1>5, <2>1, Renewals
<1>7. ASSUME NEW s \in Underway, s.at = "renewed",
             s.tok = [grant |-> renewing[p].tok.grant, gen |-> latest[renewing[p].tok.grant] + 1],
             Issue(renewing[p].tok.grant), renewing' = [renewing EXCEPT ![p] = s]
      PROVE  Sorted'
  <2> DEFINE g == renewing[p].tok.grant
  <2>1. renewing'[p] = s
    BY <1>7 DEF Fits, Underways
  <2>2. /\ s.tok.grant = g /\ s.tok.gen = latest[g] + 1 /\ latest'[g] = latest[g] + 1
        /\ latest[g] \in Nat
    BY <1>2, <1>7, Numbers DEF Issue, Fits, Endpoint
  <2> HIDE DEF g
  <2>3. \A t : Made(t) => t # s.tok
    BY <2>2 DEF Made
  <2>4. NoPair # s.tok
    BY <1>7, Renewals, NoPairIsNoToken
  <2>5. store # s.tok /\ \A q \in Procs : pair[q] # s.tok /\ (~Free(q) => renewing[q].tok # s.tok)
    BY <2>3, <2>4 DEF Traced, Held, Trace, Asking, Asks
  <2>6. Sole(p)'
    BY <1>1, <1>2, <2>1, <2>2, <2>5 DEF Sole, Free
  <2>7. ASSUME NEW q \in Procs, q # p PROVE Sole(q)'
    <3>1. Sole(q)
      BY DEF Sorted
    <3>2. renewing[q].at = "renewed" => ~Free(q)
      BY Renewals DEF Free
    <3>3. Apart(q)
      BY <1>1, <1>2, <1>4, <2>1, <2>5, <2>7, <3>1, <3>2 DEF Apart, Sole, Free
    <3> QED BY <3>1, <3>3, SoleStays
  <2> QED BY <1>3, <2>6, <2>7 DEF Sorted
<1> QED BY <1>1, <1>6, <1>7 DEF Serves

LEMMA SaveSorted ==
    ASSUME Fits, Fits', Traced, Sorted, Saving', NEW p \in Procs, Save(p)
    PROVE  Sorted'
<1> DEFINE u == renewing[p].tok
<1>1. Saves(p) /\ UNCHANGED latest
  BY SaveFacts DEF Save, Hold, service
<1>2. /\ store' = u /\ UNCHANGED pending /\ pair'[p] = u /\ renewing'[p] = Idle
      /\ \A q \in Procs \ {p} : pair'[q] = pair[q] /\ renewing'[q] = renewing[q]
  BY <1>1 DEF Saves, Fits, Copies, Underways
<1>3. renewing[p].at = "renewed" /\ ~Free(p) /\ u \in Token
  BY <1>1, Renewals DEF Saves
<1>4. u.gen = latest[u.grant]
  BY <1>3 DEF Sorted, Sole
<1> HIDE DEF u
<1>5. ASSUME NEW q \in Procs PROVE Behind(q)'
  <2>1. CASE q = p
    <3>1. u.gen <= u.gen
      BY <1>3, Numbers
    <3> QED BY <1>2, <2>1, <3>1 DEF Behind
  <2>2. CASE q # p
    <3>1. pair[q] # NoPair => pair[q].gen <= latest[pair[q].grant]
      BY DEF Traced, Held, Trace, Made
    <3>2. u.gen \in Nat /\ NoPair.gen = 0
      BY <1>3, Numbers
    <3> QED BY <1>2, <1>4, <2>2, <3>1, <3>2 DEF Behind
  <2> QED BY <2>1, <2>2
<1>6. Sole(p)'
  BY <1>2, Renewals, SoleIdle
<1>7. ASSUME NEW q \in Procs, q # p PROVE Sole(q)'
  <2>1. Sole(q)
    BY DEF Sorted
  <2>2. Apart(q)
    BY <1>1, <1>2, <1>3, <1>7, <2>1 DEF Apart, Sole, Free, u
  <2> QED BY <2>1, <2>2, SoleStays
<1>8. \A q \in Procs : pending'[q] = NoPair
  BY <1>2 DEF Sorted
<1> QED BY <1>5, <1>6, <1>7, <1>8 DEF Sorted

LEMMA TaskSorted ==
    ASSUME Fits, Fits', Traced, Sorted, NEW p \in Procs,
           Forget(p) \/ \E t \in accepting[p] : Accept(p, t)
    PROVE  Sorted'
<1>1. UNCHANGED <<latest, store, renewing>> /\ \A q \in Procs : pending'[q] = NoPair
  BY DEF Forget, Accept, service, Sorted, Fits, Copies
<1>2. /\ pair'[p] = NoPair \/ \E t \in accepting[p] : pair'[p] = t
      /\ \A q \in Procs \ {p} : pair'[q] = pair[q]
  BY DEF Forget, Accept, Fits, Copies
<1>3. pair'[p].gen = 0 /\ (pair'[p] = NoPair \/ latest[pair'[p].grant] = 0)
  <2>1. ASSUME NEW t \in accepting[p] PROVE t.gen = 0 /\ latest[t.grant] = 0
    <3>1. t \in Token /\ Made(t) /\ latest[t.grant] = 0
      BY Places DEF Traced, Entering
    <3> QED BY <3>1, Numbers DEF Made
  <2> QED BY <1>2, <2>1, Numbers
<1>4. ASSUME NEW q \in Procs PROVE Behind(q)'
  <2>1. store.gen \in Nat /\ Behind(q)
    BY Places, Numbers DEF Sorted
  <2> QED BY <1>1, <1>2, <1>3, <2>1 DEF Behind
<1>5. ASSUME NEW q \in Procs PROVE Sole(q)'
  <2>1. Sole(q)
    BY DEF Sorted
  <2>2. ASSUME renewing[q].at = "renewed" PROVE pair'[p] # renewing[q].tok
    <3>1. renewing[q].tok # NoPair /\ renewing[q].tok.gen >= 1
      BY <2>1, <2>2, Renewals, Places, NoPairIsNoToken DEF Sole, Free
    <3> QED BY <1>3, <3>1
  <2>3. Apart(q)
    BY <1>1, <1>2, <2>1, <2>2 DEF Apart, Sole, Free
  <2> QED BY <2>1, <2>3, SoleStays
<1> QED BY <1>1, <1>4, <1>5 DEF Sorted

LEMMA PersonSorted ==
    ASSUME Fits, Fits', Traced, Sorted, NEW p \in Procs, SignIn(p) \/ SignOut(p)
    PROVE  Sorted'
<1>1. UNCHANGED <<latest, pair, pending, renewing>>
  BY DEF SignIn, SignOut, service, memory
<1>2. store' = store \/ store' = NoPair \/ (store' \in Token /\ store'.grant > grants)
  <2>1. CASE SignIn(p)
    BY <2>1, SignInFacts, Numbers
  <2>2. CASE SignOut(p)
    BY <2>2, SignOutFacts
  <2> QED BY <2>1, <2>2
<1>3. ASSUME NEW q \in Procs PROVE Behind(q)'
  <2>1. Behind(q) /\ pair[q] \in Pair
    BY Places DEF Sorted
  <2>2. pair[q] = NoPair \/ (pair[q] \in Token /\ pair[q].grant <= grants /\ pair[q].grant \in Nat /\ pair[q].grant >= 1)
    BY <2>1, Numbers DEF Traced, Held, Trace, Made
  <2>3. NoPair.grant = 0 /\ NoPair.gen = 0 /\ grants \in Nat
    BY Numbers
  <2>4. \A t \in Token : t.gen \in Nat /\ t.grant \in Nat
    BY Numbers
  <2> QED BY <1>1, <1>2, <2>1, <2>2, <2>3, <2>4 DEF Behind
<1>4. ASSUME NEW q \in Procs PROVE Sole(q)'
  <2>1. Sole(q)
    BY DEF Sorted
  <2>2. ASSUME renewing[q].at = "renewed" PROVE store' # renewing[q].tok
    <3>1. ~Free(q) /\ renewing[q].tok \in Token /\ renewing[q].tok # NoPair
      BY <2>2, Renewals, Places, NoPairIsNoToken DEF Free
    <3>2. renewing[q].tok.grant <= grants
      BY <3>1 DEF Traced, Asking, Asks, Made
    <3>3. renewing[q].tok.grant \in Nat /\ grants \in Nat /\ store # renewing[q].tok
      BY <2>1, <2>2, <3>1, Numbers DEF Sole
    <3> QED BY <1>2, <3>1, <3>2, <3>3
  <2>3. Apart(q)
    BY <1>1, <2>1, <2>2 DEF Apart, Sole, Free
  <2> QED BY <2>1, <2>3, SoleStays
<1>5. \A q \in Procs : pending'[q] = NoPair
  BY <1>1 DEF Sorted
<1> QED BY <1>3, <1>4, <1>5 DEF Sorted

LEMMA RestartSorted ==
    ASSUME Fits, Fits', Traced, Sorted, rotates, NEW p \in Procs, Restart(p)
    PROVE  Sorted'
<1>1. Restarts(p) /\ UNCHANGED store
  BY RestartFacts DEF Restart
<1>2. /\ pair'[p] = store /\ renewing'[p] = Idle
      /\ \A q \in Procs \ {p} : pair'[q] = pair[q] /\ renewing'[q] = renewing[q]
      /\ \A q \in Procs : pending'[q] = NoPair
  BY <1>1 DEF Restarts, Fits, Copies, Underways, Sorted
<1>3. ASSUME NEW q \in Procs PROVE Behind(q)'
  <2>1. store.gen \in Nat /\ Behind(q)
    BY Places, Numbers DEF Sorted
  <2> QED BY <1>1, <1>2, <2>1 DEF Behind
<1>4. Sole(p)'
  BY <1>2, Renewals, SoleIdle
<1>5. ASSUME NEW q \in Procs, q # p PROVE Sole(q)'
  <2>1. Sole(q)
    BY DEF Sorted
  <2>2. renewing[q].at = "renewed" => latest'[renewing[q].tok.grant] = latest[renewing[q].tok.grant]
    BY <1>1, <1>5, IssueApart DEF Restarts
  <2>3. Apart(q)
    BY <1>1, <1>2, <1>5, <2>1, <2>2 DEF Apart, Sole, Free
  <2> QED BY <2>1, <2>3, SoleStays
<1> QED BY <1>2, <1>3, <1>4, <1>5 DEF Sorted

(* The store's faults are counted, whatever a step does. *)
LEMMA SavingOnce ==
    ASSUME Fits, [Next]_vars
    PROVE  /\ (Saving' => Saving) /\ (Spared' => Spared) /\ (Limited => Limited')
           /\ UNCHANGED rotates
<1>1. CASE UNCHANGED vars
  BY <1>1 DEF vars, service, Saving, Spared, Limited
<1>2. CASE UNCHANGED <<events, rotates>>
  BY <1>2 DEF Saving, Spared, Limited
<1>3. ASSUME NEW c \in Calls, Ask(c) PROVE Counts /\ UNCHANGED rotates
  <2>1. UNCHANGED rotates /\ (Access(c) \/ Answer(c) => UNCHANGED events)
    BY <1>3 DEF Ask, Access, Answer, Renew, service
  <2>2. ASSUME Renew(c) PROVE Counts
    <3>1. PICK p \in Procs : Renews(p, c)
      BY <2>2, RenewFacts
    <3>2. UNCHANGED events \/ \E s : Stored(p, s)
      BY <3>1 DEF Renews, Adopts
    <3> QED BY <3>2, StrikeCounts, QuietCounts DEF Stored
  <2> QED BY <1>3, <2>1, <2>2, QuietCounts DEF Ask
<1>4. ASSUME NEW p \in Procs, Request(p) \/ Persist(p) \/ Told(p) PROVE Counts /\ UNCHANGED rotates
  <2>1. CASE Serve(p)
    BY <2>1, ServeFacts, QuietCounts DEF Serve, Serves
  <2>2. CASE Save(p)
    BY <2>2, SaveFacts, QuietCounts DEF Save, Hold, service, Saves
  <2>3. CASE Persist(p)
    BY <2>3, PersistFacts, QuietCounts DEF Persist, service
  <2>4. CASE Told(p)
    BY <2>4, QuietCounts DEF Told, Forget, Accept, service
  <2> QED BY <1>4, <2>1, <2>2, <2>3, <2>4 DEF Request
<1>5. ASSUME NEW p \in Procs, SignIn(p) \/ SignOut(p) \/ Restart(p) PROVE Counts /\ UNCHANGED rotates
  <2>1. CASE SignIn(p)
    BY <2>1, SignInFacts DEF SignIn, service
  <2>2. CASE SignOut(p)
    BY <2>2, SignOutFacts DEF SignOut, service
  <2>3. CASE Restart(p)
    BY <2>3, RestartFacts DEF Restart, Restarts
  <2> QED BY <1>5, <2>1, <2>2, <2>3
<1>6. ASSUME NEW t \in Token, Pass(t) PROVE UNCHANGED <<events, rotates>>
  BY <1>6 DEF Pass
<1> QED BY <1>1, <1>2, <1>3, <1>4, <1>5, <1>6 DEF Next, Counts

LEMMA NextOrdered == Fits /\ Fits' /\ Traced /\ Ordered /\ [Next]_vars => Ordered'
<1> SUFFICES ASSUME Fits, Fits', Traced, Ordered, [Next]_vars, rotates', Saving' PROVE Sorted'
  BY DEF Ordered
<1>1. rotates /\ Saving /\ Sorted
  BY SavingOnce DEF Ordered
<1>2. CASE UNCHANGED vars
  BY <1>1, <1>2, StillSorted DEF vars, service, memory
<1>3. ASSUME NEW c \in Calls, Ask(c) PROVE Sorted'
  <2>1. CASE Access(c) \/ Answer(c)
    BY <1>1, <2>1, StillSorted DEF Access, Answer, service
  <2> QED BY <1>1, <1>3, <2>1, RenewSorted DEF Ask
<1>4. ASSUME NEW p \in Procs, Request(p) \/ Persist(p) \/ Told(p) PROVE Sorted'
  <2>1. ~Persist(p)
    BY <1>1 DEF Persist, Sorted
  <2> QED BY <1>1, <1>4, <2>1, ServeSorted, SaveSorted, TaskSorted DEF Request, Told
<1>5. ASSUME NEW p \in Procs, SignIn(p) \/ SignOut(p) \/ Restart(p) PROVE Sorted'
  BY <1>1, <1>5, PersonSorted, RestartSorted
<1>6. ASSUME NEW t \in Token, Pass(t) PROVE Sorted'
  BY <1>1, <1>6, StillSorted DEF Pass, memory
<1> QED BY <1>2, <1>3, <1>4, <1>5, <1>6 DEF Next

LEMMA InitOrdered == Init => Ordered
<1> SUFFICES ASSUME Init, NEW p \in Procs PROVE pending[p] = NoPair /\ Behind(p) /\ Sole(p)
  BY DEF Ordered, Sorted
<1>1. pending[p] = NoPair /\ pair[p] = store /\ renewing[p] = Idle /\ store.gen = 0
  BY DEF Init
<1> QED BY <1>1, Renewals DEF Behind, Sole

(* However two processes renew one sign-in and adopt what the store holds, none goes back
   to an older pair of it, as long as the store takes what it is given (Held::renew,
   Held::save). *)
THEOREM NotBack == Spec => NeverBackwards
<1>1. Fits /\ Traced /\ Ordered /\ [Next]_vars =>
        [rotates /\ Saving => \A p \in Procs :
            pair'[p].grant = pair[p].grant => \/ pair'[p].gen >= pair[p].gen
                                              \/ Restart(p)]_vars
  <2> SUFFICES ASSUME Fits, Traced, Sorted, Next, NEW p \in Procs,
                      pair'[p].grant = pair[p].grant
               PROVE  pair'[p].gen >= pair[p].gen \/ Restart(p)
    BY DEF Ordered, vars, memory
  <2>1. /\ pair \in [Procs -> Pair] /\ pair[p] \in Pair /\ pair[p].gen \in Nat
        /\ pair[p] = NoPair \/ (pair[p] \in Token /\ pair[p].gen <= latest[pair[p].grant])
    BY Places, Numbers DEF Fits, Copies, Traced, Held, Trace, Made
  <2>2. CASE UNCHANGED pair
    BY <2>1, <2>2
  <2>3. ASSUME NEW c \in Calls, Ask(c) PROVE pair'[p].gen >= pair[p].gen
    <3>1. CASE Access(c) \/ Answer(c)
      BY <2>1, <3>1 DEF Access, Answer
    <3>2. CASE Renew(c)
      <4>1. PICK q \in Procs : Renews(q, c)
        BY <3>2, RenewFacts
      <4>2. pair'[p] \in {pair[p], store}
        BY <2>1, <4>1 DEF Renews, Adopts
      <4>3. Behind(p)
        BY DEF Sorted
      <4> QED BY <2>1, <4>2, <4>3 DEF Behind
    <3> QED BY <2>3, <3>1, <3>2 DEF Ask
  <2>4. ASSUME NEW q \in Procs, Request(q) PROVE pair'[p].gen >= pair[p].gen
    <3>1. CASE Serve(q)
      BY <2>1, <3>1 DEF Serve
    <3>2. CASE Save(q)
      <4>1. /\ pair' = [pair EXCEPT ![q] = renewing[q].tok] /\ pair[q] # NoPair
            /\ renewing[q].at = "renewed" /\ renewing[q].tok \in Token
        BY <3>2, SaveFacts, Renewals DEF Saves, Fits, Underways
      <4>2. renewing[q].tok.gen = latest[renewing[q].tok.grant]
        BY <4>1 DEF Sorted, Sole
      <4> QED BY <2>1, <4>1, <4>2
    <3> QED BY <2>4, <3>1, <3>2 DEF Request
  <2>5. ASSUME NEW q \in Procs, Persist(q) \/ SignIn(q) \/ SignOut(q) PROVE UNCHANGED pair
    BY <2>5 DEF Persist, SignIn, SignOut, memory
  <2>6. ASSUME NEW q \in Procs, Told(q) PROVE pair'[p].gen >= pair[p].gen
    <3>1. pair'[p] \in {pair[p], NoPair} \cup accepting[p]
      BY <2>1, <2>6 DEF Told, Forget, Accept
    <3>2. CASE pair'[p] = NoPair
      <4>1. pair[p].grant = 0
        BY <3>2, Numbers
      <4>2. pair[p] = NoPair
        BY <2>1, <4>1, Numbers
      <4> QED BY <2>1, <3>2, <4>2
    <3>3. CASE pair'[p] \in accepting[p]
      <4>1. pair'[p] \in Token /\ latest[pair'[p].grant] = 0
        BY <3>3, Places DEF Traced, Entering
      <4>2. pair[p] \in Token
        BY <2>1, <4>1, Numbers
      <4>3. pair[p] # NoPair /\ pair[p].gen <= 0 /\ pair'[p].gen \in Nat
        BY <2>1, <4>1, <4>2, Numbers, NoPairIsNoToken
      <4> QED BY <2>1, <4>3
    <3> QED BY <2>1, <3>1, <3>2, <3>3
  <2>7. ASSUME NEW q \in Procs, Restart(q), q # p PROVE pair'[p] = pair[p]
    BY <2>1, <2>7 DEF Restart
  <2>8. ASSUME NEW t \in Token, Pass(t) PROVE UNCHANGED pair
    BY <2>8 DEF Pass, memory
  <2> QED BY <2>1, <2>2, <2>3, <2>4, <2>5, <2>6, <2>7, <2>8 DEF Next
<1> QED BY <1>1, InitFits, NextFits, InitTraced, NextTraced, InitOrdered, NextOrdered, PTL
    DEF Spec, NeverBackwards

-----------------------------------------------------------------------------
(* The newest pair is kept. *)

(* A pair the process is still to store: nobody else can. *)
Carries(p, t) == t # NoPair /\ \/ pending[p] = t
                               \/ renewing[p].at = "renewed" /\ renewing[p].tok = t
Recent(t)   == t.gen = latest[t.grant] /\ t.gen >= 1 /\ t \notin due
Alone(p, t) == /\ store # t
               /\ \A q \in Procs \ {p} : /\ pair[q] # t /\ pending[q] # t
                                         /\ ~Free(q) => renewing[q].tok # t
Carried  == \A p \in Procs : \A t \in Token : Carries(p, t) => Recent(t) /\ Alone(p, t)
Distinct == \A p \in Procs : pending[p] # NoPair /\ ~Free(p) => renewing[p].tok # pending[p]
Unpended == Saving => \A p \in Procs : pending[p] = NoPair
(* A sign-out that has yet to reach the pair takes none the store still stands for. *)
Leaves(p) == /\ pending[p] # NoPair => store.grant # pending[p].grant
             /\ Saving => LET t == renewing[p].tok IN
                          /\ store \notin due
                          /\ ~Free(p) /\ t.gen = latest[t.grant] => store.grant # t.grant
Leaving  == \A p \in Procs : forgetting[p] => Leaves(p)
(* The newest pair is in the store, or on its way there. *)
Somewhere == store # NoPair /\ store.grant \notin lost =>
               \/ store = Newest(store.grant)
               \/ \E p \in Procs : Carries(p, Newest(store.grant))

Guarded   == Carried /\ Distinct /\ Unpended /\ Leaving /\ Somewhere
Treasured == rotates /\ Spared => Guarded

LEMMA Carriers ==
    ASSUME Fits, NEW p \in Procs
    PROVE  /\ \A t : Carries(p, t) => t \in Token
           /\ pending[p] # NoPair => Carries(p, pending[p])
           /\ renewing[p].at = "renewed" => Carries(p, renewing[p].tok) /\ ~Free(p)
<1>1. pending[p] # NoPair => pending[p] \in Token
  BY Places, NoPairIsNoToken
<1>2. renewing[p].at = "renewed" => ~Free(p) /\ renewing[p].tok \in Token
  BY Places, Renewals DEF Free
<1> QED BY <1>1, <1>2, NoPairIsNoToken DEF Carries

LEMMA CarriesFacts ==
    ASSUME Fits, Carried, NEW p \in Procs, NEW t, Carries(p, t)
    PROVE  /\ t \in Token /\ t.grant \in Grant /\ t.gen = latest[t.grant] /\ t.gen >= 1 /\ t \notin due
           /\ store # t
           /\ \A q \in Procs \ {p} : /\ pair[q] # t /\ pending[q] # t /\ ~Carries(q, t)
                                     /\ ~Free(q) => renewing[q].tok # t
<1>1. t \in Token /\ t.grant \in Grant
  BY Carriers, Numbers
<1>2. Recent(t) /\ Alone(p, t)
  BY <1>1 DEF Carried
<1>3. \A q \in Procs \ {p} : ~Carries(q, t)
  BY <1>2, Carriers DEF Alone, Carries
<1> QED BY <1>1, <1>2, <1>3 DEF Recent, Alone

(* Two newest pairs of one sign-in are the same. *)
LEMMA OneNewest ==
    ASSUME Fits, NEW t \in Token, NEW u \in Token, t.grant = u.grant, t.gen = u.gen
    PROVE  t = u
BY DEF Token

LEMMA NewestOf ==
    /\ \A t \in Token : /\ t.gen = latest[t.grant] <=> t = Newest(t.grant)
                        /\ t.gen = latest'[t.grant] <=> t = Newest(t.grant)'
BY LiveIs DEF Live, Newest

LEMMA CarriedStays ==
    ASSUME Carried, UNCHANGED due,
           \A p \in Procs : \A t \in Token : Carries(p, t)' =>
             /\ Carries(p, t) /\ latest'[t.grant] = latest[t.grant] /\ store' # t
             /\ \A q \in Procs \ {p} : /\ pair'[q] # t /\ pending'[q] # t
                                       /\ renewing'[q] # Idle => renewing'[q].tok # t
    PROVE  Carried'
<1> SUFFICES ASSUME NEW p \in Procs, NEW t \in Token, Carries(p, t)'
             PROVE  Recent(t)' /\ Alone(p, t)'
  BY DEF Carried
<1>1. Recent(t)
  BY DEF Carried
<1> QED BY <1>1 DEF Recent, Alone, Free

LEMMA StillGuarded ==
    ASSUME Guarded, Saving' => Saving,
           UNCHANGED <<store, pair, pending, renewing, latest, due, lost, forgetting>>
    PROVE  Guarded'
<1>1. \A p \in Procs : \A t : Carries(p, t)' <=> Carries(p, t)
  BY DEF Carries
<1>2. Carried'
  BY <1>1 DEF Guarded, Carried, Recent, Alone, Free
<1>3. Distinct' /\ Unpended' /\ Leaving'
  BY DEF Guarded, Distinct, Unpended, Leaving, Leaves, Free
<1>4. Newest(store.grant)' = Newest(store.grant)
  BY DEF Newest
<1>5. Somewhere'
  BY <1>1, <1>4 DEF Guarded, Somewhere, Carries
<1> QED BY <1>2, <1>3, <1>5 DEF Guarded

LEMMA RenewGuarded ==
    ASSUME Fits, Fits', Traced, Ordered, rotates, Guarded, Saving' => Saving,
           NEW c \in Calls, Renew(c)
    PROVE  Guarded'
<1>1. PICK p \in Procs : Renews(p, c)
  BY RenewFacts
<1>2. UNCHANGED <<latest, due, store, pending, lost, forgetting>>
  BY DEF Renew, service, person
<1>3. CASE UNCHANGED <<pair, renewing>>
  BY <1>2, <1>3, StillGuarded
<1>4. ASSUME NEW s \in Pair, Adopts(p, c, s) PROVE Guarded'
  <2>1. /\ s \in {store, pair[p]} /\ pair'[p] = s /\ \A q \in Procs \ {p} : pair'[q] = pair[q]
    BY <1>4 DEF Adopts, Fits, Copies
  <2>2. /\ \A q \in Procs \ {p} : renewing'[q] = renewing[q]
        /\ \/ renewing'[p] = renewing[p]
           \/ /\ renewing'[p].at = "asked" /\ renewing'[p].tok = s
              /\ s # NoPair /\ (call[c].tok = s \/ s \in due)
    BY <1>4 DEF Adopts, Fits, Underways
  <2>3. renewing[p] = Idle /\ Idle.at = "idle"
    BY <1>1, Renewals DEF Renews, Free
  <2>4. \A q \in Procs : \A t : Carries(q, t)' <=> Carries(q, t)
    BY <1>2, <2>2, <2>3 DEF Carries
  <2>5. renewing'[p] # Idle => /\ s \in Token /\ renewing'[p].tok = s
                               /\ s \in due \/ s.gen # latest[s.grant]
                               /\ s.gen = latest[s.grant] => s \in due
    <3>1. SUFFICES ASSUME renewing'[p] # Idle, s \notin due PROVE s.gen # latest[s.grant]
      BY <2>2, <2>3, NoPairIsNoToken
    <3>2. s \in Token /\ call[c].tok = s /\ call[c].at = "renew" /\ s # NoPair
      BY <1>1, <2>2, <2>3, <3>1, NoPairIsNoToken DEF Renews
    <3>3. ~Live(s)
      BY <3>2 DEF Traced, Calling, Sound
    <3> QED BY <3>2, <3>3, LiveIs
  <2>6. Carried'
    <3> SUFFICES ASSUME NEW q \in Procs, NEW t \in Token, Carries(q, t)'
                 PROVE  /\ store' # t
                        /\ \A r \in Procs \ {q} : /\ pair'[r] # t /\ pending'[r] # t
                                                  /\ renewing'[r] # Idle => renewing'[r].tok # t
      BY <1>2, <2>4, CarriedStays DEF Guarded
    <3>1. Carries(q, t)
      BY <2>4
    <3>2. /\ store # t
          /\ \A r \in Procs \ {q} : /\ pair[r] # t /\ pending[r] # t
                                    /\ ~Free(r) => renewing[r].tok # t
      BY <3>1, CarriesFacts DEF Guarded
    <3>3. q # p => s # t
      BY <2>1, <3>2
    <3> QED BY <1>2, <2>1, <2>2, <2>3, <3>2, <3>3 DEF Free
  <2>7. Distinct'
    <3> SUFFICES ASSUME NEW q \in Procs, pending'[q] # NoPair, renewing'[q] # Idle
                 PROVE  renewing'[q].tok # pending'[q]
      BY DEF Distinct, Free
    <3>1. CASE q # p
      BY <1>2, <2>2, <3>1 DEF Guarded, Distinct, Free
    <3>2. CASE q = p
      <4>1. Carries(p, pending[p])
        BY <1>2, <3>2, Carriers
      <4>2. pending[p] \notin due /\ pending[p].gen = latest[pending[p].grant]
        BY <4>1, CarriesFacts DEF Guarded
      <4> QED BY <1>2, <2>5, <3>2, <4>2
    <3> QED BY <3>1, <3>2
  <2>8. Leaving'
    <3> SUFFICES ASSUME NEW q \in Procs, forgetting[q], Saving, renewing'[q] # Idle,
                        renewing'[q].tok.gen = latest[renewing'[q].tok.grant]
                 PROVE  store.grant # renewing'[q].tok.grant
      BY <1>2 DEF Guarded, Leaving, Leaves, Free
    <3>1. CASE q # p
      BY <2>2, <3>1 DEF Guarded, Leaving, Leaves, Free
    <3>2. CASE q = p
      <4>1. s \in due /\ s \in Token /\ renewing'[q].tok = s /\ s.gen = latest[s.grant]
        BY <2>5, <3>2
      <4>2. store \notin due
        BY <3>2 DEF Guarded, Leaving, Leaves
      <4>3. s = pair[p] /\ Behind(p)
        BY <2>1, <4>1, <4>2 DEF Ordered, Sorted
      <4>4. SUFFICES ASSUME store.grant = s.grant PROVE FALSE
        BY <4>1
      <4>5. s.gen <= store.gen /\ store \in Token /\ Made(store)
        <5>1. store # NoPair /\ store \in Pair
          BY <4>1, <4>4, Numbers, Places
        <5> QED BY <4>3, <4>4, <5>1, NoPairIsNoToken DEF Behind, Traced, Held, Trace
      <4>6. store.gen = s.gen
        BY <4>1, <4>4, <4>5, Numbers DEF Made
      <4> QED BY <4>1, <4>2, <4>4, <4>5, <4>6, OneNewest
    <3> QED BY <3>1, <3>2
  <2>9. Unpended'
    BY <1>2 DEF Guarded, Unpended
  <2>10. Somewhere'
    BY <1>2, <2>4 DEF Guarded, Somewhere, Newest, Carries
  <2> QED BY <2>6, <2>7, <2>8, <2>9, <2>10 DEF Guarded
<1> QED BY <1>1, <1>3, <1>4 DEF Renews

(* A renewal is served of a pair that nobody is to store: those of its sign-in are gone. *)
LEMMA IssueCarried ==
    ASSUME Fits, rotates, Carried, Distinct, NEW p \in Procs, renewing[p] \in Underway,
           renewing[p].at = "asked", renewing[p].tok = Newest(renewing[p].tok.grant),
           NEW q \in Procs, NEW t, Carries(q, t)
    PROVE  t.grant # renewing[p].tok.grant
<1> DEFINE u == renewing[p].tok
<1>1. ~Free(p) /\ u \in Token /\ u.gen = latest[u.grant]
  BY Renewals, Places, NewestOf DEF Free
<1>2. t \in Token /\ t.gen = latest[t.grant]
  BY CarriesFacts
<1>3. u # t
  <2>1. CASE q = p
    BY <1>1, <2>1, Renewals DEF Distinct, Carries
  <2>2. CASE q # p
    BY <1>1, <2>2, CarriesFacts
  <2> QED BY <2>1, <2>2
<1> HIDE DEF u
<1>4. t.grant # u.grant
  BY <1>1, <1>2, <1>3, OneNewest
<1> QED BY <1>4 DEF u

(* A renewal of a pair of this sign-in is of an older one then. *)
LEMMA IssueLeaves ==
    ASSUME Fits, Traced, NEW g \in Grant, Issue(g), NEW q \in Procs, ~Free(q),
           renewing[q].tok.gen = latest'[renewing[q].tok.grant]
    PROVE  /\ renewing[q].tok.gen = latest[renewing[q].tok.grant]
<1> DEFINE t == renewing[q].tok
<1>1. t \in Token /\ Made(t) /\ t.grant \in Grant /\ t.gen \in Nat /\ latest[t.grant] \in Nat
  BY Places, Numbers DEF Traced, Asking, Asks
<1>2. latest'[t.grant] \in {latest[t.grant], latest[t.grant] + 1}
  BY <1>1 DEF Issue, Fits, Endpoint
<1> QED BY <1>1, <1>2 DEF Made

LEMMA ServeGuarded ==
    ASSUME Fits, Fits', Traced, rotates, Guarded, Saving' => Saving, NEW p \in Procs, Serve(p)
    PROVE  Guarded'
<1> DEFINE u == renewing[p].tok
           g == u.grant
<1>1. Serves(p) /\ UNCHANGED <<store, pair, pending, due, forgetting>>
  BY ServeFacts DEF Serve, person
<1>2. /\ renewing[p] \in Underway /\ renewing[p].at = "asked" /\ ~Free(p)
      /\ u \in Token /\ g \in Grant
      /\ lost' \in {lost, lost \cup {g}}
  BY <1>1, Renewals, Numbers DEF Serves, Fails
<1>3. Unpended'
  BY <1>1 DEF Guarded, Unpended
<1>4. \A q \in Procs : pending'[q] # NoPair => store'.grant # pending'[q].grant \/ ~forgetting'[q]
  BY <1>1 DEF Guarded, Leaving, Leaves
<1>5. \A q \in Procs : forgetting'[q] /\ Saving' => store' \notin due'
  BY <1>1 DEF Guarded, Leaving, Leaves
(* The request fails, served or not. *)
<1>6. CASE Fails(p) /\ (UNCHANGED latest \/ /\ u = Newest(g) /\ Issue(g) /\ lost' = lost \cup {g})
  <2>1. renewing'[p] = Idle /\ Idle.at = "idle" /\ \A q \in Procs \ {p} : renewing'[q] = renewing[q]
    BY <1>6, Renewals DEF Fails, Fits, Underways
  <2>2. \A q \in Procs : \A t : Carries(q, t)' <=> Carries(q, t)
    BY <1>1, <1>2, <2>1 DEF Carries
  <2>3. ASSUME NEW q \in Procs, NEW t, Carries(q, t)
        PROVE  latest'[t.grant] = latest[t.grant]
    <3>1. CASE u = Newest(g) /\ Issue(g)
      <4>1. t.grant # g /\ t.grant \in Grant
        BY <1>2, <2>3, <3>1, IssueCarried, CarriesFacts DEF Guarded
      <4> QED BY <3>1, <4>1 DEF Issue, Fits, Endpoint
    <3> QED BY <1>6, <3>1
  <2>4. Carried'
    <3> SUFFICES ASSUME NEW q \in Procs, NEW t \in Token, Carries(q, t)'
                 PROVE  /\ store' # t
                        /\ \A r \in Procs \ {q} : /\ pair'[r] # t /\ pending'[r] # t
                                                  /\ renewing'[r] # Idle => renewing'[r].tok # t
      BY <1>1, <2>2, <2>3, CarriedStays DEF Guarded
    <3> QED BY <1>1, <2>1, <2>2, CarriesFacts DEF Guarded, Free
  <2>5. Distinct'
    BY <1>1, <2>1 DEF Guarded, Distinct, Free
  <2>6. Leaving'
    <3> SUFFICES ASSUME NEW q \in Procs, forgetting[q], Saving', renewing'[q] # Idle,
                        renewing'[q].tok.gen = latest'[renewing'[q].tok.grant]
                 PROVE  store.grant # renewing'[q].tok.grant
      BY <1>1, <1>4, <1>5 DEF Leaving, Leaves, Free
    <3>1. q # p /\ renewing'[q] = renewing[q] /\ ~Free(q)
      BY <2>1 DEF Free
    <3>2. renewing[q].tok.gen = latest[renewing[q].tok.grant]
      BY <1>2, <1>6, <3>1, IssueLeaves
    <3> QED BY <3>1, <3>2 DEF Guarded, Leaving, Leaves
  <2>7. Somewhere'
    <3> SUFFICES ASSUME store # NoPair, store.grant \notin lost'
                 PROVE  \/ store = Newest(store.grant)'
                        \/ \E q \in Procs : Carries(q, Newest(store.grant))'
      BY <1>1 DEF Somewhere, Newest, Carries
    <3>1. store \in Token /\ store.grant \in Grant /\ store.grant \notin lost
      BY <1>2, Places, Numbers
    <3>2. latest'[store.grant] = latest[store.grant]
      BY <1>2, <1>6, <3>1 DEF Issue, Fits, Endpoint
    <3>3. \/ store = Newest(store.grant)
          \/ \E q \in Procs : Carries(q, Newest(store.grant))
      BY <3>1 DEF Guarded, Somewhere
    <3>4. Newest(store.grant)' = Newest(store.grant)
      BY <1>1, <3>2 DEF Newest
    <3>5. \A q \in Procs : Carries(q, Newest(store.grant)) => Carries(q, Newest(store.grant))'
      BY <1>1, <1>2, <2>1, <3>4 DEF Carries
    <3> QED BY <3>3, <3>4, <3>5
  <2> QED BY <1>3, <2>4, <2>5, <2>6, <2>7 DEF Guarded
(* The pair is renewed. *)
<1>7. ASSUME NEW s \in Underway, s.at = "renewed", s.tok = [grant |-> g, gen |-> latest[g] + 1],
             u = Newest(g), Issue(g), renewing' = [renewing EXCEPT ![p] = s], lost' = lost
      PROVE  Guarded'
  <2>1. renewing'[p] = s /\ \A q \in Procs \ {p} : renewing'[q] = renewing[q]
    BY <1>7 DEF Fits, Underways
  <2>2. /\ s.tok.grant = g /\ s.tok.gen = latest[g] + 1 /\ latest'[g] = latest[g] + 1
        /\ latest[g] \in Nat /\ s.tok \in Token /\ s.tok # NoPair
        /\ \A h \in Grant \ {g} : latest'[h] = latest[h]
    BY <1>2, <1>7, Numbers, Renewals, NoPairIsNoToken DEF Issue, Fits, Endpoint
  <2>3. \A t : Made(t) => t # s.tok
    BY <2>2 DEF Made
  <2>4. /\ store # s.tok /\ s.tok \notin due
        /\ \A q \in Procs : /\ pair[q] # s.tok /\ pending[q] # s.tok
                            /\ ~Free(q) => renewing[q].tok # s.tok
    BY <2>2, <2>3 DEF Traced, Held, Trace, Asking, Asks, Aged
  <2>5. \A q \in Procs : \A t : Carries(q, t)' <=> Carries(q, t) \/ (q = p /\ t = s.tok)
    BY <1>1, <1>2, <1>7, <2>1, <2>2 DEF Carries
  <2>6. \A q \in Procs : \A t : Carries(q, t) => t.grant # g /\ latest'[t.grant] = latest[t.grant]
    BY <1>2, <1>7, <2>2, IssueCarried, CarriesFacts DEF Guarded
  <2>7. Carried'
    <3> SUFFICES ASSUME NEW q \in Procs, NEW t \in Token, Carries(q, t)'
                 PROVE  /\ t.gen = latest'[t.grant] /\ t.gen >= 1 /\ t \notin due /\ store # t
                        /\ \A r \in Procs \ {q} : /\ pair[r] # t /\ pending[r] # t
                                                  /\ renewing'[r] # Idle => renewing'[r].tok # t
      BY <1>1 DEF Carried, Recent, Alone, Free
    <3>1. CASE Carries(q, t)
      <4>1. /\ t.gen = latest'[t.grant] /\ t.gen >= 1 /\ t \notin due /\ store # t /\ t # s.tok
            /\ \A r \in Procs \ {q} : /\ pair[r] # t /\ pending[r] # t
                                      /\ ~Free(r) => renewing[r].tok # t
        BY <2>2, <2>6, <3>1, CarriesFacts DEF Guarded
      <4> QED BY <2>1, <4>1 DEF Free
    <3>2. CASE q = p /\ t = s.tok
      BY <2>1, <2>2, <2>4, <3>2 DEF Free
    <3> QED BY <2>5, <3>1, <3>2
  <2>8. Distinct'
    BY <1>1, <2>1, <2>4 DEF Guarded, Distinct, Free
  <2>9. Leaving'
    <3> SUFFICES ASSUME NEW q \in Procs, forgetting[q], Saving', renewing'[q] # Idle,
                        renewing'[q].tok.gen = latest'[renewing'[q].tok.grant]
                 PROVE  store.grant # renewing'[q].tok.grant
      BY <1>1, <1>4, <1>5 DEF Leaving, Leaves, Free
    <3>1. CASE q = p
      <4>1. u.gen = latest[g] /\ renewing'[q].tok.grant = g
        BY <1>2, <1>7, <2>1, <2>2, <3>1, NewestOf
      <4> QED BY <1>2, <3>1, <4>1 DEF Guarded, Leaving, Leaves
    <3>2. CASE q # p
      <4>1. renewing'[q] = renewing[q] /\ ~Free(q)
        BY <2>1, <3>2 DEF Free
      <4>2. renewing[q].tok.gen = latest[renewing[q].tok.grant]
        BY <1>2, <1>7, <4>1, IssueLeaves
      <4> QED BY <4>1, <4>2 DEF Guarded, Leaving, Leaves
    <3> QED BY <3>1, <3>2
  <2>10. Somewhere'
    <3> SUFFICES ASSUME store # NoPair, store.grant \notin lost
                 PROVE  \/ store = Newest(store.grant)'
                        \/ \E q \in Procs : Carries(q, Newest(store.grant))'
      BY <1>1, <1>7 DEF Somewhere, Newest, Carries
    <3>1. store \in Token /\ store.grant \in Grant
      BY Places, Numbers
    <3>2. CASE store.grant = g
      <4>1. Newest(store.grant)' = s.tok
        BY <1>1, <1>7, <2>2, <3>2 DEF Newest
      <4>2. Carries(p, Newest(store.grant))'
        BY <1>7, <2>1, <2>2, <4>1 DEF Carries
      <4> QED BY <4>2
    <3>3. CASE store.grant # g
      <4>1. Newest(store.grant)' = Newest(store.grant)
        BY <1>1, <2>2, <3>1, <3>3 DEF Newest
      <4>2. \/ store = Newest(store.grant)
            \/ \E q \in Procs : Carries(q, Newest(store.grant))
        BY DEF Guarded, Somewhere
      <4>3. \A q \in Procs : Carries(q, Newest(store.grant)) => Carries(q, Newest(store.grant))'
        BY <1>1, <1>2, <2>1, <4>1 DEF Carries
      <4> QED BY <4>1, <4>2, <4>3
    <3> QED BY <3>2, <3>3
  <2> QED BY <1>3, <2>7, <2>8, <2>9, <2>10 DEF Guarded
<1> QED BY <1>1, <1>6, <1>7 DEF Serves

(* The pair a process is to store reaches the store: it is of no sign-out on its way, and no
   other pair to be stored is of its sign-in. *)
LEMMA StoresCarried ==
    ASSUME Fits, Guarded, UNCHANGED <<latest, due, lost, forgetting>>,
           NEW p \in Procs, NEW u, Carries(p, u), store' = u,
           \A q \in Procs : pair'[q] \in {pair[q], u} /\ (q # p => pair'[q] = pair[q]),
           \A q \in Procs : pending'[q] \in {pending[q], NoPair},
           \A q \in Procs : renewing'[q] \in {renewing[q], Idle},
           pending'[p] # u, ~(renewing'[p].at = "renewed" /\ renewing'[p].tok = u), Saving' => Saving
    PROVE  Guarded'
<1>1. u \in Token /\ u.gen = latest[u.grant] /\ u.gen >= 1 /\ u \notin due /\ u # NoPair
  BY CarriesFacts, NoPairIsNoToken DEF Guarded
<1>2. Idle.at = "idle"
  BY Renewals
<1>3. \A q \in Procs : \A t : Carries(q, t)' => Carries(q, t) /\ t # u
  <2> SUFFICES ASSUME NEW q \in Procs, NEW t, Carries(q, t)' PROVE Carries(q, t) /\ t # u
    OBVIOUS
  <2>1. Carries(q, t)
    BY <1>2 DEF Carries
  <2>2. CASE q = p
    BY <2>1, <2>2 DEF Carries
  <2>3. CASE q # p
    BY <2>1, <2>3, CarriesFacts DEF Guarded
  <2> QED BY <2>1, <2>2, <2>3
<1>4. Carried'
  <2> SUFFICES ASSUME NEW q \in Procs, NEW t \in Token, Carries(q, t)'
               PROVE  /\ store' # t
                      /\ \A r \in Procs \ {q} : /\ pair'[r] # t /\ pending'[r] # t
                                                /\ renewing'[r] # Idle => renewing'[r].tok # t
    BY <1>3, CarriedStays DEF Guarded
  <2>1. Carries(q, t) /\ t # u /\ t # NoPair
    BY <1>3 DEF Carries
  <2> QED BY <2>1, CarriesFacts DEF Guarded, Free
<1>5. Distinct'
  <2> SUFFICES ASSUME NEW q \in Procs, pending'[q] # NoPair, renewing'[q] # Idle
               PROVE  renewing'[q].tok # pending'[q]
    BY DEF Distinct, Free
  <2>1. pending'[q] = pending[q] /\ renewing'[q] = renewing[q] /\ ~Free(q)
    BY DEF Free
  <2> QED BY <2>1 DEF Guarded, Distinct
<1>6. Unpended'
  BY DEF Guarded, Unpended
<1>7. Leaving'
  <2> SUFFICES ASSUME NEW q \in Procs, forgetting[q] PROVE Leaves(q)'
    BY DEF Leaving
  <2>1. pending'[q] # NoPair => store'.grant # pending'[q].grant
    <3>1. SUFFICES ASSUME NEW t, t # NoPair, pending'[q] = t, u.grant = t.grant PROVE FALSE
      OBVIOUS
    <3>2. Carries(q, t)'
      BY <3>1 DEF Carries
    <3>3. Carries(q, t) /\ t # u
      BY <1>3, <3>2
    <3>4. t \in Token /\ t.gen = latest[t.grant]
      BY <3>3, CarriesFacts DEF Guarded
    <3> QED BY <1>1, <3>1, <3>3, <3>4, OneNewest
  <2>2. ASSUME renewing'[q] # Idle, renewing'[q].tok.gen = latest[renewing'[q].tok.grant]
        PROVE  u.grant # renewing'[q].tok.grant
    <3>1. renewing'[q] = renewing[q] /\ ~Free(q) /\ renewing[q].tok \in Token
      BY <2>2, Places DEF Free
    <3>2. SUFFICES ASSUME u = renewing[q].tok PROVE FALSE
      BY <1>1, <2>2, <3>1, OneNewest
    <3>3. q = p
      BY <3>1, <3>2, CarriesFacts DEF Guarded
    <3>4. pending[p] = u
      BY <1>1, <3>1, <3>2, <3>3 DEF Carries
    <3> QED BY <1>1, <3>1, <3>2, <3>3, <3>4 DEF Guarded, Distinct
  <2> QED BY <1>1, <2>1, <2>2 DEF Leaves, Free
<1>8. Somewhere'
  BY <1>1, NewestOf DEF Somewhere, Newest
<1> QED BY <1>4, <1>5, <1>6, <1>7, <1>8 DEF Guarded

LEMMA SaveGuarded ==
    ASSUME Fits, Fits', Traced, rotates, Guarded, Saving' => Saving, Spared', NEW p \in Procs, Save(p)
    PROVE  Guarded'
<1> DEFINE u == renewing[p].tok
<1>1. Saves(p) /\ UNCHANGED <<latest, due, lost, forgetting>>
  BY SaveFacts DEF Save, Hold, service, person
<1>2. /\ pair'[p] = u /\ renewing'[p] = Idle /\ Idle.at = "idle"
      /\ \A q \in Procs \ {p} : pair'[q] = pair[q] /\ renewing'[q] = renewing[q]
  BY <1>1, Renewals DEF Saves, Fits, Copies, Underways
<1>3. renewing[p].at = "renewed" /\ ~Free(p) /\ u \in Token /\ Carries(p, u) /\ u # NoPair
  BY <1>1, Renewals, Carriers, NoPairIsNoToken DEF Saves
<1> HIDE DEF u
<1>4. CASE store' = u /\ UNCHANGED pending
  <2>1. pending'[p] # u
    BY <1>3, <1>4 DEF Guarded, Distinct, u
  <2> QED BY <1>1, <1>2, <1>3, <1>4, <2>1, StoresCarried
(* The store fails for the first time. *)
<1>5. CASE UNCHANGED store /\ pending' = [pending EXCEPT ![p] = u] /\ ~Saving' /\ (Spared' => Saving)
  <2>1. Saving /\ \A q \in Procs : pending[q] = NoPair
    BY <1>5 DEF Guarded, Unpended
  <2>2. pending'[p] = u /\ \A q \in Procs \ {p} : pending'[q] = NoPair
    BY <1>5, <2>1 DEF Fits, Copies
  <2>3. \A q \in Procs : \A t : Carries(q, t)' <=> Carries(q, t)
    BY <1>2, <1>3, <2>1, <2>2 DEF Carries, u
  <2>4. Carried'
    <3> SUFFICES ASSUME NEW q \in Procs, NEW t \in Token, Carries(q, t)'
                 PROVE  /\ store' # t
                        /\ \A r \in Procs \ {q} : /\ pair'[r] # t /\ pending'[r] # t
                                                  /\ renewing'[r] # Idle => renewing'[r].tok # t
      BY <1>1, <2>3, CarriedStays DEF Guarded
    <3>1. Carries(q, t) /\ t # NoPair
      BY <2>3 DEF Carries
    <3>2. q # p => t # u
      BY <1>3, <3>1, CarriesFacts DEF Guarded
    <3> QED BY <1>2, <1>5, <2>2, <3>1, <3>2, CarriesFacts DEF Guarded, Free
  <2>5. Distinct'
    BY <1>2, <2>2 DEF Distinct, Free
  <2>6. Unpended'
    BY <1>5 DEF Unpended
  <2>7. Leaving'
    <3>1. ASSUME forgetting[p] PROVE store.grant # u.grant
      <4>1. u.gen = latest[u.grant]
        BY <1>3, CarriesFacts DEF Guarded
      <4> QED BY <1>3, <2>1, <3>1, <4>1 DEF Guarded, Leaving, Leaves, u
    <3> QED BY <1>1, <1>5, <2>2, <3>1 DEF Leaving, Leaves
  <2>8. Somewhere'
    BY <1>1, <1>5, <2>3 DEF Guarded, Somewhere, Newest, Carries
  <2> QED BY <2>4, <2>5, <2>6, <2>7, <2>8 DEF Guarded
<1> QED BY <1>1, <1>4, <1>5 DEF Saves, u

LEMMA PersistGuarded ==
    ASSUME Fits, Fits', Traced, rotates, Guarded, Saving' => Saving, Spared', NEW p \in Procs, Persist(p)
    PROVE  Guarded'
<1>1. UNCHANGED <<latest, due, pair, renewing, lost, forgetting>>
  BY DEF Persist, service, person
<1>2. /\ pending'[p] = NoPair /\ \A q \in Procs : pending'[q] \in {pending[q], NoPair}
      /\ pending[p] # NoPair
  BY PersistFacts DEF Fits, Copies
<1>3. store' = pending[p]
  BY <1>2, PersistFacts DEF Guarded, Unpended
<1>4. Carries(p, pending[p])
  BY <1>2, Carriers
<1>5. renewing[p].at = "renewed" => renewing[p].tok # pending[p]
  BY <1>2, Carriers DEF Guarded, Distinct
<1> QED BY <1>1, <1>2, <1>3, <1>4, <1>5, StoresCarried

(* Signing in and out, the tasks and the restart leave who renews and what is newest. *)
LEMMA SignInGuarded ==
    ASSUME Fits, Fits', Traced, rotates, Guarded, Saving' => Saving, NEW p \in Procs, SignIn(p)
    PROVE  Guarded'
<1>1. PICK t \in Token : t.grant = grants + 1 /\ t.gen = 0 /\ store' \in {store, t}
  BY SignInFacts
<1>2. UNCHANGED <<latest, due, pair, pending, renewing, lost, forgetting>>
  BY DEF SignIn, service, memory
<1>3. CASE UNCHANGED store
  BY <1>2, <1>3, StillGuarded
<1>4. CASE store' = t
  <2>1. grants \in Nat /\ t.grant \in Grant /\ \A h \in Grant : h \in Nat
    BY Numbers
  <2>2. latest[t.grant] = 0 /\ t \notin due
    BY <1>1, <2>1 DEF Traced, Fresh, Aged, Made
  <2>3. \A q \in Procs : \A v : Carries(q, v)' <=> Carries(q, v)
    BY <1>2 DEF Carries
  <2>4. \A q \in Procs : /\ pending[q] # NoPair => t.grant # pending[q].grant
                         /\ ~Free(q) => t.grant # renewing[q].tok.grant
    <3>1. \A v \in Token : Made(v) => v.grant # t.grant
      BY <1>1, <2>1, Numbers DEF Made
    <3> QED BY <3>1, Places, NoPairIsNoToken DEF Traced, Held, Trace, Asking, Asks
  <2>5. Carried'
    <3> SUFFICES ASSUME NEW q \in Procs, NEW v \in Token, Carries(q, v)
                 PROVE  /\ t # v
                        /\ \A r \in Procs \ {q} : /\ pair[r] # v /\ pending[r] # v
                                                  /\ renewing[r] # Idle => renewing[r].tok # v
      BY <1>2, <1>4, <2>3, CarriedStays DEF Guarded
    <3>1. v.gen >= 1 /\ \A r \in Procs \ {q} : /\ pair[r] # v /\ pending[r] # v
                                               /\ ~Free(r) => renewing[r].tok # v
      BY CarriesFacts DEF Guarded
    <3> QED BY <1>1, <3>1 DEF Free
  <2>6. Distinct' /\ Unpended'
    BY <1>2 DEF Guarded, Distinct, Unpended, Free
  <2>7. Leaving'
    BY <1>2, <1>4, <2>2, <2>4 DEF Leaving, Leaves, Free
  <2>8. Somewhere'
    BY <1>1, <1>2, <1>4, <2>2, NewestOf DEF Somewhere, Newest
  <2> QED BY <2>5, <2>6, <2>7, <2>8 DEF Guarded
<1> QED BY <1>1, <1>3, <1>4

LEMMA SignOutGuarded ==
    ASSUME Fits, Fits', Traced, rotates, Guarded, Saving' => Saving, Spared', NEW p \in Procs, SignOut(p)
    PROVE  Guarded'
<1>1. UNCHANGED <<latest, due, pair, pending, renewing, lost>>
      /\ \A q \in Procs \ {p} : forgetting'[q] = forgetting[q]
  BY DEF SignOut, service, memory, Fits, Persons
<1>2. \A q \in Procs : \A t : Carries(q, t)' <=> Carries(q, t)
  BY <1>1 DEF Carries
<1>3. store' \in {store, NoPair}
  BY SignOutFacts
<1>4. Carried'
  <2> SUFFICES ASSUME NEW q \in Procs, NEW t \in Token, Carries(q, t)
               PROVE  /\ store' # t
                      /\ \A r \in Procs \ {q} : /\ pair[r] # t /\ pending[r] # t
                                                /\ renewing[r] # Idle => renewing[r].tok # t
    BY <1>1, <1>2, CarriedStays DEF Guarded
  <2> QED BY <1>3, CarriesFacts, NoPairIsNoToken DEF Guarded, Free
<1>5. Distinct' /\ Unpended'
  BY <1>1 DEF Guarded, Distinct, Unpended, Free
<1>6. Leaving'
  <2>1. CASE store' = NoPair
    <3>1. NoPair \notin due /\ NoPair.grant = 0
      BY Places, NoPairIsNoToken, Numbers
    <3>2. \A t \in Token : t.grant # 0
      BY Numbers
    <3> QED BY <1>1, <2>1, <3>1, <3>2, Places, NoPairIsNoToken DEF Leaving, Leaves, Free
  <2>2. CASE store' # NoPair
    <3>1. ~Saving' /\ Saving
      BY <2>2, SignOutFacts
    <3> QED BY <1>1, <3>1 DEF Guarded, Unpended, Leaving, Leaves
  <2> QED BY <2>1, <2>2
<1>7. Somewhere'
  BY <1>1, <1>2, <1>3 DEF Guarded, Somewhere, Newest, Carries
<1> QED BY <1>4, <1>5, <1>6, <1>7 DEF Guarded

LEMMA TaskGuarded ==
    ASSUME Fits, Fits', Traced, rotates, Guarded, Saving' => Saving, NEW p \in Procs,
           Forget(p) \/ \E t \in accepting[p] : Accept(p, t)
    PROVE  Guarded'
<1>1. UNCHANGED <<latest, due, store, renewing, lost>> /\ renewing[p].at = "idle"
  BY Renewals DEF Forget, Accept, service, Free
<1>2. /\ \A q \in Procs : pair'[q] \in {pair[q], NoPair} \cup accepting[q]
      /\ \A q \in Procs : pending'[q] \in {pending[q], NoPair}
      /\ \A q \in Procs : forgetting'[q] => forgetting[q]
      /\ \A q \in Procs : pending'[q] # pending[q] => q = p /\ forgetting[p]
  <2>1. CASE Forget(p)
    BY <2>1 DEF Forget, Fits, Copies, Persons
  <2>2. CASE \E t \in accepting[p] : Accept(p, t)
    BY <2>2 DEF Accept, Fits, Copies, Persons
  <2> QED BY <2>1, <2>2
<1>3. \A q \in Procs : \A t : Carries(q, t)' => Carries(q, t)
  BY <1>1, <1>2 DEF Carries
<1>4. \A q \in Procs : \A t \in Pair : t \in accepting[q] => t.gen = 0
  BY Places, Numbers DEF Traced, Entering, Made
<1>5. Carried'
  <2> SUFFICES ASSUME NEW q \in Procs, NEW t \in Token, Carries(q, t)'
               PROVE  /\ store # t
                      /\ \A r \in Procs \ {q} : /\ pair'[r] # t /\ pending'[r] # t
                                                /\ renewing[r] # Idle => renewing[r].tok # t
    BY <1>1, <1>3, CarriedStays DEF Guarded
  <2>1. /\ t.gen >= 1 /\ t # NoPair /\ store # t
        /\ \A r \in Procs \ {q} : /\ pair[r] # t /\ pending[r] # t
                                  /\ ~Free(r) => renewing[r].tok # t
    BY <1>3, CarriesFacts, NoPairIsNoToken DEF Guarded
  <2>2. \A r \in Procs : t \notin accepting[r]
    <3>1. t \in Pair
      BY DEF Pair
    <3> QED BY <1>4, <2>1, <3>1
  <2> QED BY <1>2, <2>1, <2>2 DEF Free
<1>6. Distinct' /\ Unpended'
  BY <1>1, <1>2 DEF Guarded, Distinct, Unpended, Free
<1>7. Leaving'
  BY <1>1, <1>2 DEF Guarded, Leaving, Leaves, Free
<1>8. Somewhere'
  <2> SUFFICES ASSUME store # NoPair, store.grant \notin lost, store # Newest(store.grant)
               PROVE  \E q \in Procs : Carries(q, Newest(store.grant))'
    BY <1>1 DEF Somewhere, Newest, Carries
  <2>1. PICK q \in Procs : Carries(q, Newest(store.grant))
    BY DEF Guarded, Somewhere
  <2>2. \/ pending'[q] = pending[q]
        \/ renewing[q].at = "renewed" /\ renewing[q].tok = Newest(store.grant)
    <3>1. SUFFICES ASSUME q = p, forgetting[p], pending[p] = Newest(store.grant),
                          Newest(store.grant) # NoPair
                   PROVE  FALSE
      BY <1>2, <2>1 DEF Carries
    <3>2. pending[p] # NoPair /\ pending[p].grant = store.grant
      BY <3>1 DEF Newest
    <3> QED BY <3>1, <3>2 DEF Guarded, Leaving, Leaves
  <2> QED BY <1>1, <2>1, <2>2 DEF Carries, Newest
<1> QED BY <1>5, <1>6, <1>7, <1>8 DEF Guarded

(* What a restart loses: what nobody else has, and what was served of a request nobody has
   the answer of. *)
LEMMA RestartLoses ==
    ASSUME Fits, NEW p \in Procs, Restart(p)
    PROVE  /\ lost \subseteq lost'
           /\ \A h \in Grant : HeldBy(p, Newest(h)) /\ store # Newest(h) =>
                h \in lost' \/ \E q \in Procs \ {p} : HeldBy(q, Newest(h))
           /\ \/ UNCHANGED latest
              \/ /\ renewing[p] \in Underway /\ renewing[p].at = "asked"
                 /\ rotates => renewing[p].tok = Newest(renewing[p].tok.grant)
                 /\ Issue(renewing[p].tok.grant) /\ renewing[p].tok.grant \in lost'
<1>1. renewing[p].at = "asked" => renewing[p] \in Underway
  BY Renewals DEF Fits, Underways
<1>2. \A h \in Grant : /\ HeldBy(p, Newest(h)) /\ store # Newest(h)
                       /\ \A q \in Procs \ {p} : ~HeldBy(q, Newest(h))
                       => h \in lost'
  BY DEF Restart
<1>3. /\ lost \subseteq lost'
      /\ \/ UNCHANGED latest
         \/ /\ renewing[p].at = "asked"
            /\ rotates => renewing[p].tok = Newest(renewing[p].tok.grant)
            /\ Issue(renewing[p].tok.grant) /\ renewing[p].tok.grant \in lost'
  BY DEF Restart
<1> QED BY <1>1, <1>2, <1>3

LEMMA RestartGuarded ==
    ASSUME Fits, Fits', Traced, rotates, Guarded, Saving' => Saving, NEW p \in Procs, Restart(p)
    PROVE  Guarded'
<1> DEFINE g == renewing[p].tok.grant
<1>1. Restarts(p) /\ UNCHANGED <<store, due>>
  BY RestartFacts DEF Restart
<1>2. /\ pair'[p] = store /\ renewing'[p] = Idle /\ Idle.at = "idle" /\ pending'[p] = NoPair
      /\ ~forgetting'[p]
      /\ \A q \in Procs \ {p} : /\ pair'[q] = pair[q] /\ renewing'[q] = renewing[q]
                                /\ pending'[q] = pending[q] /\ forgetting'[q] = forgetting[q]
  BY <1>1, Renewals DEF Restarts, Fits, Copies, Underways, Persons
<1>3. \A q \in Procs : \A t : Carries(q, t)' <=> Carries(q, t) /\ q # p
  BY <1>2 DEF Carries
<1>4. \/ UNCHANGED latest
      \/ /\ renewing[p] \in Underway /\ renewing[p].at = "asked" /\ renewing[p].tok = Newest(g)
         /\ Issue(g) /\ g \in lost' /\ g \in Grant
  <2>1. renewing[p] \in Underway => g \in Grant
    BY Renewals, Numbers
  <2> QED BY <2>1, RestartLoses
<1>5. ASSUME NEW q \in Procs, NEW t, Carries(q, t) PROVE latest'[t.grant] = latest[t.grant]
  <2>1. CASE ~UNCHANGED latest
    <3>1. t.grant # g /\ t.grant \in Grant
      BY <1>4, <1>5, <2>1, IssueCarried, CarriesFacts DEF Guarded
    <3> QED BY <1>4, <2>1, <3>1 DEF Issue, Fits, Endpoint
  <2> QED BY <2>1
<1>6. Carried'
  <2> SUFFICES ASSUME NEW q \in Procs, NEW t \in Token, Carries(q, t)'
               PROVE  /\ store' # t
                      /\ \A r \in Procs \ {q} : /\ pair'[r] # t /\ pending'[r] # t
                                                /\ renewing'[r] # Idle => renewing'[r].tok # t
    BY <1>1, <1>3, <1>5, CarriedStays DEF Guarded
  <2>1. /\ t # NoPair /\ store # t
        /\ \A r \in Procs \ {q} : /\ pair[r] # t /\ pending[r] # t
                                  /\ ~Free(r) => renewing[r].tok # t
    BY <1>3, CarriesFacts, NoPairIsNoToken DEF Guarded
  <2> QED BY <1>1, <1>2, <2>1 DEF Free
<1>7. Distinct' /\ Unpended'
  BY <1>2 DEF Guarded, Distinct, Unpended, Free
<1>8. Leaving'
  <2> SUFFICES ASSUME NEW q \in Procs, forgetting'[q] PROVE Leaves(q)'
    BY DEF Leaving
  <2>1. q # p /\ Leaves(q)
    BY <1>2 DEF Guarded, Leaving
  <2>2. ~Free(q) /\ renewing[q].tok.gen = latest'[renewing[q].tok.grant] =>
          renewing[q].tok.gen = latest[renewing[q].tok.grant]
    BY <1>4, IssueLeaves
  <2> QED BY <1>1, <1>2, <2>1, <2>2 DEF Leaves, Free
<1>9. Somewhere'
  <2> SUFFICES ASSUME store # NoPair, store.grant \notin lost', store # Newest(store.grant)'
               PROVE  \E q \in Procs : Carries(q, Newest(store.grant))'
    BY <1>1 DEF Somewhere, Newest, Carries
  <2> DEFINE t == Newest(store.grant)
  <2>1. store \in Token /\ store.grant \in Grant /\ store.grant \notin lost
    BY Places, Numbers, RestartLoses
  <2>2. latest'[store.grant] = latest[store.grant]
    BY <1>4, <2>1 DEF Issue, Fits, Endpoint
  <2>3. Newest(store.grant)' = t
    BY <1>1, <2>2 DEF Newest
  <2>4. PICK q \in Procs : Carries(q, t)
    BY <1>1, <2>1, <2>2 DEF Guarded, Somewhere, Newest
  <2>5. q # p
    <3>1. SUFFICES ASSUME q = p PROVE FALSE
      OBVIOUS
    <3>2. HeldBy(p, t) /\ store # t
      BY <2>4, <3>1, CarriesFacts DEF Guarded, Carries, HeldBy
    <3>3. PICK r \in Procs \ {p} : HeldBy(r, t)
      BY <2>1, <3>2, RestartLoses
    <3>4. pair[r] # t /\ ~Carries(r, t) /\ t # NoPair
      BY <2>4, <3>1, CarriesFacts, NoPairIsNoToken DEF Guarded
    <3> HIDE DEF t
    <3> QED BY <3>3, <3>4 DEF HeldBy, Carries
  <2>6. Carries(q, Newest(store.grant))'
    BY <1>2, <2>3, <2>4, <2>5 DEF Carries
  <2> QED BY <2>6
<1> QED BY <1>6, <1>7, <1>8, <1>9 DEF Guarded

LEMMA PassGuarded ==
    ASSUME Fits, Guarded, Saving' => Saving, NEW t \in Token, Pass(t)
    PROVE  Guarded'
<1>1. /\ UNCHANGED <<latest, store, pair, pending, renewing, lost, forgetting>>
      /\ \A p \in Procs : renewing[p] = Idle /\ pending[p] = NoPair /\ ~forgetting[p]
  BY DEF Pass, memory, person, Free
<1>2. \A p \in Procs : \A u : ~Carries(p, u) /\ ~Carries(p, u)'
  BY <1>1, Renewals DEF Carries
<1>3. Carried' /\ Distinct' /\ Unpended' /\ Leaving'
  BY <1>1, <1>2 DEF Carried, Distinct, Unpended, Leaving
<1>4. Somewhere'
  BY <1>1, <1>2 DEF Guarded, Somewhere, Newest
<1> QED BY <1>3, <1>4 DEF Guarded

LEMMA NextTreasured == Fits /\ Fits' /\ Traced /\ Ordered /\ Treasured /\ [Next]_vars => Treasured'
<1> SUFFICES ASSUME Fits, Fits', Traced, Ordered, Treasured, [Next]_vars, rotates', Spared'
             PROVE  Guarded'
  BY DEF Treasured
<1>1. rotates /\ (Saving' => Saving) /\ Guarded
  BY SavingOnce DEF Treasured
<1>2. CASE UNCHANGED vars
  BY <1>1, <1>2, StillGuarded DEF vars, service, memory, person
<1>3. ASSUME NEW c \in Calls, Ask(c) PROVE Guarded'
  <2>1. CASE Access(c) \/ Answer(c)
    BY <1>1, <2>1, StillGuarded DEF Access, Answer, service, person
  <2> QED BY <1>1, <1>3, <2>1, RenewGuarded DEF Ask
<1>4. ASSUME NEW p \in Procs, Request(p) \/ Persist(p) \/ Told(p) PROVE Guarded'
  BY <1>1, <1>4, ServeGuarded, SaveGuarded, PersistGuarded, TaskGuarded DEF Request, Told
<1>5. ASSUME NEW p \in Procs, SignIn(p) \/ SignOut(p) \/ Restart(p) PROVE Guarded'
  BY <1>1, <1>5, SignInGuarded, SignOutGuarded, RestartGuarded
<1>6. ASSUME NEW t \in Token, Pass(t) PROVE Guarded'
  BY <1>1, <1>6, PassGuarded
<1> QED BY <1>2, <1>3, <1>4, <1>5, <1>6 DEF Next

LEMMA InitTreasured == Init => Treasured
<1> SUFFICES ASSUME Init PROVE Guarded
  BY DEF Treasured
<1>1. /\ \A p \in Procs : renewing[p] = Idle /\ pending[p] = NoPair /\ ~forgetting[p]
      /\ store = [grant |-> 1, gen |-> 0] /\ 1 \in Grant /\ latest = [h \in Grant |-> 0]
  BY ConstantsAssumption DEF Init, Grant
<1>2. \A p \in Procs : \A t : ~Carries(p, t)
  BY <1>1, Renewals DEF Carries
<1>3. store = Newest(store.grant)
  BY <1>1 DEF Newest
<1> QED BY <1>1, <1>2, <1>3 DEF Guarded, Carried, Distinct, Unpended, Leaving, Somewhere

(* Where a service replaces the refresh token, the pair that works is in the store or with a
   process as long as the store says the person is signed in, whatever renewals, sign-ins,
   sign-outs and restarts fall together, and though one write to the store fails: the one
   left to the next drain is then the only one there is (Held::save,
   persist_renewed_tokens).  A second failure may meet that one, which the drain has taken by
   then. *)
THEOREM NewestStays == Spec => [](Spared => NewestPairKept)
<1>1. Treasured => (Spared => NewestPairKept)
  BY DEF Treasured, Guarded, Somewhere, NewestPairKept, Carries, HeldBy
<1> QED BY <1>1, InitFits, NextFits, InitTraced, NextTraced, InitOrdered, NextOrdered,
           InitTreasured, NextTreasured, PTL
    DEF Spec

(* In particular where one write fails at most. *)
THEOREM NewestStaysOnce ==
    ASSUME "unsaved" \in Kind => Limit["unsaved"] <= 1
    PROVE  Spec => []NewestPairKept
<1>1. Init => Limited
  <2>1. "unsaved" \in Kind => Limit["unsaved"] \in Nat
    BY ConstantsAssumption DEF Kind
  <2> QED BY <2>1 DEF Init, Limited
<1>2. Fits /\ Limited /\ [Next]_vars => Limited'
  BY SavingOnce
<1>3. Fits /\ Limited => Spared
  <2>1. "unsaved" \in Kind => Limit["unsaved"] \in Nat
    BY ConstantsAssumption DEF Kind
  <2> QED BY <2>1 DEF Fits, Counted, Limited, Spared
<1> QED BY <1>1, <1>2, <1>3, InitFits, NextFits, NewestStays, PTL DEF Spec
=============================================================================
